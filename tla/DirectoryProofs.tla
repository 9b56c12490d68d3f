--------------------------- MODULE DirectoryProofs ---------------------------
(* Theorems about the directory server for any number of slots, connections, *)
(* names and nodes: types, slots and threads; when no file server sends      *)
(* UPDATE, also mutual exclusion in the tree, paths that are created once    *)
(* and a listing that grows at its end; and then that the directory          *)
(* implements Namespace.                                                     *)
EXTENDS DirectoryNamespace, TablesProofs, SequenceTheorems, FiniteSetTheorems

\* Slots and nodes are numbered from 1; 0 stands for none of them.
LEMMA BoundsFacts ==
    /\ Root \in NodeIds
    /\ NIL \notin NodeIds
    /\ NIL \notin Slots
    /\ NodeIds \subseteq Nat
BY BoundsAreNaturals DEF Root, NIL, NodeIds, Slots

\* A lookup finds a node of the tree or nothing.
LEMMA FindNodeType ==
    ASSUME nodes \in [NodeIds -> Node], NEW path
    PROVE  FindNode(path) \in NodeIds \cup {NIL}
<1> DEFINE kids == nodes[Root].kids
           hits == {k \in DOMAIN kids : nodes[kids[k]].name = path}
<1>1. kids \in Seq(NodeIds)
      BY BoundsFacts DEF Node
<1>2. ASSUME hits # {} PROVE kids[Smallest(hits)] \in NodeIds
      <2>1. hits \in SUBSET Nat
            BY <1>1, LenProperties
      <2>2. Smallest(hits) \in DOMAIN kids
            <3> HIDE DEF kids
            <3> QED BY <2>1, <1>2, SmallestIsIn
      <2> QED
            BY <1>1, <2>2, LenProperties, ElementOfSeq
<1> QED
      BY <1>2, BoundsFacts DEF FindNode, ChildNamed

\* The names of the children of a node are a sequence of names.
LEMMA ChildNamesType ==
    ASSUME nodes \in [NodeIds -> Node], NEW p \in NodeIds
    PROVE  ChildNames(p) \in Seq(Names \cup {Slash})
<1> DEFINE kids == nodes[p].kids
<1>1. kids \in Seq(NodeIds)
      BY DEF Node
<1>2. Len(kids) \in Nat /\ DOMAIN kids = 1..Len(kids)
         /\ \A k \in 1..Len(kids) : kids[k] \in NodeIds
      BY <1>1, LenProperties, ElementOfSeq
<1>3. ChildNames(p) \in [1..Len(kids) -> Names \cup {Slash}]
      BY <1>2 DEF ChildNames, Node
<1> QED
      BY <1>2, <1>3, SeqDef

\* Linking a node keeps a list of children a list of nodes.
LEMMA LinkAfterType ==
    ASSUME NEW kids \in Seq(NodeIds), NEW last, NEW n \in NodeIds
    PROVE  LinkAfter(kids, last, n) \in Seq(NodeIds)
<1>1. <<n>> \in Seq(NodeIds)
      OBVIOUS
<1>2. ASSUME \E k \in DOMAIN kids : kids[k] = last
      PROVE  Append(SubSeq(kids, 1, CHOOSE k \in DOMAIN kids : kids[k] = last), n)
                 \in Seq(NodeIds)
      <2> DEFINE k == CHOOSE k \in DOMAIN kids : kids[k] = last
      <2>1. k \in 1..Len(kids)
            BY <1>2, LenProperties
      <2> HIDE DEF k
      <2>2. \A j \in 1..k : kids[j] \in NodeIds
            BY <2>1, ElementOfSeq, LenProperties
      <2>3. SubSeq(kids, 1, k) \in Seq(NodeIds)
            BY <2>1, <2>2, SubSeqProperties
      <2> QED
            BY <2>3, AppendProperties DEF k
<1> QED
      BY <1>1, <1>2 DEF LinkAfter

\* Every message the program builds is a message.
LEMMA MessageTypes ==
    /\ NoRequest \in Requests
    /\ Hello \in Requests
    /\ NoReply \in Replies
    /\ HelloResponse \in Replies
    /\ \A names \in Seq(Names \cup {Slash}) : FileInfo(names) \in Replies
    /\ DcpError("EXISTS") \in Replies
    /\ DcpError("FILENOTFOUND") \in Replies
    /\ \A i \in Slots : ReplicaStatus(i) \in Replies
BY EmptySeq DEF NoRequest, Hello, Requests, NoReply, HelloResponse, FileInfo,
                DcpError, ReplicaStatus, Message, Replies

\* Sending a message to a file server keeps the network well-typed.
LEMMA DeliverType ==
    ASSUME rep \in [Conns -> Replies], NEW c, NEW m \in Replies, Deliver(c, m)
    PROVE  rep' \in [Conns -> Replies]
BY MessageTypes DEF Deliver

-----------------------------------------------------------------------------
(* The type invariant.                                                      *)

\* The initial state is well-typed, with no registered server and no handler.
LEMMA InitTypeInv == Init => TypeInv
<1> SUFFICES ASSUME Init PROVE TypeInv
    OBVIOUS
<1> USE DEF Init
<1>1. [n \in NodeIds |-> FreeNode] \in [NodeIds -> Node]
      BY EmptySeq DEF FreeNode, Node
<1>2. TypeOK
      BY <1>1, MessageTypes, BoundsFacts, BoundsAreNaturals
      DEF TypeOK, LinkStates, Pcs, Root, NodeIds
<1>3. Registration /\ LocalsSet /\ ReadsRoot
      BY DEF Registration, LocalsSet, ReadsRoot, NoRequest
<1> QED
      BY <1>2, <1>3 DEF TypeInv

\* register_fsrv returns a free slot or NIL.
LEMMA RegisteredSlotType ==
    RegisteredSlot # NIL => RegisteredSlot \in Slots /\ fileservers[RegisteredSlot].id = 0
<1> SUFFICES ASSUME FreeSlots # {} PROVE Smallest(FreeSlots) \in FreeSlots
    BY DEF RegisteredSlot, FreeSlots
<1>1. FreeSlots \in SUBSET Nat
      BY DEF FreeSlots, Slots
<1> QED
      BY <1>1, SmallestIsIn

\* Every step of the file servers, the main thread and the threads keeps it.
LEMMA NextTypeInv == TypeInv /\ [Next]_vars => TypeInv'
<1> SUFFICES ASSUME TypeInv, [Next]_vars PROVE TypeInv'
    OBVIOUS
<1> USE BoundsAreNaturals
    DEF TypeInv, TypeOK, Registration, LocalsSet, ReadsRoot, env, main, thread, tree
<1>1. ASSUME Connect PROVE TypeInv'
      BY <1>1 DEF Connect, LinkStates, Conns
<1>2. ASSUME NEW c \in Conns, SendHello(c) PROVE TypeInv'
      BY <1>2, MessageTypes DEF SendHello, Hello, LinkStates
<1>3. ASSUME NEW c \in Conns, ReceiveHelloResponse(c) PROVE TypeInv'
      BY <1>3, MessageTypes DEF ReceiveHelloResponse, LinkStates
<1>4. ASSUME NEW c \in Conns, ListDirectory(c) \/ CreateFile(c) \/ WriteFile(c) \/ AskFile(c)
      PROVE  TypeInv'
      <2>1. ASSUME NEW kind \in DcpRequests, NEW path \in Names \cup {Slash},
                   kind = "READ" => path = Slash, SendRequest(c, kind, path)
            PROVE  TypeInv'
            BY <2>1 DEF SendRequest, Requests, LinkStates
      <2> QED
            BY <1>4, <2>1 DEF ListDirectory, CreateFile, WriteFile, AskFile, DcpRequests
<1>5. ASSUME NEW c \in Conns, ReceiveReply(c) PROVE TypeInv'
      BY <1>5, MessageTypes DEF ReceiveReply, LinkStates
<1>6. ASSUME NEW c \in Conns, Crash(c) PROVE TypeInv'
      BY <1>6, MessageTypes DEF Crash, LinkStates
<1>7. ASSUME AcceptFileServer PROVE TypeInv'
      BY <1>7, BoundsFacts, RegisteredSlotType DEF AcceptFileServer, Conns
<1>8. ASSUME RefuseFileServer PROVE TypeInv'
      BY <1>8 DEF RefuseFileServer, LinkStates, Conns
<1>9. ASSUME GreetFileServer PROVE TypeInv'
      BY <1>9, MessageTypes, DeliverType DEF GreetFileServer, NoRequest, Conns, Pcs
<1>10. ASSUME GreetFails PROVE TypeInv'
      BY <1>10 DEF GreetFails, Conns
<1>11. ASSUME NEW i \in Slots, ReceiveRequest(i) PROVE TypeInv'
      BY <1>11, MessageTypes
      DEF ReceiveRequest, Handler, DcpRequests, NoRequest, Requests, Pcs, LockPcs,
          CriticalPcs, CreatePcs, UpdatePcs
<1>12. ASSUME NEW i \in Slots, ThreadExits(i) PROVE TypeInv'
      BY <1>12 DEF ThreadExits, Goto, SlotAfterExit, Pcs
<1>13. ASSUME NEW i \in Slots, ReadLock(i) PROVE TypeInv'
      BY <1>13 DEF ReadLock, LockDirectory, Lock, Goto, Pcs, CriticalPcs
<1>14. ASSUME NEW i \in Slots, ReadList(i) PROVE TypeInv'
      BY <1>14, DeliverType, MessageTypes, ChildNamesType, BoundsFacts
      DEF ReadList, Unlock, Goto, Reply, FindNode, Pcs
<1>15. ASSUME NEW i \in Slots, ReplicasLock(i) PROVE TypeInv'
      BY <1>15 DEF ReplicasLock, LockDirectory, Lock, Goto, Pcs, CriticalPcs
<1>16. ASSUME NEW i \in Slots, ReplicasFind(i) PROVE TypeInv'
      BY <1>16, DeliverType, MessageTypes, FindNodeType, BoundsFacts
      DEF ReplicasFind, ReplicaAnswer, ReplicasUnlock, Unlock, Goto, Reply, Node, Pcs
<1>17. ASSUME NEW i \in Slots, CreateLock(i) PROVE TypeInv'
      BY <1>17 DEF CreateLock, LockDirectory, Lock, Goto, Pcs, CriticalPcs
<1>18. ASSUME NEW i \in Slots, CreateExists(i) PROVE TypeInv'
      BY <1>18, DeliverType, MessageTypes
      DEF CreateExists, AfterExists, Goto, Reply, Pcs
<1>19. ASSUME NEW i \in Slots, CreateAbsent(i) PROVE TypeInv'
      BY <1>19 DEF CreateAbsent, Goto, Pcs, CriticalPcs, CreatePcs
<1>20. ASSUME NEW i \in Slots, CreateAdd(i) PROVE TypeInv'
      <2>1. FindParent(msg[i].path) \in NodeIds /\ nodecnt + 1 \in NodeIds
            BY <1>20, FindNodeType, BoundsFacts DEF CreateAdd, FindParent, NodeIds
      <2>2. nodes' \in [NodeIds -> Node]
            BY <1>20, EmptySeq DEF CreateAdd, Requests, Node
      <2> QED
            BY <1>20, <2>1, <2>2 DEF CreateAdd, Goto, Pcs, CriticalPcs, CreatePcs
<1>21. ASSUME NEW i \in Slots, CreateWalk(i) PROVE TypeInv'
      <2> DEFINE kids == nodes[parent[i]].kids
      <2>1. kids \in Seq(NodeIds)
            BY <1>21 DEF CreateWalk, Goto, Node
      <2>2. kids # <<>> => kids[Len(kids)] \in NodeIds
            BY <2>1, EmptySeq, ElementOfSeq
      <2>3. tail' \in [Slots -> NodeIds \cup {NIL}]
            BY <1>21, <2>2 DEF CreateWalk
      <2> QED
            BY <1>21, <2>3 DEF CreateWalk, Goto, Pcs, CriticalPcs, CreatePcs
<1>22. ASSUME NEW i \in Slots, CreateLink(i) PROVE TypeInv'
      BY <1>22, LinkAfterType DEF CreateLink, Goto, Node, Pcs, CriticalPcs, CreatePcs
<1>23. ASSUME NEW i \in Slots, CreateOwn(i) PROVE TypeInv'
      <2>1. node[i] \in NodeIds /\ <<nodes[node[i]].name>> \in Seq(Names \cup {Slash})
            BY <1>23 DEF CreateOwn, Goto, Node
      <2>2. rep' \in [Conns -> Replies]
            BY <1>23, <2>1, DeliverType, MessageTypes DEF CreateOwn, Reply
      <2>3. nodes' \in [NodeIds -> Node]
            BY <1>23, <2>1 DEF CreateOwn, Node
      <2> QED
            BY <1>23, <2>2, <2>3, BoundsFacts
            DEF CreateOwn, DropLocals, Unlock, Goto, Pcs
<1>24. ASSUME NEW i \in Slots, UpdateUnlock(i) PROVE TypeInv'
      BY <1>24 DEF UpdateUnlock, Unlock, Goto, Pcs, UpdatePcs
<1>25. ASSUME NEW i \in Slots, UpdateFind(i) PROVE TypeInv'
      BY <1>25, FindNodeType, BoundsFacts
      DEF UpdateFind, UpdateTargets, Found, Goto, Pcs, UpdatePcs
<1>26. ASSUME NEW i \in Slots, UpdateMiss(i) PROVE TypeInv'
      BY <1>26, DeliverType, MessageTypes, BoundsFacts
      DEF UpdateMiss, DropLocals, Unlock, Goto, Reply, Pcs
<1>27. ASSUME NEW i \in Slots, UpdateSet(i) PROVE TypeInv'
      <2>1. node[i] \in NodeIds /\ <<nodes[node[i]].name>> \in Seq(Names \cup {Slash})
            BY <1>27 DEF UpdateSet, Goto, Node
      <2>2. rep' \in [Conns -> Replies]
            BY <1>27, <2>1, DeliverType, MessageTypes DEF UpdateSet, Reply
      <2>3. nodes' \in [NodeIds -> Node]
            BY <1>27, <2>1 DEF UpdateSet, Node
      <2> QED
            BY <1>27, <2>2, <2>3, BoundsFacts
            DEF UpdateSet, DropLocals, Unlock, Goto, Pcs
<1>28. CASE UNCHANGED vars
      BY <1>28 DEF vars
<1> HIDE DEF TypeInv, TypeOK, Registration, LocalsSet, ReadsRoot, env, main, thread, tree
<1> QED
      BY <1>1, <1>2, <1>3, <1>4, <1>5, <1>6, <1>7, <1>8, <1>9, <1>10, <1>11, <1>12,
         <1>13, <1>14, <1>15, <1>16, <1>17, <1>18, <1>19, <1>20, <1>21, <1>22, <1>23,
         <1>24, <1>25, <1>26, <1>27, <1>28
      DEF Next, FileServerStep, MainThread, ThreadStep

\* The type invariant holds in every reachable state of the directory server
\* and of the file servers connected to it.
THEOREM TypeCorrect == Spec => []TypeOK
<1>1. TypeInv => TypeOK
      BY DEF TypeInv
<1> QED
      BY <1>1, InitTypeInv, NextTypeInv, PTL DEF Spec

\* The strengthened form holds too, for the theorems that build on it.
THEOREM AlwaysTypeInv == Spec => []TypeInv
BY InitTypeInv, NextTypeInv, PTL DEF Spec

-----------------------------------------------------------------------------
(* The storers of the nodes.                                                *)

\* A slot once given out keeps its id and its thread does not become unborn.
LEMMA SlotsStayTaken ==
    ASSUME TypeInv, Next, NEW s \in Slots, fileservers[s].id # 0
    PROVE  /\ fileservers'[s] = fileservers[s]
           /\ pc[s] # "unborn" => pc'[s] # "unborn"
<1> USE DEF TypeInv, TypeOK, Registration
<1>1. CASE Connect \/ \E c \in Conns : FileServerStep(c)
      BY <1>1 DEF Connect, FileServerStep, SendHello, ReceiveHelloResponse, SendRequest,
                  ListDirectory, CreateFile, WriteFile, AskFile, ReceiveReply, Crash, main, thread
<1>2. CASE MainThread
      BY <1>2, RegisteredSlotType DEF MainThread, AcceptFileServer, RefuseFileServer,
                  GreetFileServer, GreetFails, thread
<1>3. ASSUME NEW i \in Slots, ThreadStep(i)
      PROVE  fileservers'[s] = fileservers[s] /\ (pc[s] # "unborn" => pc'[s] # "unborn")
      BY <1>3
      DEF ThreadStep, ReceiveRequest, Handler, DcpRequests, ThreadExits, SlotAfterExit,
          ReadLock, ReadList,
                  ReplicasLock, ReplicasFind, CreateLock, CreateExists, AfterExists,
                  CreateAbsent, CreateAdd,
                  CreateWalk, CreateLink, CreateOwn, UpdateUnlock, UpdateFind, UpdateMiss,
                  UpdateSet, LockDirectory, Goto, main
<1> QED
      BY <1>1, <1>2, <1>3 DEF Next

\* The storer of a node is the one it had, none, or the server of a running
\* thread.
LEMMA StorerChanges ==
    ASSUME TypeInv, Next, NEW n \in NodeIds
    PROVE  LET s == nodes'[n].fileserv IN
           s = nodes[n].fileserv \/ s = NIL \/ (s \in Slots /\ pc[s] # "unborn")
<1>0. nodes \in [NodeIds -> Node] /\ pc \in [Slots -> Pcs]
      BY DEF TypeInv, TypeOK
<1>1. ASSUME NEW i \in Slots, CreateAdd(i)
      PROVE  nodes'[n].fileserv = nodes[n].fileserv \/ nodes'[n].fileserv = NIL
      BY <1>0, <1>1 DEF CreateAdd, Node
<1>2. ASSUME NEW i \in Slots, CreateLink(i) PROVE nodes'[n].fileserv = nodes[n].fileserv
      BY <1>0, <1>2 DEF CreateLink, Node
<1>3. ASSUME NEW i \in Slots, CreateOwn(i) \/ UpdateSet(i)
      PROVE  \/ nodes'[n].fileserv = nodes[n].fileserv
             \/ nodes'[n].fileserv = i /\ pc[i] # "unborn"
      BY <1>0, <1>3 DEF CreateOwn, UpdateSet, Goto, Node
<1>4. CASE UNCHANGED nodes
      BY <1>4
<1> QED
      BY <1>1, <1>2, <1>3, <1>4
      DEF Next, MainThread, FileServerStep, ThreadStep, Connect, SendHello,
         ReceiveHelloResponse,
          SendRequest, ListDirectory, CreateFile, WriteFile, AskFile, ReceiveReply, Crash,
          AcceptFileServer, RefuseFileServer, GreetFileServer,
          GreetFails, ReceiveRequest, ThreadExits, ReadLock, ReadList, ReplicasLock, ReplicasFind,
          CreateLock, CreateExists, CreateAbsent, CreateWalk, UpdateUnlock, UpdateFind,
          UpdateMiss, LockDirectory, tree

\* The storer of every node is a file server that was registered and greeted,
\* so the address replica_status sends is one that was recorded; UPDATE
\* requests and crashes included.
THEOREM StorersAlwaysRegistered == Spec => []StorersRegistered
<1> DEFINE Inv == TypeInv /\ StorersRegistered
<1>1. Init => Inv
      BY InitTypeInv DEF Init, StorersRegistered, FreeNode
<1>2. Inv /\ [Next]_vars => Inv'
      <2> SUFFICES ASSUME Inv, [Next]_vars PROVE StorersRegistered'
          BY NextTypeInv
      <2>1. CASE UNCHANGED vars
            BY <2>1 DEF vars, StorersRegistered
      <2>2. ASSUME Next, NEW n \in NodeIds, nodes'[n].fileserv # NIL
            PROVE  LET s == nodes'[n].fileserv IN fileservers'[s].id # 0 /\ pc'[s] # "unborn"
            <3> DEFINE s == nodes'[n].fileserv
            <3>1. s \in Slots /\ pc[s] # "unborn" /\ fileservers[s].id # 0
                  BY <2>2, StorerChanges
                  DEF StorersRegistered, TypeInv, TypeOK, Registration, Node
            <3> QED
                  BY <2>2, <3>1, SlotsStayTaken
      <2> QED
            BY <2>1, <2>2 DEF StorersRegistered
<1>3. Inv => StorersRegistered
      OBVIOUS
<1> QED
      BY <1>1, <1>2, <1>3, PTL DEF Spec

-----------------------------------------------------------------------------
(* The table of file servers.                                               *)

\* The slots that were given out.
TakenSlots == {i \in Slots : fileservers[i].id # 0}

\* They are counted, never more than there are, and there is none left when
\* fsrvcnt has reached its limit.
LEMMA TakenSlotsCounted ==
    ASSUME TypeOK
    PROVE  /\ IsFiniteSet(TakenSlots)
           /\ Cardinality(TakenSlots) \in Nat
           /\ Cardinality(TakenSlots) <= MaxFservers
<1>1. IsFiniteSet(Slots) /\ Cardinality(Slots) = MaxFservers
      BY FS_Interval, BoundsAreNaturals DEF Slots
<1>2. TakenSlots \in SUBSET Slots
      BY DEF TakenSlots
<1> QED
      BY <1>1, <1>2, FS_Subset, FS_CardinalityType

\* Only the main thread of the directory changes the table, and a thread that
\* exits leaves its slot as it is.
LEMMA TableChanges ==
    ASSUME TypeOK, [Next]_vars, ~AcceptFileServer
    PROVE  UNCHANGED <<fileservers, fsrvcnt>>
<1>1. ASSUME NEW i \in Slots, ThreadExits(i) PROVE UNCHANGED <<fileservers, fsrvcnt>>
      BY <1>1 DEF ThreadExits, SlotAfterExit, TypeOK
<1> QED
      BY <1>1
      DEF Next, MainThread, FileServerStep, ThreadStep, Connect, SendHello,
          ReceiveHelloResponse, SendRequest, ListDirectory, CreateFile, WriteFile, AskFile,
          ReceiveReply, Crash, RefuseFileServer, GreetFileServer, GreetFails,
          ReceiveRequest, ReadLock, ReadList, ReplicasLock, ReplicasFind,
          CreateLock, CreateExists, CreateAbsent, CreateAdd, CreateWalk, CreateLink,
          CreateOwn, UpdateUnlock, UpdateFind, UpdateMiss, UpdateSet, LockDirectory, main, vars

\* A server is turned away by a step of the main thread only.
LEMMA RefusalStep ==
    ASSUME TypeOK, [Next]_vars, NEW c \in Conns, link'[c] = "refused"
    PROVE  link[c] = "refused" \/ RefuseFileServer
<1>1. ASSUME NEW d \in Conns, FileServerStep(d) PROVE link[c] = "refused"
      BY <1>1
      DEF FileServerStep, SendHello, ReceiveHelloResponse, SendRequest, ListDirectory,
          CreateFile, WriteFile, AskFile, ReceiveReply, Crash, TypeOK
<1>2. CASE Connect
      BY <1>2 DEF Connect, TypeOK
<1>3. ASSUME NEW i \in Slots, ThreadStep(i) PROVE UNCHANGED link
      BY <1>3
      DEF ThreadStep, ThreadExits, ReceiveRequest, ReadLock, ReadList, ReplicasLock,
          ReplicasFind, CreateLock, CreateExists, CreateAbsent, CreateAdd, CreateWalk,
          CreateLink, CreateOwn, UpdateUnlock, UpdateFind, UpdateMiss, UpdateSet,
          LockDirectory, env
<1> QED
      BY <1>1, <1>2, <1>3
      DEF Next, MainThread, AcceptFileServer, GreetFileServer, GreetFails, env, vars

\* A server is turned away only when every slot was given out, and the count of
\* registrations never leaves the number of taken slots behind (register_fsrv).
THEOREM RefusedWhenFullHolds == Spec => []RefusedWhenFull
<1> DEFINE Inv == TypeInv /\ RefusedWhenFull
<1>1. Init => RefusedWhenFull
      <2> SUFFICES ASSUME Init PROVE RefusedWhenFull
          OBVIOUS
      <2>1. {i \in Slots : fileservers[i].id # 0} = {}
            BY DEF Init
      <2> QED
            BY <2>1, FS_EmptySet DEF Init, RefusedWhenFull
<1>2. Inv /\ [Next]_vars => RefusedWhenFull'
      <2> SUFFICES ASSUME Inv, [Next]_vars PROVE RefusedWhenFull'
          OBVIOUS
      <2>0. TypeOK /\ fsrvcnt = Cardinality(TakenSlots)
            BY DEF TypeInv, RefusedWhenFull, TakenSlots
      <2>1. CASE AcceptFileServer
            <3>1. /\ RegisteredSlot \in Slots /\ fileservers[RegisteredSlot].id = 0
                  /\ lastsid # 0 /\ fsrvcnt' = fsrvcnt + 1 /\ UNCHANGED link
                  /\ fileservers' = [fileservers EXCEPT ![RegisteredSlot] =
                                         [id |-> lastsid, sd |-> lastsid]]
                  BY <2>0, <2>1, RegisteredSlotType DEF AcceptFileServer, TypeOK, env
            <3> DEFINE r == RegisteredSlot
            <3>2. TakenSlots' = TakenSlots \cup {r} /\ r \notin TakenSlots
                  BY <2>0, <3>1 DEF TakenSlots, TypeOK
            <3>3. Cardinality(TakenSlots') = Cardinality(TakenSlots) + 1
                  <4> HIDE DEF r
                  <4> QED
                        BY <2>0, <3>2, TakenSlotsCounted, FS_AddElement
            <3>4. r \in FreeSlots
                  BY <3>1 DEF FreeSlots
            <3>5. \A c \in Conns : link[c] # "refused"
                  BY <3>4 DEF RefusedWhenFull
            <3> QED
                  BY <2>0, <3>1, <3>3, <3>5 DEF RefusedWhenFull, TakenSlots
      <2>2. CASE ~AcceptFileServer
            <3>1. UNCHANGED <<fileservers, fsrvcnt>>
                  BY <2>0, <2>2, TableChanges
            <3>2. ASSUME RefuseFileServer PROVE FreeSlots = {}
                  <4>1. fsrvcnt <= MaxFservers /\ lastsid # 0
                        BY <2>0, TakenSlotsCounted DEF TypeOK
                  <4>2. FreeSlots # {} => Smallest(FreeSlots) # NIL
                        <5>1. FreeSlots \in SUBSET Nat /\ NIL \notin FreeSlots
                              BY BoundsFacts DEF FreeSlots, Slots
                        <5> QED
                              BY <5>1, SmallestIsIn
                  <4>3. fsrvcnt \in Nat /\ MaxFservers \in Nat
                        BY <2>0, BoundsAreNaturals DEF TypeOK
                  <4> QED
                        BY <3>2, <4>1, <4>2, <4>3 DEF RefuseFileServer, RegisteredSlot
            <3>3. (\E c \in Conns : link'[c] = "refused") => FreeSlots = {}
                  BY <2>0, <3>2, RefusalStep DEF RefusedWhenFull
            <3> QED
                  BY <3>1, <3>3 DEF RefusedWhenFull, FreeSlots
      <2> QED
            BY <2>1, <2>2
<1> QED
      BY <1>1, <1>2, InitTypeInv, NextTypeInv, PTL DEF Spec

-----------------------------------------------------------------------------
(* Requests and replies.                                                    *)

\* The slots are given out to the connections in turn, one each; the main
\* thread is with the connection lastsid.
SlotsInTurn ==
    /\ \A i \in Slots : fileservers[i].id = fileservers[i].sd
    /\ \A i \in Slots :
           \/ fileservers[i].sd < lastsid
           \/ mainpc = "hello" /\ i = fsrvinfo /\ fileservers[i].sd = lastsid
    /\ mainpc = "hello" => fileservers[fsrvinfo].sd = lastsid
    /\ \A i, j \in Slots :
           fileservers[i].sd = fileservers[j].sd => i = j \/ fileservers[i].sd = 0

\* A connection that was not accepted yet has not been answered.
NotAccepted(c) ==
    /\ c > nconn <=> link[c] = "none"
    /\ c >= lastsid =>
           link[c] \in {"none", "connected", "greeting", "dead"} /\ rep[c] = NoReply

\* What is under way fits what the file server is doing (dcp_open and the
\* commands of fsservd.c, which wait for the answer to each request),
AtServer(c) ==
    /\ rep[c] # NoReply => link[c] \in {"greeting", "waiting"} /\ req[c] = NoRequest
    /\ link[c] \in {"none", "connected", "idle"} => req[c] = NoRequest
    /\ link[c] = "greeting" /\ rep[c] = NoReply => req[c] = Hello
    /\ req[c] = Hello => link[c] \in {"greeting", "refused", "dead"}

\* The thread of slot i has read a request and has not answered it.
InHandler(i) == pc[i] \notin {"unborn", "recv", "exited"}

\* and what its thread is doing (serve_fileserver, dcp_accept).
AtThread(c, i) ==
    fileservers[i].sd = c =>
        /\ rep[c] # NoReply => pc[i] = "recv"
        /\ link[c] \notin {"none", "refused"}
        /\ link[c] = "connected" => pc[i] = "unborn"
        /\ link[c] = "greeting" /\ rep[c] = NoReply => pc[i] = "unborn"
        /\ link[c] = "idle" => pc[i] = "recv"
        /\ req[c] = Hello => pc[i] = "unborn"
        /\ pc[i] = "unborn" => \/ link[c] = "dead"
                               \/ mainpc = "hello" /\ i = fsrvinfo
        /\ InHandler(i) => link[c] \in {"waiting", "dead"} /\ req[c] = NoRequest

\* The inductive invariant behind ReplyEndsRequest: one connection per slot,
\* and request, reply, file server and thread of a connection in step.
TurnInv ==
    /\ SlotsInTurn
    /\ \A c \in Conns : NotAccepted(c) /\ AtServer(c) /\ \A i \in Slots : AtThread(c, i)

\* A connection that does not change keeps its place.
LEMMA SameTurn ==
    ASSUME NEW c \in Conns, AtServer(c), NEW i \in Slots, AtThread(c, i),
           UNCHANGED <<link[c], req[c], rep[c], pc[i], fileservers[i], mainpc, fsrvinfo>>
    PROVE  AtServer(c)' /\ AtThread(c, i)'
BY DEF AtServer, AtThread, InHandler

\* The file servers keep the turns.
LEMMA ServerTurns ==
    ASSUME TypeInv, TurnInv, NEW c \in Conns, FileServerStep(c)
    PROVE  TurnInv'
<1>0. /\ link \in [Conns -> LinkStates] /\ req \in [Conns -> Requests]
      /\ rep \in [Conns -> Replies] /\ nconn \in Nat /\ lastsid \in Nat
      BY DEF TypeInv, TypeOK, Conns
<1>1. UNCHANGED <<nconn, main, thread>>
      BY DEF FileServerStep, SendHello, ReceiveHelloResponse, SendRequest, ListDirectory,
             CreateFile, WriteFile, AskFile, ReceiveReply, Crash
<1>2. SlotsInTurn'
      BY <1>1 DEF TurnInv, SlotsInTurn, main
<1>3. ASSUME NEW d \in Conns, d # c PROVE UNCHANGED <<link[d], req[d], rep[d]>>
      BY <1>0, <1>3 DEF FileServerStep, SendHello, ReceiveHelloResponse, SendRequest,
             ListDirectory, CreateFile, WriteFile, AskFile, ReceiveReply, Crash
<1>4. NotAccepted(c) /\ AtServer(c) /\ \A i \in Slots : AtThread(c, i)
      BY DEF TurnInv
<1>5. ASSUME NEW i \in Slots PROVE NotAccepted(c)' /\ AtServer(c)' /\ AtThread(c, i)'
      <2>0. UNCHANGED <<pc, fileservers, mainpc, fsrvinfo, nconn, lastsid>>
            BY <1>1 DEF main, thread
      <2> USE DEF NotAccepted, AtServer, AtThread, InHandler
      <2>1. CASE SendHello(c)
            <3>1. /\ link[c] = "connected" /\ link'[c] = "greeting"
                  /\ req'[c] = Hello /\ UNCHANGED rep
                  BY <1>0, <2>1 DEF SendHello
            <3>2. Hello # NoRequest
                  BY DEF Hello, NoRequest
            <3> QED
                  BY <1>4, <2>0, <3>1, <3>2
      <2>2. CASE ReceiveHelloResponse(c)
            <3>1. /\ link[c] = "greeting" /\ rep[c] # NoReply
                  /\ link'[c] = "idle" /\ rep'[c] = NoReply /\ UNCHANGED req
                  BY <1>0, <2>2 DEF ReceiveHelloResponse, NoReply, Message
            <3>2. Hello # NoRequest
                  BY DEF Hello, NoRequest
            <3> QED
                  BY <1>4, <2>0, <3>1, <3>2
      <2>3. ASSUME NEW kind, NEW path, SendRequest(c, kind, path)
            PROVE  NotAccepted(c)' /\ AtServer(c)' /\ AtThread(c, i)'
            <3>1. /\ link[c] = "idle" /\ link'[c] = "waiting" /\ UNCHANGED rep
                  /\ req'[c] = [kind |-> kind, path |-> path] /\ kind \in DcpRequests
                  BY <1>0, <2>3, KindsAreRequests DEF SendRequest
            <3>2. req'[c] # Hello
                  BY <3>1 DEF Hello, DcpRequests
            <3> QED
                  BY <1>4, <2>0, <3>1, <3>2
      <2>4. CASE ReceiveReply(c)
            <3>1. /\ link[c] = "waiting" /\ rep[c] # NoReply
                  /\ link'[c] = "idle" /\ rep'[c] = NoReply /\ UNCHANGED req
                  BY <1>0, <2>4 DEF ReceiveReply
            <3>2. Hello # NoRequest
                  BY DEF Hello, NoRequest
            <3> QED
                  BY <1>4, <2>0, <3>1, <3>2
      <2>5. CASE Crash(c)
            <3>1. /\ link[c] \notin {"none", "refused"}
                  /\ link'[c] = "dead" /\ rep'[c] = NoReply /\ UNCHANGED req
                  BY <1>0, <2>5 DEF Crash, Live
            <3> QED
                  BY <1>4, <2>0, <3>1
      <2> QED
            BY <2>1, <2>2, <2>3, <2>4, <2>5
            DEF FileServerStep, ListDirectory, CreateFile, WriteFile, AskFile
<1>6. ASSUME NEW d \in Conns
      PROVE  NotAccepted(d)' /\ AtServer(d)' /\ \A i \in Slots : AtThread(d, i)'
      <2>0. NotAccepted(d) /\ AtServer(d) /\ \A i \in Slots : AtThread(d, i)
            BY DEF TurnInv
      <2>1. CASE d = c
            <3>1. NotAccepted(c)' /\ AtServer(c)'
                  <4>1. CASE Slots # {}
                        BY <1>5, <4>1
                  <4>2. CASE Slots = {}
                        BY <4>2, BoundsAreNaturals DEF Slots
                  <4> QED
                        BY <4>1, <4>2
            <3> QED
                  BY <1>5, <2>1, <3>1
      <2>2. CASE d # c
            <3>1. UNCHANGED <<link[d], req[d], rep[d]>>
                  BY <1>3, <2>2
            <3>2. UNCHANGED <<nconn, lastsid, pc, fileservers, mainpc, fsrvinfo>>
                  BY <1>1 DEF main, thread
            <3> QED
                  BY <2>0, <3>1, <3>2 DEF NotAccepted, AtServer, AtThread, InHandler
      <2> QED
            BY <2>1, <2>2
<1> QED
      BY <1>2, <1>6 DEF TurnInv

\* The main thread keeps the turns, and so does a new connection.
LEMMA MainTurns ==
    ASSUME TypeInv, TurnInv, Connect \/ MainThread
    PROVE  TurnInv'
<1>0. /\ link \in [Conns -> LinkStates] /\ req \in [Conns -> Requests]
      /\ rep \in [Conns -> Replies] /\ nconn \in Nat /\ lastsid \in Nat \ {0}
      /\ pc \in [Slots -> Pcs] /\ nconn <= MaxConns /\ MaxConns \in Nat
      /\ fileservers \in [Slots -> [id : 0..MaxConns, sd : 0..MaxConns]]
      BY BoundsAreNaturals DEF TypeInv, TypeOK, Conns
<1>a. /\ \A i \in Slots : pc[i] # "unborn" => fileservers[i].id # 0
      /\ \A i \in Slots : fileservers[i].sd \in Int
      /\ \A c \in Conns : c \in Nat \ {0}
      BY <1>0 DEF TypeInv, Registration, Conns
<1>b. SlotsInTurn
      BY DEF TurnInv
<1>1. CASE Connect
      <2>1. /\ nconn < MaxConns /\ nconn' = nconn + 1
            /\ link' = [link EXCEPT ![nconn + 1] = "connected"]
            /\ UNCHANGED <<req, rep, lastsid, fileservers, mainpc, fsrvinfo, pc>>
            BY <1>1 DEF Connect, main, thread
      <2>2. nconn + 1 \in Conns /\ NotAccepted(nconn + 1) /\ AtServer(nconn + 1)
            BY <1>0, <2>1 DEF Conns, TurnInv
      <2>3. link[nconn + 1] = "none" /\ req[nconn + 1] = NoRequest /\ rep[nconn + 1] = NoReply
            BY <1>0, <2>2 DEF NotAccepted, AtServer
      <2>4. ASSUME NEW c \in Conns
            PROVE  NotAccepted(c)' /\ AtServer(c)' /\ \A i \in Slots : AtThread(c, i)'
            <3>0. NotAccepted(c) /\ AtServer(c) /\ \A i \in Slots : AtThread(c, i)
                  BY DEF TurnInv
            <3>1. CASE c = nconn + 1
                  <4>1. link'[c] = "connected"
                        BY <1>0, <2>1, <2>2, <3>1
                  <4>2. NotAccepted(c)'
                        BY <1>0, <2>1, <2>3, <3>1, <4>1 DEF NotAccepted
                  <4>3. AtServer(c)'
                        BY <2>1, <2>3, <3>1, <4>1 DEF AtServer, Hello, NoRequest
                  <4>4. \A i \in Slots : fileservers[i].sd # c
                        BY <2>3, <3>0, <3>1 DEF AtThread
                  <4> QED
                        BY <2>1, <4>2, <4>3, <4>4 DEF AtThread
            <3>2. CASE c # nconn + 1
                  <4>1. link'[c] = link[c]
                        BY <1>0, <2>1, <3>2
                  <4>2. c > nconn' <=> c > nconn
                        BY <1>0, <1>a, <2>1, <3>2
                  <4> QED
                        BY <2>1, <3>0, <4>1, <4>2 DEF NotAccepted, AtServer, AtThread, InHandler
            <3> QED
                  BY <3>1, <3>2
      <2>5. SlotsInTurn'
            BY <1>b, <2>1 DEF SlotsInTurn
      <2> QED
            BY <2>4, <2>5 DEF TurnInv
<1>2. CASE AcceptFileServer
      <2> DEFINE r == RegisteredSlot
      <2>1. /\ mainpc = "accept" /\ lastsid <= nconn
            /\ r \in Slots /\ fileservers[r].id = 0
            /\ fileservers' = [fileservers EXCEPT ![r] = [id |-> lastsid, sd |-> lastsid]]
            /\ fsrvinfo' = r /\ mainpc' = "hello"
            /\ UNCHANGED <<nconn, link, req, rep, lastsid, pc>>
            BY <1>2, RegisteredSlotType DEF AcceptFileServer, env, thread
      <2> HIDE DEF r
      <2>2. /\ fileservers'[r].id = lastsid /\ fileservers'[r].sd = lastsid
            /\ \A i \in Slots : i # r => fileservers'[i] = fileservers[i]
            BY <1>0, <2>1
      <2>3. pc[r] = "unborn" /\ \A i \in Slots : fileservers[i].sd < lastsid
            BY <1>a, <1>b, <2>1 DEF SlotsInTurn
      <2>4. SlotsInTurn'
            BY <1>0, <1>a, <1>b, <2>1, <2>2, <2>3 DEF SlotsInTurn
      <2>5. ASSUME NEW c \in Conns, NEW i \in Slots
            PROVE  NotAccepted(c)' /\ AtServer(c)' /\ AtThread(c, i)'
            <3>0. NotAccepted(c) /\ AtServer(c) /\ AtThread(c, i)
                  BY DEF TurnInv
            <3>1. NotAccepted(c)' /\ AtServer(c)'
                  BY <2>1, <3>0 DEF NotAccepted, AtServer
            <3>2. CASE i = r /\ c = lastsid
                  <4>1. link[c] \in {"connected", "greeting", "dead"} /\ rep[c] = NoReply
                        BY <1>0, <2>1, <3>0, <3>2 DEF NotAccepted
                  <4> QED
                        BY <2>1, <2>3, <3>1, <3>2, <4>1 DEF AtThread, InHandler
            <3>3. CASE i = r /\ c # lastsid
                  BY <2>2, <3>1, <3>3 DEF AtThread
            <3>4. CASE i # r
                  BY <2>1, <2>2, <3>0, <3>1, <3>4 DEF AtThread, InHandler
            <3> QED
                  BY <3>1, <3>2, <3>3, <3>4
      <2> QED
            BY <2>1, <2>4, <2>5 DEF TurnInv
<1>3. CASE RefuseFileServer
      <2>1. /\ mainpc = "accept" /\ lastsid <= nconn /\ lastsid' = lastsid + 1
            /\ link' = [link EXCEPT ![lastsid] = IF @ = "dead" THEN "dead" ELSE "refused"]
            /\ UNCHANGED <<nconn, req, rep, fileservers, mainpc, fsrvinfo, pc>>
            BY <1>3 DEF RefuseFileServer, thread
      <2>2. \A i \in Slots : fileservers[i].sd < lastsid
            BY <1>b, <2>1 DEF SlotsInTurn
      <2>3. SlotsInTurn'
            BY <1>0, <1>a, <1>b, <2>1, <2>2 DEF SlotsInTurn
      <2>4. ASSUME NEW c \in Conns, NEW i \in Slots
            PROVE  NotAccepted(c)' /\ AtServer(c)' /\ AtThread(c, i)'
            <3>0. NotAccepted(c) /\ AtServer(c) /\ AtThread(c, i)
                  BY DEF TurnInv
            <3>1. CASE c = lastsid
                  <4>1. link'[c] \in {"dead", "refused"} /\ rep'[c] = NoReply
                        BY <1>0, <1>a, <2>1, <3>0, <3>1 DEF NotAccepted
                  <4>2. fileservers'[i].sd # c
                        BY <1>0, <1>a, <2>1, <2>2, <3>1
                  <4>3. ~(c > nconn') /\ ~(c >= lastsid')
                        BY <1>0, <1>a, <2>1, <3>1
                  <4> QED
                        BY <4>1, <4>2, <4>3 DEF NotAccepted, AtServer, AtThread
            <3>2. CASE c # lastsid
                  <4>1. link'[c] = link[c]
                        BY <1>0, <2>1, <3>2
                  <4>2. c >= lastsid' => c >= lastsid
                        BY <1>0, <1>a, <2>1
                  <4> QED
                        BY <2>1, <3>0, <4>1, <4>2 DEF NotAccepted, AtServer, AtThread, InHandler
            <3> QED
                  BY <3>1, <3>2
      <2> QED
            BY <1>0, <2>3, <2>4, BoundsAreNaturals DEF TurnInv, Slots
<1>4. CASE GreetFileServer \/ GreetFails
      <2> DEFINE g == fsrvinfo
                 s == fileservers[fsrvinfo].sd
      <2>1. /\ mainpc = "hello" /\ mainpc' = "accept" /\ lastsid' = lastsid + 1
            /\ UNCHANGED <<nconn, link, fileservers, fsrvinfo>>
            /\ g \in Slots /\ s = lastsid /\ s \in Conns /\ pc[g] = "unborn"
            BY <1>4, <1>b DEF GreetFileServer, GreetFails, env, TypeInv, Registration,
                               SlotsInTurn
      <2>2. SlotsInTurn'
            BY <1>0, <1>a, <1>b, <2>1 DEF SlotsInTurn
      <2>3. ASSUME NEW c \in Conns, NEW i \in Slots
            PROVE  NotAccepted(c)' /\ AtServer(c)' /\ AtThread(c, i)'
            <3>0. NotAccepted(c) /\ AtServer(c) /\ AtThread(c, i)
                  BY DEF TurnInv
            <3>1. CASE GreetFails
                  <4>1. UNCHANGED <<req, rep, pc>> /\ link[s] = "dead"
                        BY <3>1 DEF GreetFails, AtEof, env, thread
                  <4>2. c >= lastsid' => c >= lastsid
                        BY <1>0, <1>a, <2>1
                  <4> QED
                        BY <2>1, <3>0, <4>1, <4>2 DEF NotAccepted, AtServer, AtThread, InHandler
            <3>2. CASE GreetFileServer
                  <4>1. /\ req[s] = Hello /\ req'[s] = NoRequest
                        /\ rep'[s] = IF link[s] = "dead" THEN NoReply ELSE HelloResponse
                        /\ pc' = [pc EXCEPT ![g] = "recv"]
                        BY <1>0, <2>1, <3>2 DEF GreetFileServer, Deliver
                  <4>2. \A d \in Conns : d # s => req'[d] = req[d] /\ rep'[d] = rep[d]
                        BY <1>0, <3>2 DEF GreetFileServer, Deliver
                  <4>3. /\ link[s] \in {"greeting", "dead"}
                        /\ HelloResponse # NoReply /\ Hello # NoRequest
                        <5>1. AtServer(s) /\ AtThread(s, g)
                              BY <2>1 DEF TurnInv
                        <5> QED
                              BY <4>1, <5>1
                              DEF AtServer, AtThread, HelloResponse, NoReply, Message, Hello,
                                  NoRequest
                  <4>4. CASE c = s
                        <5>1. NotAccepted(c)'
                              BY <1>0, <1>a, <2>1, <3>0, <4>4 DEF NotAccepted
                        <5>2. AtServer(c)'
                              BY <2>1, <4>1, <4>3, <4>4 DEF AtServer
                        <5>3. fileservers[i].sd = c => i = g
                              BY <1>a, <1>b, <2>1, <4>4 DEF SlotsInTurn
                        <5>4. AtThread(c, i)'
                              BY <1>0, <2>1, <4>1, <4>3, <4>4, <5>3 DEF AtThread, InHandler
                        <5> QED
                              BY <5>1, <5>2, <5>4
                  <4>5. CASE c # s
                        <5>1. req'[c] = req[c] /\ rep'[c] = rep[c]
                              BY <4>2, <4>5
                        <5>2. fileservers[i].sd = c => pc'[i] = pc[i] /\ i # g
                              BY <1>0, <2>1, <4>1, <4>5
                        <5>3. c >= lastsid' => c >= lastsid
                              BY <1>0, <1>a, <2>1
                        <5> QED
                              BY <2>1, <3>0, <5>1, <5>2, <5>3
                              DEF NotAccepted, AtServer, AtThread, InHandler
                  <4> QED
                        BY <4>4, <4>5
            <3> QED
                  BY <1>4, <3>1, <3>2
      <2> QED
            BY <2>1, <2>2, <2>3 DEF TurnInv
<1> QED
      BY <1>1, <1>2, <1>3, <1>4 DEF MainThread

\* The threads keep the turns: each answers the request it read, once.
LEMMA ThreadTurns ==
    ASSUME TypeInv, TurnInv, NEW t \in Slots, ThreadStep(t)
    PROVE  TurnInv'
<1> DEFINE s == fileservers[t].sd
<1>0. /\ link \in [Conns -> LinkStates] /\ req \in [Conns -> Requests]
      /\ rep \in [Conns -> Replies] /\ pc \in [Slots -> Pcs]
      /\ fileservers \in [Slots -> [id : 0..MaxConns, sd : 0..MaxConns]]
      BY DEF TypeInv, TypeOK
<1>1. /\ UNCHANGED <<nconn, link, lastsid, fileservers, mainpc, fsrvinfo>>
      /\ pc[t] # "unborn"
      <2>1. CASE ThreadExits(t)
            BY <1>0, <2>1 DEF ThreadExits, SlotAfterExit, Goto, env
      <2>2. CASE ~ThreadExits(t)
            BY <2>2 DEF ThreadStep, ReceiveRequest, ReadLock, ReadList, ReplicasLock,
                   ReplicasFind, CreateLock, CreateExists, CreateAbsent, CreateAdd, CreateWalk,
                   CreateLink, CreateOwn, UpdateUnlock, UpdateFind, UpdateMiss, UpdateSet,
                   LockDirectory, Goto, env, main
      <2> QED
            BY <2>1, <2>2
<1>2. s \in Conns /\ \A i \in Slots : fileservers[i].sd = s => i = t
      <2>1. fileservers[t].id # 0 /\ s \in Conns
            BY <1>1 DEF TypeInv, Registration
      <2> QED
            BY <2>1 DEF TurnInv, SlotsInTurn
<1>3. AtServer(s) /\ AtThread(s, t)
      BY <1>2 DEF TurnInv
<1>4. \/ /\ ~(pc[t] \in {"unborn", "recv", "exited"}) /\ UNCHANGED req
         /\ \/ /\ UNCHANGED rep
               /\ \E to \in Pcs \ {"unborn", "recv", "exited"} : pc' = [pc EXCEPT ![t] = to]
            \/ pc' = [pc EXCEPT ![t] = "recv"] /\ \E m : Reply(t, m)
      \/ ReceiveRequest(t)
      \/ ThreadExits(t)
      <2>1. CASE ReadList(t) \/ ReplicasFind(t) \/ CreateExists(t) \/ CreateOwn(t)
                 \/ UpdateMiss(t) \/ UpdateSet(t)
            BY <2>1 DEF ReadList, ReplicasFind, CreateExists, AfterExists, CreateOwn, UpdateMiss,
                        UpdateSet, Goto
      <2>2. CASE ReadLock(t) \/ ReplicasLock(t) \/ CreateLock(t) \/ CreateAbsent(t)
                 \/ CreateAdd(t) \/ CreateWalk(t) \/ CreateLink(t) \/ UpdateUnlock(t)
                 \/ UpdateFind(t)
            BY <2>2 DEF ReadLock, ReplicasLock, CreateLock, LockDirectory, CreateAbsent, CreateAdd,
                        CreateWalk, CreateLink, UpdateUnlock, UpdateFind, Goto, env,
                        Pcs, CriticalPcs, CreatePcs, UpdatePcs
      <2> QED
            BY <2>1, <2>2 DEF ThreadStep
<1> HIDE DEF s
<1>5. ASSUME NEW c \in Conns, NEW i \in Slots,
             \A d \in Conns : d # s => UNCHANGED <<req[d], rep[d]>>,
             \A j \in Slots : j # t => pc'[j] = pc[j],
             AtServer(s)', AtThread(s, t)'
      PROVE  AtServer(c)' /\ AtThread(c, i)'
      <2>0. AtServer(c) /\ AtThread(c, i)
            BY DEF TurnInv
      <2>1. CASE c = s
            BY <1>1, <1>2, <1>5, <2>1 DEF AtServer, AtThread, s
      <2>2. CASE c # s
            <3>1. UNCHANGED <<link[c], req[c], rep[c], fileservers[i], mainpc, fsrvinfo>>
                  BY <1>1, <1>5, <2>2
            <3>2. CASE i = t
                  BY <1>1, <2>0, <2>2, <3>1, <3>2 DEF AtServer, AtThread, s
            <3>3. CASE i # t
                  BY <1>5, <2>0, <3>1, <3>3, SameTurn
            <3> QED
                  BY <3>2, <3>3
      <2> QED
            BY <2>1, <2>2
<1>6. /\ \A d \in Conns : d # s => UNCHANGED <<req[d], rep[d]>>
      /\ \A j \in Slots : j # t => pc'[j] = pc[j]
      /\ AtServer(s)' /\ AtThread(s, t)'
      <2> USE DEF AtServer, AtThread, InHandler
      <2>1. ASSUME pc[t] \notin {"unborn", "recv", "exited"}, UNCHANGED <<req, rep>>,
                   NEW to \in Pcs \ {"unborn", "recv", "exited"}, pc' = [pc EXCEPT ![t] = to]
            PROVE  /\ \A d \in Conns : d # s => UNCHANGED <<req[d], rep[d]>>
                   /\ \A j \in Slots : j # t => pc'[j] = pc[j]
                   /\ AtServer(s)' /\ AtThread(s, t)'
            <3>1. pc'[t] = to /\ \A j \in Slots : j # t => pc'[j] = pc[j]
                  BY <1>0, <2>1
            <3> QED
                  BY <1>1, <1>3, <2>1, <3>1 DEF s
      <2>2. ASSUME pc[t] \notin {"unborn", "recv", "exited"}, UNCHANGED req,
                   pc' = [pc EXCEPT ![t] = "recv"], NEW m, Reply(t, m)
            PROVE  /\ \A d \in Conns : d # s => UNCHANGED <<req[d], rep[d]>>
                   /\ \A j \in Slots : j # t => pc'[j] = pc[j]
                   /\ AtServer(s)' /\ AtThread(s, t)'
            <3>1. pc'[t] = "recv" /\ \A j \in Slots : j # t => pc'[j] = pc[j]
                  BY <1>0, <2>2
            <3>2. /\ rep'[s] = IF link[s] = "dead" THEN NoReply ELSE m
                  /\ \A d \in Conns : d # s => rep'[d] = rep[d]
                  BY <1>0, <1>2, <2>2 DEF Reply, Deliver, s
            <3>3. link[s] \in {"waiting", "dead"} /\ req[s] = NoRequest /\ NoRequest # Hello
                  BY <1>3, <2>2 DEF s, NoRequest, Hello
            <3> QED
                  BY <1>1, <2>2, <3>1, <3>2, <3>3 DEF s
      <2>3. CASE ReceiveRequest(t)
            <3>1. /\ pc[t] = "recv" /\ req[s].kind \in DcpRequests
                  /\ req' = [req EXCEPT ![s] = NoRequest] /\ UNCHANGED rep
                  /\ pc' = [pc EXCEPT ![t] = Handler(req[s].kind)]
                  BY <2>3 DEF ReceiveRequest, s
            <3>2. /\ req'[s] = NoRequest /\ \A d \in Conns : d # s => req'[d] = req[d]
                  /\ pc'[t] = Handler(req[s].kind) /\ \A j \in Slots : j # t => pc'[j] = pc[j]
                  BY <1>0, <1>2, <3>1
            <3>3. Handler(req[s].kind) \notin {"unborn", "recv", "exited"}
                  BY <3>1 DEF Handler, DcpRequests
            <3>4. req[s] # NoRequest /\ req[s] # Hello /\ NoRequest # Hello
                  BY <3>1 DEF NoRequest, Hello, DcpRequests
            <3>5. rep[s] = NoReply /\ link[s] \in {"waiting", "dead"}
                  <4>1. link[s] \in LinkStates
                        BY <1>0, <1>2
                  <4> QED
                        BY <1>3, <3>4, <4>1 DEF s, LinkStates
            <3> QED
                  BY <1>1, <3>1, <3>2, <3>3, <3>4, <3>5 DEF s
      <2>4. CASE ThreadExits(t)
            <3>1. /\ link[s] = "dead" /\ req[s] = NoRequest /\ UNCHANGED <<req, rep>>
                  /\ pc' = [pc EXCEPT ![t] = "exited"]
                  BY <2>4 DEF ThreadExits, AtEof, Goto, env, s
            <3>2. pc'[t] = "exited" /\ \A j \in Slots : j # t => pc'[j] = pc[j]
                  BY <1>0, <3>1
            <3>3. rep[s] = NoReply /\ NoRequest # Hello
                  BY <1>3, <3>1 DEF NoRequest, Hello
            <3> QED
                  BY <1>1, <3>1, <3>2, <3>3 DEF s
      <2>5. CASE /\ pc[t] \notin {"unborn", "recv", "exited"}
                 /\ UNCHANGED <<req, rep>>
                 /\ \E to \in Pcs \ {"unborn", "recv", "exited"} : pc' = [pc EXCEPT ![t] = to]
            BY <2>1, <2>5
      <2>6. CASE /\ pc[t] \notin {"unborn", "recv", "exited"} /\ UNCHANGED req
                 /\ pc' = [pc EXCEPT ![t] = "recv"] /\ \E m : Reply(t, m)
            BY <2>2, <2>6
      <2> HIDE DEF AtServer, AtThread, InHandler
      <2> QED
            BY <1>4, <2>3, <2>4, <2>5, <2>6
<1>7. ASSUME NEW c \in Conns PROVE NotAccepted(c)'
      <2>1. CASE c = s
            <3>1. s < lastsid
                  BY <1>1 DEF TurnInv, SlotsInTurn, TypeInv, Registration, s
            <3>2. s \in Nat /\ lastsid \in Nat /\ (s > nconn <=> link[s] = "none")
                  BY <1>2 DEF TurnInv, NotAccepted, TypeInv, TypeOK, Conns
            <3> QED
                  BY <1>1, <2>1, <3>1, <3>2 DEF NotAccepted
      <2>2. CASE c # s
            BY <1>1, <1>6, <2>2 DEF TurnInv, NotAccepted
      <2> QED
            BY <2>1, <2>2
<1> QED
      BY <1>1, <1>5, <1>6, <1>7, BoundsAreNaturals DEF TurnInv, SlotsInTurn, Slots

\* At the start no file server is connected.
LEMMA InitTurnInv == Init => TurnInv
BY BoundsAreNaturals
DEF Init, TurnInv, SlotsInTurn, NotAccepted, AtServer, AtThread, InHandler, Conns, Hello,
    NoRequest

\* Every step keeps the turns.
LEMMA NextTurnInv == TypeInv /\ TurnInv /\ [Next]_vars => TurnInv'
<1>1. TurnInv /\ UNCHANGED vars => TurnInv'
      BY DEF vars, TurnInv, SlotsInTurn, NotAccepted, AtServer, AtThread, InHandler
<1> QED
      BY <1>1, ServerTurns, MainTurns, ThreadTurns DEF Next

\* Nobody gets two responses to one request or a response to a request still in
\* progress (serve_fileserver and its handlers, dcp_accept).
THEOREM ReplyEndsRequestHolds == Spec => []ReplyEndsRequest
<1>1. TurnInv => ReplyEndsRequest
      BY DEF TurnInv, AtServer, AtThread, ReplyEndsRequest
<1> QED
      BY <1>1, InitTurnInv, NextTurnInv, InitTypeInv, NextTypeInv, PTL DEF Spec

-----------------------------------------------------------------------------
(* What a handler leaves behind.                                            *)

\* A thread that locked or locks dirlock for an insertion serves a CREATE
\* (serve_fileserver, create_file).
CreateServed ==
    \A i \in Slots : pc[i] \in {"createLock", "createCheck"} \cup CreatePcs
        => msg[i].kind = "CREATE"

\* A slot whose thread was not started has not locked anything
\* (register_fsrv, pthread_create).
UnbornWithoutLock == \A i \in Slots : pc[i] = "unborn" => dirlock # i

\* The inductive invariant behind it.
KeptInv == CreateServed /\ UnbornWithoutLock /\ LockKeptOnlyByCreate

\* Every step keeps it: the handlers of READ and GET_REPLICAS unlock on all
\* their paths, update_file before each of its returns, and no other thread
\* locks dirlock for somebody else.
LEMMA KeptStep == TypeInv /\ KeptInv /\ [Next]_vars => KeptInv'
<1> SUFFICES ASSUME TypeInv, KeptInv, [Next]_vars PROVE KeptInv'
    OBVIOUS
<1> USE DEF KeptInv, CreateServed, UnbornWithoutLock, LockKeptOnlyByCreate
<1>0. /\ pc \in [Slots -> Pcs] /\ msg \in [Slots -> Requests] /\ NIL \notin Slots
      /\ dirlock \in Slots \cup {NIL} /\ mainpc = "hello" => fsrvinfo \in Slots
      BY BoundsFacts DEF TypeInv, TypeOK, Registration
<1>1. CASE UNCHANGED <<dirlock, pc, msg>>
      BY <1>1
<1>2. CASE GreetFileServer
      <2>1. pc[fsrvinfo] = "unborn" /\ fsrvinfo \in Slots
            BY <1>2 DEF GreetFileServer, TypeInv, Registration
      <2> QED
            BY <1>0, <1>2, <2>1 DEF GreetFileServer, CreatePcs, tree
<1>3. ASSUME NEW i \in Slots, ThreadStep(i) PROVE KeptInv'
      <2>0. i # NIL
            BY <1>0
      <2>1. CASE ReceiveRequest(i)
            BY <1>0, <2>1 DEF ReceiveRequest, Handler, DcpRequests, CreatePcs, main
      <2>2. CASE ThreadExits(i)
            BY <1>0, <2>2 DEF ThreadExits, Goto, CreatePcs
      <2>3. CASE ReadLock(i) \/ ReplicasLock(i) \/ CreateLock(i)
            BY <1>0, <2>3 DEF ReadLock, ReplicasLock, CreateLock, LockDirectory, Lock, Goto,
                               CreatePcs
      <2>4. CASE ReadList(i) \/ ReplicasFind(i) \/ CreateOwn(i) \/ UpdateUnlock(i)
                 \/ UpdateMiss(i) \/ UpdateSet(i)
            <3>1. /\ UNCHANGED msg /\ dirlock' = NIL
                  /\ pc' = [pc EXCEPT ![i] = "recv"] \/ pc' = [pc EXCEPT ![i] = "updateFind"]
                  BY <2>4 DEF ReadList, ReplicasFind, ReplicasUnlock, CreateOwn, UpdateUnlock,
                              UpdateMiss, UpdateSet, Unlock, Goto
            <3> QED
                  BY <1>0, <3>1 DEF CreatePcs
      <2>5. CASE CreateExists(i)
            BY <1>0, <2>5 DEF CreateExists, AfterExists, Goto, CreatePcs
      <2>6. CASE CreateAbsent(i) \/ CreateAdd(i) \/ CreateWalk(i) \/ CreateLink(i)
            <3>1. /\ UNCHANGED <<msg, dirlock>>
                  /\ pc[i] \in {"createCheck"} \cup CreatePcs
                  /\ \E to \in CreatePcs : pc' = [pc EXCEPT ![i] = to]
                  BY <2>6 DEF CreateAbsent, CreateAdd, CreateWalk, CreateLink, Goto, CreatePcs
            <3> QED
                  BY <1>0, <3>1 DEF CreatePcs
      <2>7. CASE UpdateFind(i)
            BY <1>0, <2>7 DEF UpdateFind, Goto, CreatePcs
      <2> QED
            BY <1>3, <2>1, <2>2, <2>3, <2>4, <2>5, <2>6, <2>7 DEF ThreadStep
<1> QED
      BY <1>1, <1>2, <1>3
      DEF Next, MainThread, FileServerStep, Connect, SendHello, ReceiveHelloResponse,
          SendRequest, ListDirectory, CreateFile, WriteFile, AskFile, ReceiveReply, Crash,
          AcceptFileServer, RefuseFileServer, GreetFails, thread, vars

\* A thread keeps dirlock after its handler only when that was CREATE, with UPDATE
\* and crashes in play (create_file on a path that exists).
THEOREM LockKeptOnlyByCreateHolds == Spec => []LockKeptOnlyByCreate
<1>1. Init => KeptInv
      BY BoundsFacts
      DEF Init, KeptInv, CreateServed, UnbornWithoutLock, LockKeptOnlyByCreate, CreatePcs
<1>2. KeptInv => LockKeptOnlyByCreate
      BY DEF KeptInv
<1> QED
      BY <1>1, <1>2, InitTypeInv, NextTypeInv, KeptStep, PTL DEF Spec

-----------------------------------------------------------------------------
(* Mutual exclusion.                                                        *)

\* No UPDATE is in play and nobody is in the tree at the start.
LEMMA InitLockInv == Init => LockInv
BY DEF Init, LockInv, NoUpdate, MutualExclusion, Critical, NoRequest, CriticalPcs,
       CreatePcs, UpdatePcs

\* When no file server sends UPDATE, no thread ever serves one.
LEMMA NextNoUpdate ==
    ASSUME "UPDATE" \notin Kinds, TypeInv, NoUpdate, [Next]_vars
    PROVE  NoUpdate'
<1>0. /\ req \in [Conns -> Requests]
      /\ pc \in [Slots -> Pcs]
      /\ \A i \in Slots : pc[i] # "unborn" => fileservers[i].sd \in Conns
      BY DEF TypeInv, TypeOK, Registration
<1>1. CASE Connect \/ \E c \in Conns : FileServerStep(c)
      <2>1. ASSUME NEW c \in Conns, NEW kind, NEW path, SendRequest(c, kind, path)
            PROVE  NoUpdate'
            BY <1>0, <2>1 DEF SendRequest, NoUpdate, thread
      <2>2. ASSUME NEW c \in Conns, SendHello(c) PROVE NoUpdate'
            BY <1>0, <2>2 DEF SendHello, Hello, NoUpdate, thread
      <2>3. CASE UNCHANGED <<req, thread>>
            BY <2>3 DEF NoUpdate, thread
      <2> QED
            BY <1>1, <2>1, <2>2, <2>3
            DEF Connect, FileServerStep, ReceiveHelloResponse, ReceiveReply, Crash,
                ListDirectory, CreateFile, WriteFile, AskFile
<1>2. CASE MainThread
      BY <1>0, <1>2
      DEF MainThread, AcceptFileServer, RefuseFileServer, GreetFileServer, GreetFails,
          NoUpdate, NoRequest, UpdatePcs, env, thread
<1>3. ASSUME NEW i \in Slots, ThreadStep(i) PROVE NoUpdate'
      <2>1. CASE ReceiveRequest(i)
            BY <1>0, <2>1
            DEF ReceiveRequest, Handler, DcpRequests, NoRequest, NoUpdate, UpdatePcs
      <2>2. CASE UpdateUnlock(i) \/ UpdateFind(i) \/ UpdateMiss(i) \/ UpdateSet(i)
            BY <2>2 DEF UpdateUnlock, UpdateFind, UpdateMiss, UpdateSet, Goto, NoUpdate,
                        UpdatePcs
      <2>3. ASSUME UNCHANGED req, NEW to \in Pcs \ UpdatePcs, pc' = [pc EXCEPT ![i] = to]
            PROVE  NoUpdate'
            BY <1>0, <2>3 DEF NoUpdate
      <2>4. \A to : to \in {"recv", "exited", "readList", "replicasFind", "createCheck",
                            "createAdd", "createWalk", "createLink", "createOwn"}
                       => to \in Pcs \ UpdatePcs
            BY DEF Pcs, UpdatePcs, CriticalPcs, CreatePcs
      <2> QED
            BY <1>3, <2>1, <2>2, <2>3, <2>4
            DEF ThreadStep, ThreadExits, ReadLock, ReadList, ReplicasLock, ReplicasFind,
                CreateLock, CreateExists, AfterExists, CreateAbsent, CreateAdd, CreateWalk,
                CreateLink, CreateOwn, LockDirectory, Goto, env
<1>4. CASE UNCHANGED vars
      BY <1>4 DEF vars, NoUpdate
<1> QED
      BY <1>1, <1>2, <1>3, <1>4 DEF Next

\* A thread enters the tree only by taking a free dirlock, leaves it only by
\* returning, and changes dirlock only while it holds it or finds it free.
LEMMA NextMutualExclusion ==
    ASSUME TypeInv, LockInv, [Next]_vars
    PROVE  MutualExclusion'
<1>0. pc \in [Slots -> Pcs] /\ NIL \notin Slots
      BY BoundsFacts DEF TypeInv, TypeOK
<1>1. ASSUME UNCHANGED dirlock, NEW i \in Slots, NEW to,
             pc' = [pc EXCEPT ![i] = to],
             to \in CriticalPcs => pc[i] \in CriticalPcs
      PROVE  MutualExclusion'
      BY <1>0, <1>1 DEF LockInv, MutualExclusion, Critical
<1>2. ASSUME NEW i \in Slots, NEW to, dirlock = NIL, dirlock' = i,
             pc' = [pc EXCEPT ![i] = to]
      PROVE  MutualExclusion'
      BY <1>0, <1>2 DEF LockInv, MutualExclusion, Critical
<1>3. ASSUME NEW i \in Slots, pc[i] \in CriticalPcs, dirlock' = NIL,
             pc' = [pc EXCEPT ![i] = "recv"]
      PROVE  MutualExclusion'
      BY <1>0, <1>3 DEF LockInv, MutualExclusion, Critical, CriticalPcs, CreatePcs
<1>4. CASE UNCHANGED <<dirlock, pc>>
      BY <1>4 DEF LockInv, MutualExclusion, Critical
<1>5. CASE Connect \/ \E c \in Conns : FileServerStep(c)
      BY <1>4, <1>5
      DEF Connect, FileServerStep, SendHello, ReceiveHelloResponse, SendRequest,
          ListDirectory, CreateFile, WriteFile, AskFile, ReceiveReply, Crash, thread
<1>6. CASE MainThread
      <2>1. CASE GreetFileServer
            BY <1>1, <2>1
            DEF GreetFileServer, TypeInv, Registration, CriticalPcs, CreatePcs
      <2> QED
            BY <1>4, <1>6, <2>1
            DEF MainThread, AcceptFileServer, RefuseFileServer, GreetFails, thread
<1>7. ASSUME NEW i \in Slots, ThreadStep(i) PROVE MutualExclusion'
      <2>1. CASE ReceiveRequest(i)
            <3>1. Handler(req[fileservers[i].sd].kind) \notin CriticalPcs
                  BY <2>1
                  DEF ReceiveRequest, Handler, DcpRequests, CriticalPcs, CreatePcs
            <3> QED
                  BY <1>1, <2>1, <3>1 DEF ReceiveRequest
      <2>2. CASE ThreadExits(i) \/ CreateExists(i) \/ CreateAbsent(i) \/ CreateAdd(i)
                 \/ CreateWalk(i) \/ CreateLink(i)
            BY <1>1, <2>2
            DEF ThreadExits, CreateExists, AfterExists, CreateAbsent, CreateAdd,
               CreateWalk,
                CreateLink, Goto, CriticalPcs, CreatePcs
      <2>3. CASE ReadLock(i) \/ ReplicasLock(i) \/ CreateLock(i)
            BY <1>2, <2>3
            DEF ReadLock, ReplicasLock, CreateLock, LockDirectory, Lock, Goto
      <2>4. CASE ReadList(i) \/ ReplicasFind(i) \/ CreateOwn(i)
            BY <1>3, <2>4
            DEF ReadList, ReplicasFind, ReplicasUnlock, CreateOwn, Unlock, Goto,
                CriticalPcs, CreatePcs
      <2>5. ~(UpdateUnlock(i) \/ UpdateFind(i) \/ UpdateMiss(i) \/ UpdateSet(i))
            BY DEF UpdateUnlock, UpdateFind, UpdateMiss, UpdateSet, Goto, LockInv,
               NoUpdate,
                   UpdatePcs
      <2> QED
            BY <1>7, <2>1, <2>2, <2>3, <2>4, <2>5 DEF ThreadStep
<1>8. CASE UNCHANGED vars
      BY <1>4, <1>8 DEF vars
<1> QED
      BY <1>5, <1>6, <1>7, <1>8 DEF Next

\* Without UPDATE requests, whoever is in the tree holds dirlock, for any
\* number of threads and also after a CREATE leaked the lock.
THEOREM MutualExclusionHolds ==
    ASSUME "UPDATE" \notin Kinds
    PROVE  Spec => []MutualExclusion
<1> DEFINE Inv == TypeInv /\ LockInv
<1>1. Init => Inv
      BY InitTypeInv, InitLockInv
<1>2. Inv /\ [Next]_vars => Inv'
      BY NextTypeInv, NextNoUpdate, NextMutualExclusion DEF LockInv
<1>3. Inv => MutualExclusion
      BY DEF LockInv
<1> QED
      BY <1>1, <1>2, <1>3, PTL DEF Spec

-----------------------------------------------------------------------------
(* The tree.                                                                *)

TreeShape == NamesDiffer /\ EveryNodeHeld /\ InsertionsReady

IInv == TypeInv /\ LockInv /\ TreeInv

-----------------------------------------------------------------------------
(* Lookups.                                                                 *)

\* The children of the root are a sequence of nodes.
LEMMA RootKids ==
    ASSUME nodes \in [NodeIds -> Node]
    PROVE  /\ nodes[Root].kids \in Seq(NodeIds)
           /\ Len(nodes[Root].kids) \in Nat
           /\ DOMAIN nodes[Root].kids = 1..Len(nodes[Root].kids)
           /\ \A k \in DOMAIN nodes[Root].kids : nodes[Root].kids[k] \in NodeIds
<1>1. nodes[Root].kids \in Seq(NodeIds)
      BY BoundsFacts DEF Node
<1> QED
      BY <1>1, LenProperties, ElementOfSeq

\* dir_find_node finds nothing exactly when no child of the root has the
\* name.
LEMMA FindNodeMisses ==
    ASSUME nodes \in [NodeIds -> Node], NEW path, path # Slash
    PROVE  FindNode(path) = NIL <=> PathFree(path)
<1> DEFINE kids == nodes[Root].kids
           hits == {k \in DOMAIN kids : nodes[kids[k]].name = path}
<1>1. hits = {} <=> PathFree(path)
      BY DEF PathFree, Children
<1>2. ASSUME hits # {} PROVE kids[Smallest(hits)] \in NodeIds
      <2>1. hits \in SUBSET Nat
            BY RootKids
      <2>2. Smallest(hits) \in DOMAIN kids
            <3> HIDE DEF kids
            <3> QED BY <2>1, <1>2, SmallestIsIn
      <2> QED
            BY <2>2, RootKids
<1> QED
      BY <1>1, <1>2, BoundsFacts DEF FindNode, ChildNamed

\* No two threads are in the tree at once, so no lookup disturbs another.
LEMMA NeverDisturbed ==
    ASSUME TypeInv, LockInv, NEW i \in Slots, Critical(i)
    PROVE  /\ ~Disturbed(i)
           /\ \A j \in Slots \ {i} : ~Critical(j)
<1>1. \A j \in Slots : pc[j] \in LookupPcs => Critical(j)
      BY DEF LockInv, NoUpdate, LookupPcs, Critical, CriticalPcs, CreatePcs, UpdatePcs
<1> QED
      BY <1>1 DEF LockInv, MutualExclusion, Disturbed

\* Children with different names are different nodes.
LEMMA KidsDiffer ==
    ASSUME NamesDiffer, NEW j \in DOMAIN nodes[Root].kids, NEW k \in DOMAIN nodes[Root].kids,
           nodes[Root].kids[j] = nodes[Root].kids[k]
    PROVE  j = k
BY DEF NamesDiffer

\* add_child appends when the tail it walked to is still the last child.
LEMMA LinkAtEnd ==
    ASSUME nodes \in [NodeIds -> Node], NamesDiffer, NEW n \in NodeIds
    PROVE  LinkAfter(nodes[Root].kids, LastChild, n) = Append(nodes[Root].kids, n)
<1> DEFINE kids == nodes[Root].kids
<1>1. CASE kids = <<>>
      BY <1>1 DEF LinkAfter, LastChild
<1>2. CASE kids # <<>>
      <2>1. Len(kids) \in DOMAIN kids
            BY <1>2, RootKids, EmptySeq
      <2>2. LastChild = kids[Len(kids)] /\ LastChild # NIL
            BY <1>2, <2>1, RootKids, BoundsFacts DEF LastChild
      <2>3. (CHOOSE k \in DOMAIN kids : kids[k] = LastChild) = Len(kids)
            BY <2>1, <2>2, KidsDiffer
      <2>4. SubSeq(kids, 1, Len(kids)) = kids
            BY RootKids
      <2> QED
            BY <2>1, <2>2, <2>3, <2>4 DEF LinkAfter
<1> QED
      BY <1>1, <1>2

-----------------------------------------------------------------------------
(* The invariant is inductive.                                              *)

\* At the start the root has no child, and it is the only node.
LEMMA InitTreeInv == Init => TreeInv
<1> SUFFICES ASSUME Init PROVE TreeInv
    OBVIOUS
<1>1. nodes[Root].kids = <<>>
      BY BoundsFacts DEF Init, FreeNode
<1>2. CreatesName
      BY DEF Init, CreatesName, NoRequest, CreatePcs
<1>3. DOMAIN nodes[Root].kids = {}
      BY <1>1
<1>4. Children = {}
      BY <1>3 DEF Children
<1>5. NamesDiffer /\ EveryNodeHeld /\ InsertionsReady
      BY <1>3, <1>4 DEF Init, NamesDiffer, EveryNodeHeld, InsertionsReady, Inserting
<1> QED
      BY <1>2, <1>5 DEF TreeInv

\* Only CREATE requests for names are sent, and so served.
LEMMA NextCreatesName ==
    ASSUME TypeInv, CreatesName, [Next]_vars
    PROVE  CreatesName'
<1>0. /\ req \in [Conns -> Requests]
      /\ pc \in [Slots -> Pcs]
      /\ msg \in [Slots -> Requests]
      /\ \A i \in Slots : pc[i] # "unborn" => fileservers[i].sd \in Conns
      BY DEF TypeInv, TypeOK, Registration
<1>1. CASE Connect \/ \E c \in Conns : FileServerStep(c)
      <2>1. ASSUME NEW c \in Conns, NEW kind, NEW path, SendRequest(c, kind, path),
                   kind = "CREATE" => path \in Names
            PROVE  CreatesName'
            BY <1>0, <2>1 DEF SendRequest, CreatesName, thread
      <2>2. ASSUME NEW c \in Conns, SendHello(c) PROVE CreatesName'
            BY <1>0, <2>2 DEF SendHello, Hello, CreatesName, thread
      <2>3. CASE UNCHANGED <<req, thread>>
            BY <2>3 DEF CreatesName, thread
      <2> QED
            BY <1>1, <2>1, <2>2, <2>3
            DEF Connect, FileServerStep, ReceiveHelloResponse, ReceiveReply, Crash,
                ListDirectory, CreateFile, WriteFile, AskFile
<1>2. CASE MainThread
      BY <1>0, <1>2
      DEF MainThread, AcceptFileServer, RefuseFileServer, GreetFileServer, GreetFails,
          CreatesName, NoRequest, CreatePcs, env, thread
<1>3. ASSUME NEW i \in Slots, ThreadStep(i) PROVE CreatesName'
      <2>1. CASE ReceiveRequest(i)
            BY <1>0, <2>1
            DEF ReceiveRequest, Handler, DcpRequests, NoRequest, CreatesName, CreatePcs
      <2>2. ASSUME UNCHANGED <<req, msg>>, NEW to, pc' = [pc EXCEPT ![i] = to],
                   to \in {"createLock", "createCheck"} \cup CreatePcs =>
                       pc[i] \in {"createLock", "createCheck"} \cup CreatePcs
            PROVE  CreatesName'
            BY <1>0, <2>2 DEF CreatesName
      <2> QED
            BY <1>3, <2>1, <2>2
            DEF ThreadStep, ThreadExits, ReadLock, ReadList, ReplicasLock, ReplicasFind,
                CreateLock, CreateExists, AfterExists, CreateAbsent, CreateAdd, CreateWalk,
                CreateLink, CreateOwn, UpdateUnlock, UpdateFind, UpdateMiss, UpdateSet,
                LockDirectory, Goto, CreatePcs, env
<1>4. CASE UNCHANGED vars
      BY <1>4 DEF vars, CreatesName
<1> QED
      BY <1>1, <1>2, <1>3, <1>4 DEF Next

\* A step that leaves the tree alone keeps its shape, if insertions stay
\* insertions and a new one found its path free, or the last child.
LEMMA ShapeStands ==
    ASSUME TreeShape, UNCHANGED tree,
           \A j \in Slots : 
               /\ Inserting(j)' <=> Inserting(j)
               /\ Inserting(j) => UNCHANGED <<node[j], parent[j], msg[j]>>
               /\ pc'[j] = "createAdd" => PathFree(msg'[j].path)
               /\ pc'[j] = "createLink" => tail'[j] = LastChild
    PROVE  TreeShape'
<1>1. Children' = Children /\ LastChild' = LastChild
      BY DEF Children, LastChild, tree
<1>2. \A path : PathFree(path)' <=> PathFree(path)
      BY <1>1 DEF PathFree, tree
<1>3. NamesDiffer'
      BY DEF TreeShape, NamesDiffer, tree
<1>4. EveryNodeHeld'
      BY <1>1 DEF TreeShape, EveryNodeHeld, tree
<1>5. InsertionsReady'
      BY <1>1, <1>2 DEF TreeShape, InsertionsReady, tree
<1> QED
      BY <1>3, <1>4, <1>5 DEF TreeShape

\* add_node: the new node is the only one that is neither a child nor was
\* being inserted before, and its path is still free.
LEMMA CreateAddShape ==
    ASSUME IInv, NEW i \in Slots, CreateAdd(i)
    PROVE  TreeShape'
<1>0. /\ nodes \in [NodeIds -> Node] /\ node \in [Slots -> NodeIds \cup {NIL}]
      /\ parent \in [Slots -> NodeIds \cup {NIL}] /\ pc \in [Slots -> Pcs]
      /\ nodecnt \in Nat \ {0} /\ nodecnt + 1 \in NodeIds
      BY BoundsAreNaturals DEF IInv, TypeInv, TypeOK, NodeIds, CreateAdd
<1>1. /\ pc[i] = "createAdd" /\ msg[i].path \in Names /\ PathFree(msg[i].path)
      /\ \A j \in Slots \ {i} : pc[j] \notin {"createAdd", "createWalk", "createLink"}
      /\ Children \subseteq 2..nodecnt
      BY NeverDisturbed
      DEF IInv, TreeInv, CreatesName, InsertionsReady, EveryNodeHeld, CreateAdd, Goto,
          Critical, CriticalPcs, CreatePcs
<1>2. FindParent(msg[i].path) = Root
      BY <1>0, <1>1, FindNodeMisses, SlashIsNoName DEF FindParent
<1>3. /\ nodes'[nodecnt + 1] = [name |-> msg[i].path, fileserv |-> NIL, kids |-> <<>>]
      /\ \A n \in NodeIds \ {nodecnt + 1} : nodes'[n] = nodes[n]
      BY <1>0 DEF CreateAdd
<1>4. Root # nodecnt + 1 /\ nodes'[Root] = nodes[Root]
      BY <1>0, <1>3, BoundsFacts DEF Root
<1>5. Children' = Children /\ \A n \in Children : nodes'[n] = nodes[n]
      <2>1. \A n \in Children : n \in NodeIds \ {nodecnt + 1}
            <3>1. Children \subseteq NodeIds
                  BY <1>0, RootKids DEF Children
            <3>2. nodecnt + 1 \notin 2..nodecnt
                  BY <1>0
            <3> QED
                  BY <1>1, <3>1, <3>2
      <2> QED
            BY <1>3, <1>4, <2>1 DEF Children
<1>6. NamesDiffer'
      <2>1. \A k \in DOMAIN nodes[Root].kids : nodes[Root].kids[k] \in Children
            BY DEF Children
      <2> QED
            BY <1>4, <1>5, <2>1 DEF IInv, TreeInv, NamesDiffer
<1>7. /\ nodecnt' = nodecnt + 1 /\ pc' = [pc EXCEPT ![i] = "createWalk"]
      /\ node' = [node EXCEPT ![i] = nodecnt + 1] /\ parent' = [parent EXCEPT ![i] = Root]
      /\ UNCHANGED msg
      BY <1>2 DEF CreateAdd, Goto
<1>8. EveryNodeHeld'
      <2>1. Children' \subseteq 2..nodecnt'
            BY <1>0, <1>1, <1>5, <1>7
      <2>2. Inserting(i)' /\ node'[i] = nodecnt'
            BY <1>0, <1>7 DEF Inserting
      <2>3. \A n \in 2..nodecnt : n \in Children
            BY <1>1 DEF IInv, TreeInv, EveryNodeHeld, Inserting
      <2> QED
            BY <1>0, <1>5, <1>7, <2>1, <2>2, <2>3 DEF EveryNodeHeld
<1>9. InsertionsReady'
      <2>1. PathFree(msg[i].path)'
            BY <1>1, <1>5, <1>7 DEF PathFree
      <2>2. \A j \in Slots \ {i} :
                ~Inserting(j)' /\ pc'[j] \notin {"createAdd", "createLink"}
            BY <1>0, <1>1, <1>7 DEF Inserting
      <2>3. /\ pc'[i] = "createWalk" /\ parent'[i] = Root /\ node'[i] = nodecnt + 1
            /\ node'[i] \in 2..nodecnt' /\ nodes'[node'[i]].name = msg'[i].path
            BY <1>0, <1>3, <1>7
      <2> QED
            BY <2>1, <2>2, <2>3 DEF InsertionsReady, Inserting
<1> QED
      BY <1>6, <1>8, <1>9 DEF TreeShape

\* add_child appends the new node to the children of the root.
LEMMA CreateLinkAppends ==
    ASSUME IInv, NEW i \in Slots, CreateLink(i)
    PROVE  /\ nodes'[Root].kids = Append(nodes[Root].kids, node[i])
           /\ node[i] \in 2..nodecnt /\ node[i] \in NodeIds
           /\ \A n \in NodeIds : nodes'[n].name = nodes[n].name
<1>0. nodes \in [NodeIds -> Node]
      BY DEF IInv, TypeInv, TypeOK
<1>1. /\ parent[i] = Root /\ tail[i] = LastChild
      /\ node[i] \in 2..nodecnt /\ node[i] \in NodeIds
      BY DEF IInv, TypeInv, LocalsSet, TreeInv, InsertionsReady, Inserting, CreateLink,
         Goto
<1>2. nodes' = [nodes EXCEPT ![Root].kids = LinkAfter(@, LastChild, node[i])]
      BY <1>1 DEF CreateLink
<1>3. nodes'[Root].kids = LinkAfter(nodes[Root].kids, LastChild, node[i])
      BY <1>0, <1>2, BoundsFacts DEF Node
<1>4. \A n \in NodeIds : nodes'[n].name = nodes[n].name
      BY <1>0, <1>2, BoundsFacts DEF Node
<1> QED
      BY <1>0, <1>1, <1>3, <1>4, LinkAtEnd DEF IInv, TreeInv

\* The appended node has a name no child had, and no insertion is left.
LEMMA CreateLinkShape ==
    ASSUME IInv, NEW i \in Slots, CreateLink(i)
    PROVE  TreeShape'
<1> DEFINE kids == nodes[Root].kids
           n == node[i]
<1>0. nodes \in [NodeIds -> Node] /\ pc \in [Slots -> Pcs] /\ nodecnt \in Nat
      BY DEF IInv, TypeInv, TypeOK, NodeIds
<1>1. /\ nodes[n].name = msg[i].path /\ PathFree(msg[i].path)
      /\ \A j \in Slots \ {i} : pc[j] \notin {"createAdd", "createWalk", "createLink"}
      BY NeverDisturbed
      DEF IInv, TreeInv, InsertionsReady, Inserting, CreateLink, Goto,
          Critical, CriticalPcs, CreatePcs
<1>2. /\ nodes'[Root].kids = Append(kids, n) /\ n \in 2..nodecnt /\ n \in NodeIds
      /\ \A m \in NodeIds : nodes'[m].name = nodes[m].name
      BY CreateLinkAppends
<1>3. /\ UNCHANGED <<nodecnt, node, msg>> /\ pc' = [pc EXCEPT ![i] = "createOwn"]
      /\ pc[i] = "createLink"
      BY DEF CreateLink, Goto
<1>4. kids \in Seq(NodeIds) /\ Len(kids) \in Nat /\ DOMAIN kids = 1..Len(kids)
         /\ \A k \in DOMAIN kids : kids[k] \in NodeIds
      BY <1>0, RootKids
<1> HIDE DEF kids, n
<1>5. /\ DOMAIN Append(kids, n) = 1..(Len(kids) + 1)
      /\ \A k \in 1..Len(kids) : Append(kids, n)[k] = kids[k]
      /\ Append(kids, n)[Len(kids) + 1] = n
      BY <1>2, <1>4, AppendProperties
<1>6. Children' = Children \cup {n}
      BY <1>2, <1>4, <1>5 DEF Children, kids
<1>7. NamesDiffer'
      <2>1. \A k \in 1..Len(kids) : nodes[kids[k]].name # nodes[n].name
            BY <1>1, <1>4 DEF PathFree, Children, kids, n
      <2>2. \A j, k \in 1..Len(kids) : nodes[kids[j]].name = nodes[kids[k]].name => j = k
            BY <1>4 DEF IInv, TreeInv, NamesDiffer, kids
      <2>3. ASSUME NEW j \in 1..(Len(kids) + 1), NEW k \in 1..(Len(kids) + 1),
                   nodes'[Append(kids, n)[j]].name = nodes'[Append(kids, n)[k]].name
            PROVE  j = k
            <3>1. /\ j \in 1..Len(kids) \/ j = Len(kids) + 1
                  /\ k \in 1..Len(kids) \/ k = Len(kids) + 1
                  BY <1>4
            <3>2. Append(kids, n)[j] \in NodeIds /\ Append(kids, n)[k] \in NodeIds
                  BY <1>2, <1>4, <1>5, <3>1
            <3>3. nodes[Append(kids, n)[j]].name = nodes[Append(kids, n)[k]].name
                  BY <1>2, <2>3, <3>2
            <3>4. CASE j \in 1..Len(kids) /\ k \in 1..Len(kids)
                  BY <1>5, <2>2, <3>3, <3>4
            <3>5. CASE j = Len(kids) + 1 /\ k \in 1..Len(kids)
                  BY <1>5, <2>1, <3>3, <3>5
            <3>6. CASE k = Len(kids) + 1 /\ j \in 1..Len(kids)
                  BY <1>5, <2>1, <3>3, <3>6
            <3> QED
                  BY <3>1, <3>4, <3>5, <3>6
      <2> QED
            BY <1>2, <1>5, <2>3 DEF NamesDiffer
<1>8. EveryNodeHeld'
      <2>1. \A m \in 2..nodecnt : m \in Children \/ m = n
            BY <1>1 DEF IInv, TreeInv, EveryNodeHeld, Inserting, n
      <2> QED
            BY <1>2, <1>3, <1>6, <2>1 DEF EveryNodeHeld, IInv, TreeInv
<1>9. InsertionsReady'
      <2>1. \A j \in Slots : pc'[j] \notin {"createAdd", "createWalk", "createLink"}
            BY <1>0, <1>1, <1>3
      <2> QED
            BY <2>1 DEF InsertionsReady, Inserting
<1> QED
      BY <1>7, <1>8, <1>9 DEF TreeShape

\* Recording the storer changes no name and no list of children.
LEMMA CreateOwnShape ==
    ASSUME IInv, NEW i \in Slots, CreateOwn(i)
    PROVE  TreeShape' /\ nodes'[Root].kids = nodes[Root].kids
<1>0. nodes \in [NodeIds -> Node] /\ pc \in [Slots -> Pcs]
      /\ node \in [Slots -> NodeIds \cup {NIL}] /\ parent \in [Slots -> NodeIds \cup {NIL}]
      BY DEF IInv, TypeInv, TypeOK
<1>1. \A j \in Slots \ {i} : pc[j] \notin {"createAdd", "createWalk", "createLink"}
      BY NeverDisturbed DEF IInv, CreateOwn, Goto, Critical, CriticalPcs, CreatePcs
<1>2. /\ pc[i] = "createOwn" /\ pc' = [pc EXCEPT ![i] = "recv"]
      /\ UNCHANGED <<msg, nodecnt>>
      /\ nodes' = [nodes EXCEPT ![node[i]].fileserv = i]
      BY DEF CreateOwn, Goto
<1>3. \A n \in NodeIds : nodes'[n].name = nodes[n].name /\ nodes'[n].kids = nodes[n].kids
      BY <1>0, <1>2 DEF Node
<1>4. nodes'[Root].kids = nodes[Root].kids /\ Children' = Children
      BY <1>3, BoundsFacts DEF Children
<1>5. NamesDiffer'
      BY <1>0, <1>3, <1>4, RootKids DEF IInv, TreeInv, NamesDiffer
<1>6. EveryNodeHeld'
      <2>1. \A j \in Slots : ~Inserting(j)
            BY <1>1, <1>2 DEF Inserting
      <2> QED
            BY <1>2, <1>4, <2>1 DEF IInv, TreeInv, EveryNodeHeld
<1>7. InsertionsReady'
      <2>1. \A j \in Slots : pc'[j] \notin {"createAdd", "createWalk", "createLink"}
            BY <1>0, <1>1, <1>2
      <2> QED
            BY <2>1 DEF InsertionsReady, Inserting
<1> QED
      BY <1>4, <1>5, <1>6, <1>7 DEF TreeShape

\* Every step keeps the shape of the tree.
LEMMA NextTreeShape ==
    ASSUME IInv, [Next]_vars
    PROVE  TreeShape'
<1>0. /\ TreeShape /\ pc \in [Slots -> Pcs] /\ nodes \in [NodeIds -> Node]
      /\ msg \in [Slots -> Requests] /\ tail \in [Slots -> NodeIds \cup {NIL}]
      /\ \A j \in Slots : pc[j] = "createAdd" => PathFree(msg[j].path)
      /\ \A j \in Slots : pc[j] = "createLink" => tail[j] = LastChild
      BY DEF IInv, TreeInv, TreeShape, InsertionsReady, TypeInv, TypeOK
<1>1. CASE UNCHANGED <<thread, tree>>
      BY <1>0, <1>1, ShapeStands DEF thread, Inserting
<1>2. CASE Connect \/ \E c \in Conns : FileServerStep(c)
      BY <1>1, <1>2
      DEF Connect, FileServerStep, SendHello, ReceiveHelloResponse, SendRequest,
          ListDirectory, CreateFile, WriteFile, AskFile, ReceiveReply, Crash
<1>3. ASSUME NEW i \in Slots, NEW to, UNCHANGED <<tree, node, parent, tail>>,
             pc' = [pc EXCEPT ![i] = to], ~Inserting(i),
             \A j \in Slots \ {i} : msg'[j] = msg[j],
             to \notin {"createWalk", "createLink"},
             to = "createAdd" => PathFree(msg'[i].path)
      PROVE  TreeShape'
      BY <1>0, <1>3, ShapeStands DEF Inserting
<1>4. CASE MainThread
      <2>1. CASE GreetFileServer
            BY <1>3, <2>1
            DEF GreetFileServer, IInv, TypeInv, Registration, Inserting
      <2> QED
            BY <1>1, <1>4, <2>1
            DEF MainThread, AcceptFileServer, RefuseFileServer, GreetFails
<1>5. ASSUME NEW i \in Slots, ThreadStep(i) PROVE TreeShape'
      <2>1. CASE ReceiveRequest(i)
            <3>1. Handler(req[fileservers[i].sd].kind)
                      \notin {"createAdd", "createWalk", "createLink"}
                  BY <2>1 DEF ReceiveRequest, Handler, DcpRequests
            <3>2. \A j \in Slots \ {i} : msg'[j] = msg[j]
                  BY <1>0, <2>1 DEF ReceiveRequest
            <3> QED
                  BY <1>3, <2>1, <3>1, <3>2 DEF ReceiveRequest, Inserting
      <2>2. CASE ThreadExits(i) \/ ReadLock(i) \/ ReadList(i) \/ ReplicasLock(i)
                 \/ ReplicasFind(i) \/ CreateLock(i) \/ CreateExists(i)
            BY <1>3, <2>2
            DEF ThreadExits, ReadLock, ReadList, ReplicasLock, ReplicasFind, CreateLock,
                CreateExists, AfterExists, LockDirectory, Goto, Inserting
      <2>3. CASE CreateAbsent(i)
            <3>1. Critical(i) /\ msg[i].path \in Names
                  BY <2>3 DEF CreateAbsent, Goto, Critical, CriticalPcs, IInv, TreeInv,
                              CreatesName
            <3>2. FindNode(msg[i].path) = NIL
                  BY <2>3, <3>1, NeverDisturbed DEF IInv, CreateAbsent, Found
            <3>3. PathFree(msg[i].path)
                  BY <1>0, <3>1, <3>2, FindNodeMisses, SlashIsNoName
            <3> QED
                  BY <1>3, <2>3, <3>3 DEF CreateAbsent, Goto, Inserting
      <2>4. CASE CreateWalk(i)
            <3>1. /\ pc[i] = "createWalk" /\ pc' = [pc EXCEPT ![i] = "createLink"]
                  /\ UNCHANGED <<node, parent, msg, tree>>
                  BY <2>4 DEF CreateWalk, Goto
            <3>2. parent[i] = Root
                  BY <3>1 DEF IInv, TreeInv, InsertionsReady, Inserting
            <3>3. tail' = [tail EXCEPT ![i] = LastChild]
                  BY <2>4, <3>2 DEF CreateWalk, LastChild
            <3> QED
                  BY <1>0, <3>1, <3>3, ShapeStands DEF Inserting
      <2>5. CASE CreateAdd(i) \/ CreateLink(i) \/ CreateOwn(i)
            BY <2>5, CreateAddShape, CreateLinkShape, CreateOwnShape
      <2>6. ~(UpdateUnlock(i) \/ UpdateFind(i) \/ UpdateMiss(i) \/ UpdateSet(i))
            BY DEF UpdateUnlock, UpdateFind, UpdateMiss, UpdateSet, Goto, IInv, LockInv,
                   NoUpdate, UpdatePcs
      <2> QED
            BY <1>5, <2>1, <2>2, <2>3, <2>4, <2>5, <2>6 DEF ThreadStep
<1>6. CASE UNCHANGED vars
      BY <1>1, <1>6 DEF vars, thread, tree
<1> QED
      BY <1>2, <1>4, <1>5, <1>6 DEF Next

\* Every step keeps the whole invariant,
LEMMA NextIInv ==
    ASSUME "UPDATE" \notin Kinds, IInv, [Next]_vars
    PROVE  IInv'
BY NextTypeInv, NextNoUpdate, NextMutualExclusion, NextCreatesName, NextTreeShape
DEF IInv, LockInv, TreeInv, TreeShape

\* so that it holds in every reachable state.
LEMMA AlwaysIInv ==
    ASSUME "UPDATE" \notin Kinds
    PROVE  Spec => []IInv
<1>1. Init => IInv
      BY InitTypeInv, InitLockInv, InitTreeInv DEF IInv
<1>2. IInv /\ [Next]_vars => IInv'
      BY NextIInv
<1> QED
      BY <1>1, <1>2, PTL DEF Spec

-----------------------------------------------------------------------------
(* What the invariant gives.                                                *)

\* A node whose creation is over is a child of the root.
LEMMA CreatedAreChildren ==
    ASSUME IInv
    PROVE  Created \subseteq Children
BY DEF IInv, TreeInv, EveryNodeHeld, Inserting, Created, CreatePcs

\* Without UPDATE requests a path is created at most once, however many file
\* servers ask for it at the same time.
THEOREM CreatedOnceHolds ==
    ASSUME "UPDATE" \notin Kinds
    PROVE  Spec => []CreatedOnce
<1>1. IInv => CreatedOnce
      BY CreatedAreChildren DEF IInv, TreeInv, NamesDiffer, CreatedOnce, Children
<1> QED
      BY <1>1, AlwaysIInv, PTL

\* Without UPDATE requests a file whose CREATE succeeded stays in the
\* listing.
THEOREM NoLostFileHolds ==
    ASSUME "UPDATE" \notin Kinds
    PROVE  Spec => []NoLostFile
<1>1. IInv => NoLostFile
      BY CreatedAreChildren DEF NoLostFile, Children
<1> QED
      BY <1>1, AlwaysIInv, PTL

\* The children of the root stay, or get one more at the end.
LEMMA KidsStep ==
    ASSUME IInv, [Next]_vars
    PROVE  \/ nodes'[Root].kids = nodes[Root].kids
           \/ \E n \in NodeIds : nodes'[Root].kids = Append(nodes[Root].kids, n)
<1>1. ASSUME NEW i \in Slots, CreateAdd(i) PROVE nodes'[Root].kids = nodes[Root].kids
      BY <1>1, BoundsFacts DEF CreateAdd, Root, IInv, TypeInv, TypeOK, NodeIds
<1>2. ASSUME NEW i \in Slots, CreateLink(i)
      PROVE  \E n \in NodeIds : nodes'[Root].kids = Append(nodes[Root].kids, n)
      BY <1>2, CreateLinkAppends
<1>3. ASSUME NEW i \in Slots, CreateOwn(i) PROVE nodes'[Root].kids = nodes[Root].kids
      BY <1>3, CreateOwnShape
<1>4. ASSUME NEW i \in Slots
      PROVE  ~UpdateSet(i)
      BY DEF UpdateSet, Goto, IInv, LockInv, NoUpdate, UpdatePcs
<1>5. CASE UNCHANGED nodes
      BY <1>5
<1> QED
      BY <1>1, <1>2, <1>3, <1>4, <1>5
      DEF Next, MainThread, FileServerStep, ThreadStep, Connect, SendHello,
         ReceiveHelloResponse,
          SendRequest, ListDirectory, CreateFile, WriteFile, AskFile, ReceiveReply, Crash,
          AcceptFileServer, RefuseFileServer, GreetFileServer, GreetFails, ReceiveRequest,
          ThreadExits, ReadLock, ReadList, ReplicasLock, ReplicasFind, CreateLock,
          CreateExists, CreateAbsent, CreateWalk, UpdateUnlock, UpdateFind, UpdateMiss,
          LockDirectory, tree, vars

\* Without UPDATE requests what a READ returned is a prefix of what every
\* later READ returns.
THEOREM ListingGrowsHolds ==
    ASSUME "UPDATE" \notin Kinds
    PROVE  Spec => ListingGrows
<1> DEFINE kids == nodes[Root].kids
           Grows == /\ Len(kids) <= Len(nodes'[Root].kids)
                    /\ SubSeq(nodes'[Root].kids, 1, Len(kids)) = kids
<1>1. IInv /\ [Next]_vars => [Grows]_vars
      <2> SUFFICES ASSUME IInv, [Next]_vars PROVE Grows
          OBVIOUS
      <2>1. kids \in Seq(NodeIds) /\ Len(kids) \in Nat
            BY RootKids DEF IInv, TypeInv, TypeOK
      <2>2. SubSeq(kids, 1, Len(kids)) = kids
            BY <2>1
      <2>3. ASSUME NEW n \in NodeIds
            PROVE  /\ Len(kids) <= Len(Append(kids, n))
                   /\ SubSeq(Append(kids, n), 1, Len(kids)) = kids
            BY <2>1
      <2> QED
            BY <2>1, <2>2, <2>3, KidsStep
<1> QED
      BY <1>1, AlwaysIInv, PTL DEF Spec, ListingGrows

-----------------------------------------------------------------------------
(* The directory implements Namespace when no file server sends UPDATE: each  *)
(* step is one of the namespace service or none.                              *)

\* A handler serves a request of its kind (serve_fileserver).
ServesKind ==
    \A i \in Slots :
        /\ pc[i] \in {"readLock", "readList"} => msg[i].kind = "READ"
        /\ pc[i] \in {"replicasLock", "replicasFind"} => msg[i].kind = "GET_REPLICAS"
        /\ pc[i] \in {"createLock", "createCheck"} \cup CreatePcs => msg[i].kind = "CREATE"

\* create_file has the node with the path it was asked for when it sends the
\* file info.
NodesNamed ==
    \A i \in Slots : pc[i] = "createOwn" =>
        node[i] \in 2..nodecnt /\ nodes[node[i]].name = msg[i].path

\* The inductive invariant of the refinement.
RefInv == IInv /\ TurnInv /\ ServesKind /\ NodesNamed

\* Handlers do not change into each other.
LEMMA NextServesKind ==
    ASSUME TypeInv, LockInv, ServesKind, [Next]_vars
    PROVE  ServesKind'
<1> USE DEF ServesKind
<1>0. pc \in [Slots -> Pcs] /\ msg \in [Slots -> Requests]
      BY DEF TypeInv, TypeOK
<1>1. CASE UNCHANGED <<pc, msg>>
      BY <1>1
<1>2. CASE GreetFileServer
      BY <1>0, <1>2 DEF GreetFileServer, CreatePcs
<1>3. ASSUME NEW i \in Slots, ThreadStep(i) PROVE ServesKind'
      <2>1. CASE ReceiveRequest(i)
            BY <1>0, <2>1 DEF ReceiveRequest, Handler, DcpRequests, CreatePcs
      <2>2. ASSUME UNCHANGED msg, NEW to, pc' = [pc EXCEPT ![i] = to],
                   \/ to \in {"recv", "exited"}
                   \/ pc[i] = "readLock" /\ to = "readList"
                   \/ pc[i] = "replicasLock" /\ to = "replicasFind"
                   \/ pc[i] = "createLock" /\ to = "createCheck"
                   \/ pc[i] \in {"createCheck"} \cup CreatePcs /\ to \in CreatePcs
            PROVE  ServesKind'
            BY <1>0, <2>2 DEF CreatePcs
      <2>3. CASE ThreadExits(i) \/ ReadLock(i) \/ ReadList(i) \/ ReplicasLock(i)
                 \/ ReplicasFind(i) \/ CreateLock(i) \/ CreateExists(i)
            BY <2>2, <2>3
            DEF ThreadExits, ReadLock, ReadList, ReplicasLock, ReplicasFind, CreateLock,
                CreateExists, AfterExists, LockDirectory, Goto
      <2>4. CASE CreateAbsent(i) \/ CreateAdd(i) \/ CreateWalk(i) \/ CreateLink(i)
                 \/ CreateOwn(i)
            BY <2>2, <2>4
            DEF CreateAbsent, CreateAdd, CreateWalk, CreateLink, CreateOwn, Goto, CreatePcs
      <2>5. ~(UpdateUnlock(i) \/ UpdateFind(i) \/ UpdateMiss(i) \/ UpdateSet(i))
            BY DEF UpdateUnlock, UpdateFind, UpdateMiss, UpdateSet, Goto, LockInv,
                   NoUpdate, UpdatePcs
      <2> QED
            BY <1>3, <2>1, <2>3, <2>4, <2>5 DEF ThreadStep
<1> QED
      BY <1>1, <1>2, <1>3
      DEF Next, MainThread, FileServerStep, Connect, SendHello, ReceiveHelloResponse,
          SendRequest, ListDirectory, CreateFile, WriteFile, AskFile, ReceiveReply, Crash,
          AcceptFileServer, RefuseFileServer, GreetFails, thread, vars

\* Whoever is past add_child is alone in the tree.
LEMMA NextNodesNamed ==
    ASSUME IInv, NodesNamed, [Next]_vars
    PROVE  NodesNamed'
<1>0. /\ pc \in [Slots -> Pcs] /\ msg \in [Slots -> Requests]
      /\ node \in [Slots -> NodeIds \cup {NIL}] /\ nodes \in [NodeIds -> Node]
      BY DEF IInv, TypeInv, TypeOK
<1>1. ASSUME NEW i \in Slots, NEW to, pc' = [pc EXCEPT ![i] = to], to # "createOwn",
             UNCHANGED <<node, nodecnt, nodes>>, \A j \in Slots \ {i} : msg'[j] = msg[j]
      PROVE  NodesNamed'
      BY <1>0, <1>1 DEF NodesNamed
<1>2. ASSUME NEW i \in Slots, NEW to, pc' = [pc EXCEPT ![i] = to], to # "createOwn",
             Critical(i)
      PROVE  NodesNamed'
      <2>1. \A j \in Slots \ {i} : pc[j] # "createOwn"
            BY <1>2, NeverDisturbed DEF IInv, Critical, CriticalPcs, CreatePcs
      <2> QED
            BY <1>0, <1>2, <2>1 DEF NodesNamed
<1>3. CASE UNCHANGED <<thread, tree>>
      BY <1>3 DEF NodesNamed, thread, tree
<1>4. CASE GreetFileServer
      BY <1>1, <1>4 DEF GreetFileServer, IInv, TypeInv, Registration, tree
<1>5. ASSUME NEW i \in Slots, ThreadStep(i) PROVE NodesNamed'
      <2> USE DEF Critical, CriticalPcs, CreatePcs
      <2>1. CASE ReceiveRequest(i)
            <3>1. Handler(req[fileservers[i].sd].kind) # "createOwn"
                  BY <2>1 DEF ReceiveRequest, Handler, DcpRequests
            <3>2. \A j \in Slots \ {i} : msg'[j] = msg[j]
                  BY <1>0, <2>1 DEF ReceiveRequest
            <3> QED
                  BY <1>1, <2>1, <3>1, <3>2 DEF ReceiveRequest, tree
      <2>2. CASE ThreadExits(i) \/ ReadLock(i) \/ ReadList(i) \/ ReplicasLock(i)
                 \/ ReplicasFind(i) \/ CreateLock(i) \/ CreateExists(i) \/ CreateAbsent(i)
            BY <1>1, <2>2
            DEF ThreadExits, ReadLock, ReadList, ReplicasLock, ReplicasFind, CreateLock,
                CreateExists, CreateAbsent, AfterExists, LockDirectory, Goto, tree
      <2>3. CASE CreateAdd(i) \/ CreateWalk(i)
            BY <1>2, <2>3 DEF CreateAdd, CreateWalk, Goto
      <2>4. CASE CreateOwn(i)
            BY <1>2, <2>4 DEF CreateOwn, Goto
      <2>5. CASE CreateLink(i)
            <3>1. /\ pc[i] = "createLink" /\ pc' = [pc EXCEPT ![i] = "createOwn"]
                  /\ UNCHANGED <<msg, node, nodecnt>>
                  BY <2>5 DEF CreateLink, Goto
            <3>2. /\ node[i] \in 2..nodecnt /\ node[i] \in NodeIds
                  /\ nodes'[node[i]].name = nodes[node[i]].name
                  BY <2>5, CreateLinkAppends
            <3>3. nodes[node[i]].name = msg[i].path
                  BY <3>1 DEF IInv, TreeInv, InsertionsReady, Inserting
            <3>4. \A j \in Slots \ {i} : pc[j] # "createOwn"
                  BY <3>1, NeverDisturbed DEF IInv
            <3> QED
                  BY <1>0, <3>1, <3>2, <3>3, <3>4 DEF NodesNamed
      <2>6. ~(UpdateUnlock(i) \/ UpdateFind(i) \/ UpdateMiss(i) \/ UpdateSet(i))
            BY DEF UpdateUnlock, UpdateFind, UpdateMiss, UpdateSet, Goto, IInv, LockInv,
                   NoUpdate, UpdatePcs
      <2> QED
            BY <1>5, <2>1, <2>2, <2>3, <2>4, <2>5, <2>6 DEF ThreadStep
<1> QED
      BY <1>3, <1>4, <1>5
      DEF Next, MainThread, FileServerStep, Connect, SendHello, ReceiveHelloResponse,
          SendRequest, ListDirectory, CreateFile, WriteFile, AskFile, ReceiveReply, Crash,
          AcceptFileServer, RefuseFileServer, GreetFails, vars, thread, tree

-----------------------------------------------------------------------------
(* What CallOf says of a connection.                                        *)

\* The call of a connection that a thread is serving, and of any other.
CallInside(i) ==
    IF pc[i] = "createOwn" THEN DoneCall("ok", <<msg[i].path>>) ELSE PendingCall(msg[i])
CallShown(c) ==
    IF rep[c].kind = "FILEINFO" THEN DoneCall("ok", rep[c].names)
    ELSE IF rep[c].errn = "EXISTS" THEN DoneCall("exists", <<>>)
    ELSE PendingCall(req[c])

\* CallOf says what these two say.
CallsSeen ==
    \A c \in Conns :
        /\ \A i \in Slots : fileservers[i].sd = c /\ InHandler(i) => CallOf(c) = CallInside(i)
        /\ (\A i \in Slots : fileservers[i].sd = c => ~InHandler(i)) =>
               CallOf(c) = CallShown(c)

\* One thread at most serves a connection.
LEMMA CallsAreSeen == RefInv => CallsSeen
<1> SUFFICES ASSUME RefInv, NEW c \in Conns
             PROVE  /\ \A i \in Slots : fileservers[i].sd = c /\ InHandler(i) =>
                           CallOf(c) = CallInside(i)
                    /\ (\A i \in Slots : fileservers[i].sd = c => ~InHandler(i)) =>
                           CallOf(c) = CallShown(c)
    BY DEF CallsSeen
<1>1. \A i \in Slots : InHandler(i) <=> pc[i] \in LockPcs \cup CriticalPcs
      <2>1. \A i \in Slots : pc[i] \in Pcs /\ pc[i] \notin UpdatePcs
            BY DEF RefInv, IInv, TypeInv, TypeOK, LockInv, NoUpdate
      <2> QED
            BY <2>1 DEF InHandler, Pcs, LockPcs, CriticalPcs, CreatePcs
<1>2. ASSUME NEW i \in Slots, fileservers[i].sd = c, InHandler(i)
      PROVE  CallOf(c) = CallInside(i)
      <2>1. \A j \in Slots : fileservers[j].sd = c => i = j
            BY <1>2 DEF RefInv, TurnInv, SlotsInTurn, Conns
      <2>2. Serving(c) = {i}
            BY <1>1, <1>2, <2>1 DEF Serving
      <2>3. rep[c] = NoReply
            BY <1>2 DEF RefInv, TurnInv, AtThread, InHandler
      <2>4. rep[c].kind # "FILEINFO" /\ rep[c].errn # "EXISTS"
            BY <2>3 DEF NoReply, Message
      <2>5. (CHOOSE j \in Serving(c) : TRUE) = i
            BY <2>2
      <2> QED
            BY <2>2, <2>4, <2>5 DEF CallOf, CallInside
<1>3. ASSUME \A i \in Slots : fileservers[i].sd = c => ~InHandler(i)
      PROVE  CallOf(c) = CallShown(c)
      <2>1. Serving(c) = {}
            BY <1>1, <1>3 DEF Serving
      <2> QED
            BY <2>1 DEF CallOf, CallShown
<1> QED
      BY <1>2, <1>3

\* That also holds after a step.
LEMMA CallsStaySeen == RefInv' => CallsSeen'
BY CallsAreSeen, PTL

-----------------------------------------------------------------------------
(* Steps of the namespace service.                                          *)

\* The variables call and gone of the service,
CallMap == [c \in Conns |-> CallOf(c)]
Gone    == {c \in Conns : link[c] = "dead"}

\* and its actions.
Step(c) ==
    \/ NS!Invoke(c) \/ NS!List(c) \/ NS!Return(c) \/ NS!Leave(c) \/ NS!Discard(c)
    \/ \E name \in Names : NS!Create(c, name) \/ NS!CreateTaken(c, name)

\* Nothing happens in the namespace.
Stutter == UNCHANGED <<ChildNames(Root), CallMap, Gone>>

\* Either of the two is what the specification of the service allows.
LEMMA StepsRefine ==
    ASSUME Stutter \/ \E c \in Conns : Step(c)
    PROVE  [NS!NNext]_(NS!nvars)
<1>1. CASE Stutter
      BY <1>1 DEF Stutter, CallMap, Gone, NS!nvars
<1>2. ASSUME NEW c \in Conns, Step(c) PROVE NS!NNext
      BY <1>2 DEF Step, NS!NNext
<1> QED
      BY <1>1, <1>2

\* Only the call of connection d changes.
LEMMA OneCall ==
    ASSUME NEW d \in Conns, \A c \in Conns \ {d} : CallOf(c)' = CallOf(c)
    PROVE  CallMap' = [CallMap EXCEPT ![d] = CallOf(d)'] /\ CallMap[d] = CallOf(d)
BY DEF CallMap

\* A step that changes neither links nor the listing.
Still == UNCHANGED <<ChildNames(Root), Gone>>

\* list_directory and create_file of a file server send a request: a call begins.
LEMMA InvokeStep ==
    ASSUME Still, NEW d \in Conns, \A c \in Conns \ {d} : CallOf(c)' = CallOf(c),
           d \notin Gone, CallOf(d) = IdleCall, NEW r,
           \/ r.kind = "READ"
           \/ r.kind = "CREATE" /\ r.path \in Names,
           CallOf(d)' = PendingCall(r)
    PROVE  Step(d)
<1>1. CallMap' = [CallMap EXCEPT ![d] = PendingCall(r)] /\ CallMap[d] = IdleCall
      BY OneCall
<1>2. \/ PendingCall(r) = NS!Pending("list", "all")
      \/ r.path \in Names /\ PendingCall(r) = NS!Pending("create", r.path)
      BY DEF PendingCall, NS!Pending
<1>3. NS!Invoke(d)
      BY <1>1, <1>2 DEF NS!Invoke, NS!Idle, IdleCall, CallMap, Gone, Still
<1> QED
      BY <1>3 DEF Step

\* dcp_check_response reads the answer: a call returns.
LEMMA ReturnStep ==
    ASSUME Still, NEW d \in Conns, \A c \in Conns \ {d} : CallOf(c)' = CallOf(c),
           CallOf(d).status = "done", CallOf(d)' = IdleCall
    PROVE  Step(d)
<1>1. NS!Return(d)
      BY OneCall DEF NS!Return, NS!Idle, IdleCall, CallMap, Gone, Still
<1> QED
      BY <1>1 DEF Step

\* The answer for a file server that ended is lost: its call just ends.
LEMMA DiscardStep ==
    ASSUME Still, NEW d \in Conns, \A c \in Conns \ {d} : CallOf(c)' = CallOf(c),
           d \in Gone, CallOf(d) # IdleCall, CallOf(d)' = IdleCall
    PROVE  Step(d)
<1>1. NS!Discard(d)
      BY OneCall DEF NS!Discard, NS!Idle, IdleCall, CallMap, Gone, Still
<1> QED
      BY <1>1 DEF Step

\* A file server ends, and with it the answer it has not read.
LEMMA LeaveStep ==
    ASSUME UNCHANGED ChildNames(Root), NEW d \in Conns, d \notin Gone, Gone' = Gone \cup {d},
           \A c \in Conns \ {d} : CallOf(c)' = CallOf(c),
           \/ CallOf(d)' = CallOf(d)
           \/ CallOf(d).status = "done" /\ CallOf(d)' = IdleCall
    PROVE  Step(d)
<1>1. CallOf(d)' = CallOf(d) => UNCHANGED CallMap
      BY DEF CallMap
<1>2. NS!Leave(d)
      BY <1>1, OneCall DEF NS!Leave, NS!Idle, IdleCall, CallMap, Gone
<1> QED
      BY <1>2 DEF Step

\* read_dir copies the names: the list takes effect.
LEMMA ListStep ==
    ASSUME Still, NEW d \in Conns, \A c \in Conns \ {d} : CallOf(c)' = CallOf(c),
           NEW r, r.kind = "READ", CallOf(d) = PendingCall(r),
           CallOf(d)' = DoneCall("ok", ChildNames(Root))
    PROVE  Step(d)
<1>1. CallOf(d) = NS!Pending("list", "all")
      BY DEF PendingCall, NS!Pending
<1>2. NS!List(d)
      BY <1>1, OneCall DEF NS!List, NS!Done, DoneCall, CallMap, Gone, Still
<1> QED
      BY <1>2 DEF Step

\* create_file finds the path: the create fails.
LEMMA TakenStep ==
    ASSUME Still, NEW d \in Conns, \A c \in Conns \ {d} : CallOf(c)' = CallOf(c),
           NEW r, r.kind = "CREATE", r.path \in Names, CallOf(d) = PendingCall(r),
           \E k \in DOMAIN ChildNames(Root) : ChildNames(Root)[k] = r.path,
           CallOf(d)' = DoneCall("exists", <<>>)
    PROVE  Step(d)
<1>1. CallOf(d) = NS!Pending("create", r.path)
      BY DEF PendingCall, NS!Pending
<1>2. NS!CreateTaken(d, r.path)
      BY <1>1, OneCall DEF NS!CreateTaken, NS!Listed, NS!Done, DoneCall, CallMap, Gone, Still
<1> QED
      BY <1>2 DEF Step

\* add_child links the node: the create takes effect.
LEMMA CreateStep ==
    ASSUME Gone' = Gone, NEW d \in Conns, \A c \in Conns \ {d} : CallOf(c)' = CallOf(c),
           NEW r, r.kind = "CREATE", r.path \in Names, CallOf(d) = PendingCall(r),
           \A k \in DOMAIN ChildNames(Root) : ChildNames(Root)[k] # r.path,
           ChildNames(Root)' = Append(ChildNames(Root), r.path),
           CallOf(d)' = DoneCall("ok", <<r.path>>)
    PROVE  Step(d)
<1>1. CallOf(d) = NS!Pending("create", r.path)
      BY DEF PendingCall, NS!Pending
<1>2. NS!Create(d, r.path)
      BY <1>1, OneCall DEF NS!Create, NS!Listed, NS!Done, DoneCall, CallMap, Gone
<1> QED
      BY <1>2 DEF Step

-----------------------------------------------------------------------------
(* Steps of the directory and its file servers.                             *)

\* A call stays as it is when its messages do, and its thread is where it was.
LEMMA SameCall ==
    ASSUME CallsSeen, CallsSeen', NEW c \in Conns, UNCHANGED <<rep[c], req[c]>>,
           \A i \in Slots :
               /\ (fileservers[i].sd = c /\ InHandler(i))'
                      <=> fileservers[i].sd = c /\ InHandler(i)
               /\ fileservers[i].sd = c /\ InHandler(i) => CallInside(i)' = CallInside(i)
    PROVE  CallOf(c)' = CallOf(c)
<1>1. CASE \E i \in Slots : fileservers[i].sd = c /\ InHandler(i)
      BY <1>1 DEF CallsSeen
<1>2. CASE \A i \in Slots : ~(fileservers[i].sd = c /\ InHandler(i))
      <2>1. CallOf(c) = CallShown(c) /\ CallOf(c)' = CallShown(c)'
            BY <1>2 DEF CallsSeen
      <2> QED
            BY <2>1 DEF CallShown
<1> QED
      BY <1>1, <1>2

\* The links, requests and replies of file servers, the threads standing still.
LEMMA SameThreads ==
    ASSUME CallsSeen, CallsSeen', UNCHANGED <<pc, msg, fileservers>>,
           NEW c \in Conns, UNCHANGED <<rep[c], req[c]>>
    PROVE  CallOf(c)' = CallOf(c)
BY SameCall DEF InHandler, CallInside

\* A file server that reads its reply, or ends, has no call any more, if that
\* was done.
LEMMA ReplyTaken ==
    ASSUME RefInv, CallsSeen, CallsSeen', NEW d \in Conns,
           UNCHANGED <<pc, msg, fileservers, req>>, rep' = [rep EXCEPT ![d] = NoReply]
    PROVE  /\ \A c \in Conns \ {d} : CallOf(c)' = CallOf(c)
           /\ \/ CallOf(d)' = CallOf(d)
              \/ CallOf(d).status = "done" /\ CallOf(d)' = IdleCall
<1>0. rep \in [Conns -> Replies]
      BY DEF RefInv, IInv, TypeInv, TypeOK
<1>1. \A c \in Conns \ {d} : CallOf(c)' = CallOf(c)
      BY <1>0, SameThreads
<1>2. CASE rep[d] = NoReply
      BY <1>0, <1>1, <1>2, SameThreads
<1>3. CASE rep[d] # NoReply
      <2>1. req[d] = NoRequest /\ \A i \in Slots : fileservers[i].sd = d => ~InHandler(i)
            BY <1>3 DEF RefInv, TurnInv, AtServer, AtThread, InHandler
      <2>2. CallOf(d) = CallShown(d) /\ CallOf(d)' = CallShown(d)'
            BY <2>1 DEF CallsSeen, InHandler
      <2>3. rep'[d] = NoReply /\ req'[d] = NoRequest
            BY <1>0, <2>1
      <2>4. PendingCall(NoRequest) = IdleCall
            BY DEF PendingCall, NoRequest
      <2>5. CallOf(d)' = IdleCall
            BY <2>2, <2>3, <2>4 DEF CallShown, NoReply, Message
      <2>6. CallOf(d) = IdleCall \/ CallOf(d).status = "done"
            BY <2>1, <2>2, <2>4 DEF CallShown, DoneCall
      <2> QED
            BY <1>1, <2>5, <2>6
<1> QED
      BY <1>1, <1>2, <1>3

\* A file server's step invokes, returns, leaves or does nothing.
LEMMA ServerRefines ==
    ASSUME RefInv, CallsSeen, CallsSeen', NEW d \in Conns, FileServerStep(d),
           \A c \in Conns : req'[c].kind # "UPDATE"
    PROVE  Stutter \/ Step(d)
<1>0. /\ link \in [Conns -> LinkStates] /\ req \in [Conns -> Requests]
      /\ rep \in [Conns -> Replies]
      BY DEF RefInv, IInv, TypeInv, TypeOK
<1>1. UNCHANGED <<ChildNames(Root), pc, msg, fileservers>>
      BY DEF FileServerStep, SendHello, ReceiveHelloResponse, SendRequest, ListDirectory,
             CreateFile, WriteFile, AskFile, ReceiveReply, Crash, ChildNames, tree, thread,
             main
<1>2. AtServer(d) /\ \A i \in Slots : AtThread(d, i)
      BY DEF RefInv, TurnInv
<1>3. CASE SendHello(d)
      <2>1. /\ link[d] = "connected" /\ link' = [link EXCEPT ![d] = "greeting"]
            /\ req' = [req EXCEPT ![d] = Hello] /\ UNCHANGED rep
            BY <1>3 DEF SendHello
      <2>2. Gone' = Gone
            BY <1>0, <2>1 DEF Gone
      <2>3. \A c \in Conns \ {d} : CallOf(c)' = CallOf(c)
            BY <1>0, <1>1, <2>1, SameThreads
      <2>4. req[d] = NoRequest /\ \A i \in Slots : fileservers[i].sd = d => ~InHandler(i)
            BY <1>2, <2>1 DEF AtServer, AtThread
      <2>5. CallOf(d) = CallShown(d) /\ CallOf(d)' = CallShown(d)'
            BY <1>1, <2>4 DEF CallsSeen, InHandler
      <2>6. PendingCall(NoRequest) = IdleCall /\ PendingCall(Hello) = IdleCall
            BY DEF PendingCall, NoRequest, Hello
      <2>7. CallOf(d)' = CallOf(d)
            BY <1>0, <2>1, <2>4, <2>5, <2>6 DEF CallShown
      <2> QED
            BY <1>1, <2>2, <2>3, <2>7 DEF Stutter, CallMap
<1>4. CASE ReceiveHelloResponse(d) \/ ReceiveReply(d)
      <2>1. /\ link[d] \in {"greeting", "waiting"} /\ link' = [link EXCEPT ![d] = "idle"]
            /\ rep' = [rep EXCEPT ![d] = NoReply] /\ UNCHANGED req
            BY <1>4 DEF ReceiveHelloResponse, ReceiveReply
      <2>2. Gone' = Gone
            BY <1>0, <2>1 DEF Gone
      <2>3. /\ \A c \in Conns \ {d} : CallOf(c)' = CallOf(c)
            /\ \/ CallOf(d)' = CallOf(d)
               \/ CallOf(d).status = "done" /\ CallOf(d)' = IdleCall
            BY <1>1, <2>1, ReplyTaken
      <2>4. CallOf(d)' = CallOf(d) => UNCHANGED CallMap
            BY <2>3 DEF CallMap
      <2> QED
            BY <1>1, <2>2, <2>3, <2>4, ReturnStep DEF Stutter, Still
<1>5. CASE Crash(d)
      <2>1. /\ link[d] \in Live /\ link' = [link EXCEPT ![d] = "dead"]
            /\ rep' = [rep EXCEPT ![d] = NoReply] /\ UNCHANGED req
            BY <1>5 DEF Crash
      <2>2. Gone' = Gone \cup {d} /\ d \notin Gone
            BY <1>0, <2>1 DEF Gone, Live
      <2> QED
            BY <1>1, <2>1, <2>2, ReplyTaken, LeaveStep
<1>6. ASSUME NEW kind, NEW path, SendRequest(d, kind, path),
             kind = "CREATE" => path \in Names
      PROVE  Stutter \/ Step(d)
      <2> DEFINE r == [kind |-> kind, path |-> path]
      <2>1. /\ link[d] = "idle" /\ link' = [link EXCEPT ![d] = "waiting"]
            /\ req' = [req EXCEPT ![d] = r] /\ UNCHANGED rep
            /\ kind \in DcpRequests
            BY <1>6, KindsAreRequests DEF SendRequest
      <2>2. Gone' = Gone
            BY <1>0, <2>1 DEF Gone
      <2>3. \A c \in Conns \ {d} : CallOf(c)' = CallOf(c)
            BY <1>0, <1>1, <2>1, SameThreads
      <2>4. /\ req[d] = NoRequest /\ rep[d] = NoReply
            /\ \A i \in Slots : fileservers[i].sd = d => ~InHandler(i)
            BY <1>2, <2>1 DEF AtServer, AtThread, InHandler
      <2>5. CallOf(d) = CallShown(d) /\ CallOf(d)' = CallShown(d)'
            BY <1>1, <2>4 DEF CallsSeen, InHandler
      <2>6. CallOf(d) = IdleCall
            BY <2>4, <2>5 DEF CallShown, NoReply, Message, PendingCall, NoRequest
      <2>7. CallOf(d)' = PendingCall(r) /\ req'[d] = r
            <3>1. rep'[d] = NoReply /\ req'[d] = r
                  BY <1>0, <2>1, <2>4
            <3> HIDE DEF r
            <3> QED
                  BY <2>5, <3>1 DEF CallShown, NoReply, Message
      <2>8. r.kind \in {"READ", "CREATE", "GET_REPLICAS"}
            BY <2>1, <2>7 DEF DcpRequests
      <2>9. r.kind = "GET_REPLICAS" => PendingCall(r) = IdleCall
            BY DEF PendingCall
      <2>10. CallOf(d)' = CallOf(d) => UNCHANGED CallMap
            BY <2>3 DEF CallMap
      <2>11. d \notin Gone
            BY <2>1 DEF Gone
      <2>12. r.kind = "CREATE" => r.path \in Names
            BY <1>6
      <2> HIDE DEF r
      <2> QED
            BY <1>1, <2>2, <2>3, <2>6, <2>7, <2>8, <2>9, <2>10, <2>11, <2>12, InvokeStep
            DEF Stutter, Still
<1> QED
      BY <1>3, <1>4, <1>5, <1>6
      DEF FileServerStep, ListDirectory, CreateFile, WriteFile, AskFile

\* The main thread, and a file server that connects, do nothing in the
\* namespace.
LEMMA MainRefines ==
    ASSUME RefInv, CallsSeen, CallsSeen', Connect \/ MainThread
    PROVE  Stutter
<1>0. /\ link \in [Conns -> LinkStates] /\ req \in [Conns -> Requests]
      /\ rep \in [Conns -> Replies] /\ pc \in [Slots -> Pcs] /\ nconn \in Nat
      /\ fileservers \in [Slots -> [id : 0..MaxConns, sd : 0..MaxConns]]
      BY DEF RefInv, IInv, TypeInv, TypeOK
<1>1. UNCHANGED <<ChildNames(Root), msg>>
      BY DEF Connect, MainThread, AcceptFileServer, RefuseFileServer, GreetFileServer,
             GreetFails, ChildNames, tree, thread
<1>2. CASE Connect
      <2>1. UNCHANGED <<req, rep, pc, fileservers>>
            BY <1>2 DEF Connect, thread, main
      <2>2. \A c \in Conns : c > nconn => link[c] = "none"
            BY DEF RefInv, TurnInv, NotAccepted
      <2>3. Gone' = Gone
            <3>1. nconn + 1 \in Conns /\ link[nconn + 1] = "none"
                  BY <1>0, <1>2, <2>2, BoundsAreNaturals DEF Connect, Conns
            <3> QED
                  BY <1>0, <1>2, <3>1 DEF Connect, Gone
      <2>4. \A c \in Conns : CallOf(c)' = CallOf(c)
            BY <1>1, <2>1, SameThreads
      <2> QED
            BY <1>1, <2>3, <2>4 DEF Stutter, CallMap
<1>3. CASE AcceptFileServer
      <2>1. /\ UNCHANGED <<link, req, rep, pc>> /\ RegisteredSlot # NIL
            /\ \A i \in Slots : i # RegisteredSlot => fileservers'[i] = fileservers[i]
            BY <1>0, <1>3 DEF AcceptFileServer, env, thread
      <2>2. RegisteredSlot \in FreeSlots
            <3>1. FreeSlots \in SUBSET Nat /\ FreeSlots # {}
                  BY <2>1 DEF FreeSlots, Slots, RegisteredSlot
            <3> QED
                  BY <2>1, <3>1, SmallestIsIn DEF RegisteredSlot
      <2>3. pc[RegisteredSlot] = "unborn"
            BY <2>2 DEF FreeSlots, RefInv, IInv, TypeInv, Registration
      <2>4. \A c \in Conns : CallOf(c)' = CallOf(c)
            BY <1>1, <2>1, <2>3, SameCall DEF InHandler, CallInside
      <2> QED
            BY <1>1, <2>1, <2>4 DEF Stutter, CallMap, Gone
<1>4. CASE RefuseFileServer
      <2>1. UNCHANGED <<req, rep, pc, fileservers>>
            BY <1>4 DEF RefuseFileServer, thread
      <2>2. Gone' = Gone
            BY <1>0, <1>4 DEF RefuseFileServer, Gone
      <2>3. \A c \in Conns : CallOf(c)' = CallOf(c)
            BY <1>1, <2>1, SameThreads
      <2> QED
            BY <1>1, <2>2, <2>3 DEF Stutter, CallMap
<1>5. CASE GreetFileServer
      <2> DEFINE s == fileservers[fsrvinfo].sd
      <2>1. /\ fsrvinfo \in Slots /\ pc[fsrvinfo] = "unborn" /\ s \in Conns
            BY <1>5 DEF GreetFileServer, RefInv, IInv, TypeInv, Registration
      <2>2. /\ UNCHANGED <<link, fileservers>> /\ req[s] = Hello
            /\ req' = [req EXCEPT ![s] = NoRequest]
            /\ rep' = [rep EXCEPT ![s] =
                          IF link[s] = "dead" THEN NoReply ELSE HelloResponse]
            /\ pc' = [pc EXCEPT ![fsrvinfo] = "recv"]
            BY <1>5 DEF GreetFileServer, Deliver
      <2>3. \A i \in Slots : /\ InHandler(i)' <=> InHandler(i)
                             /\ InHandler(i) => CallInside(i)' = CallInside(i)
            BY <1>0, <1>1, <2>1, <2>2 DEF InHandler, CallInside
      <2>4. ASSUME NEW c \in Conns \ {s} PROVE CallOf(c)' = CallOf(c)
            <3>1. UNCHANGED <<rep[c], req[c]>>
                  BY <1>0, <2>2
            <3> QED
                  BY <2>2, <2>3, <3>1, SameCall
      <2>5. ASSUME NEW c \in Conns, c = s PROVE CallOf(c)' = CallOf(c)
            <3>1. req[c] = Hello /\ req'[c] = NoRequest /\ rep'[c] \in {NoReply, HelloResponse}
                  BY <1>0, <2>2, <2>5
            <3>2. rep[c] = NoReply /\ \A i \in Slots : fileservers[i].sd = c => ~InHandler(i)
                  BY <3>1 DEF RefInv, TurnInv, AtServer, AtThread, InHandler, Hello, NoRequest
            <3>3. CallOf(c) = CallShown(c) /\ CallOf(c)' = CallShown(c)'
                  BY <2>2, <2>3, <3>2 DEF CallsSeen
            <3>4. PendingCall(NoRequest) = IdleCall /\ PendingCall(Hello) = IdleCall
                  BY DEF PendingCall, NoRequest, Hello
            <3> QED
                  BY <3>1, <3>2, <3>3, <3>4 DEF CallShown, NoReply, HelloResponse, Message
      <2>6. \A c \in Conns : CallOf(c)' = CallOf(c)
            BY <2>4, <2>5
      <2> QED
            BY <1>1, <2>2, <2>6 DEF Stutter, CallMap, Gone
<1>6. CASE GreetFails
      <2>1. UNCHANGED <<link, req, rep, pc, fileservers>>
            BY <1>6 DEF GreetFails, env, thread
      <2>2. \A c \in Conns : CallOf(c)' = CallOf(c)
            BY <1>1, <2>1, SameThreads
      <2> QED
            BY <1>1, <2>1, <2>2 DEF Stutter, CallMap, Gone
<1> QED
      BY <1>2, <1>3, <1>4, <1>5, <1>6 DEF MainThread

\* A thread touches the call of its own connection only.
LEMMA OthersStand ==
    ASSUME RefInv, CallsSeen, CallsSeen', NEW i \in Slots, NEW d \in Conns,
           fileservers[i].sd = d, UNCHANGED fileservers,
           \A j \in Slots \ {i} : pc'[j] = pc[j] /\ msg'[j] = msg[j],
           \A c \in Conns \ {d} : UNCHANGED <<rep[c], req[c]>>
    PROVE  \A c \in Conns \ {d} : CallOf(c)' = CallOf(c)
<1> SUFFICES ASSUME NEW c \in Conns \ {d} PROVE CallOf(c)' = CallOf(c)
    OBVIOUS
<1>1. ASSUME NEW j \in Slots, fileservers[j].sd = c
      PROVE  pc'[j] = pc[j] /\ msg'[j] = msg[j]
      BY <1>1
<1> QED
      BY <1>1, SameCall DEF InHandler, CallInside

\* The thread of slot i answers m and is done.
Answers(i, m) ==
    /\ InHandler(i) /\ pc' = [pc EXCEPT ![i] = "recv"]
    /\ Reply(i, m)
    /\ UNCHANGED <<link, req, msg, fileservers>>

\* The call after the answer m.
AnswerCall(m) ==
    IF m.kind = "FILEINFO" THEN DoneCall("ok", m.names)
    ELSE IF m.errn = "EXISTS" THEN DoneCall("exists", <<>>)
    ELSE IdleCall

\* With the answer the call is done, or it ends when nobody is there to read it.
LEMMA AnswerRefines ==
    ASSUME RefInv, CallsSeen, CallsSeen', NEW i \in Slots, NEW d \in Conns,
           fileservers[i].sd = d, NEW m, Answers(i, m)
    PROVE  /\ \A c \in Conns \ {d} : CallOf(c)' = CallOf(c)
           /\ CallOf(d) = CallInside(i)
           /\ CallOf(d)' = IF d \in Gone THEN IdleCall ELSE AnswerCall(m)
           /\ Gone' = Gone
<1>0. /\ link \in [Conns -> LinkStates] /\ req \in [Conns -> Requests]
      /\ rep \in [Conns -> Replies] /\ pc \in [Slots -> Pcs]
      BY DEF RefInv, IInv, TypeInv, TypeOK
<1>1. rep' = [rep EXCEPT ![d] = IF link[d] = "dead" THEN NoReply ELSE m]
      BY DEF Answers, Reply, Deliver
<1>2. pc'[i] = "recv" /\ \A j \in Slots \ {i} : pc'[j] = pc[j] /\ msg'[j] = msg[j]
      BY <1>0 DEF Answers
<1>3. \A c \in Conns \ {d} : CallOf(c)' = CallOf(c)
      <2>1. \A c \in Conns \ {d} : UNCHANGED <<rep[c], req[c]>>
            BY <1>0, <1>1 DEF Answers
      <2> QED
            BY <1>2, <2>1, OthersStand DEF Answers
<1>4. CallOf(d) = CallInside(i)
      BY DEF CallsSeen, Answers
<1>5. CallOf(d)' = CallShown(d)'
      <2>1. \A j \in Slots : fileservers[j].sd = d => i = j
            BY DEF RefInv, TurnInv, SlotsInTurn, Conns
      <2>2. \A j \in Slots : fileservers'[j].sd = d => ~InHandler(j)'
            BY <1>2, <2>1 DEF Answers, InHandler
      <2> QED
            BY <2>2 DEF CallsSeen
<1>6. rep'[d] = IF d \in Gone THEN NoReply ELSE m
      BY <1>0, <1>1 DEF Gone
<1>7. req'[d] = NoRequest
      BY DEF Answers, RefInv, TurnInv, AtThread, InHandler
<1>8. PendingCall(NoRequest) = IdleCall
      BY DEF PendingCall, NoRequest
<1> QED
      BY <1>3, <1>4, <1>5, <1>6, <1>7, <1>8
      DEF CallShown, AnswerCall, NoReply, Message, Answers, Gone

\* read_dir is a list, at the instant the names are copied.
LEMMA ReadRefines ==
    ASSUME RefInv, CallsSeen, CallsSeen', NEW i \in Slots, NEW d \in Conns,
           fileservers[i].sd = d, ReadList(i)
    PROVE  Step(d)
<1> DEFINE m == FileInfo(ChildNames(Root))
<1>1. Answers(i, m)
      <2>1. FindNode(msg[i].path) = Root
            BY DEF ReadList, Goto, RefInv, IInv, TypeInv, ReadsRoot, FindNode
      <2> QED
            BY <2>1 DEF Answers, ReadList, Goto, main, InHandler
<1>2. /\ \A c \in Conns \ {d} : CallOf(c)' = CallOf(c)
      /\ CallOf(d) = CallInside(i)
      /\ CallOf(d)' = IF d \in Gone THEN IdleCall ELSE AnswerCall(m)
      /\ Gone' = Gone
      BY <1>1, AnswerRefines
<1>3. AnswerCall(m) = DoneCall("ok", ChildNames(Root))
      BY DEF AnswerCall, FileInfo, Message
<1>4. msg[i].kind = "READ" /\ CallInside(i) = PendingCall(msg[i])
      BY DEF ReadList, Goto, RefInv, ServesKind, CallInside
<1>5. PendingCall(msg[i]) # IdleCall
      BY <1>4 DEF PendingCall, IdleCall
<1>6. Still
      BY <1>2 DEF Still, ReadList, ChildNames, tree
<1> QED
      BY <1>2, <1>3, <1>4, <1>5, <1>6, ListStep, DiscardStep

\* replica_status is no call of the namespace.
LEMMA ReplicasRefine ==
    ASSUME RefInv, CallsSeen, CallsSeen', NEW i \in Slots, NEW d \in Conns,
           fileservers[i].sd = d, ReplicasFind(i)
    PROVE  Stutter
<1> DEFINE m == ReplicaAnswer(FindNode(msg[i].path))
<1>1. Answers(i, m)
      BY DEF Answers, ReplicasFind, Goto, main, InHandler
<1>2. /\ \A c \in Conns \ {d} : CallOf(c)' = CallOf(c)
      /\ CallOf(d) = CallInside(i)
      /\ CallOf(d)' = IF d \in Gone THEN IdleCall ELSE AnswerCall(m)
      /\ Gone' = Gone
      BY <1>1, AnswerRefines
<1>3. AnswerCall(m) = IdleCall
      BY DEF AnswerCall, ReplicaAnswer, ReplicaStatus, DcpError, Message
<1>4. CallInside(i) = IdleCall
      <2>1. msg[i].kind = "GET_REPLICAS" /\ CallInside(i) = PendingCall(msg[i])
            BY DEF ReplicasFind, Goto, RefInv, ServesKind, CallInside
      <2> QED
            BY <2>1 DEF PendingCall
<1>5. UNCHANGED ChildNames(Root)
      BY DEF ReplicasFind, ChildNames, tree
<1>6. UNCHANGED CallMap
      BY <1>2, <1>3, <1>4 DEF CallMap
<1> QED
      BY <1>2, <1>5, <1>6 DEF Stutter

\* The names of the children of the root.
LEMMA RootNames ==
    ASSUME RefInv
    PROVE  /\ DOMAIN ChildNames(Root) = DOMAIN nodes[Root].kids
           /\ \A k \in DOMAIN nodes[Root].kids :
                  ChildNames(Root)[k] = nodes[nodes[Root].kids[k]].name
BY DEF ChildNames

\* create_file on a path that exists finds it taken.
LEMMA ExistsRefines ==
    ASSUME RefInv, CallsSeen, CallsSeen', NEW i \in Slots, NEW d \in Conns,
           fileservers[i].sd = d, CreateExists(i)
    PROVE  Step(d)
<1> DEFINE m == DcpError("EXISTS")
<1>1. Answers(i, m)
      BY DEF Answers, CreateExists, AfterExists, Goto, main, InHandler
<1>2. /\ \A c \in Conns \ {d} : CallOf(c)' = CallOf(c)
      /\ CallOf(d) = CallInside(i)
      /\ CallOf(d)' = IF d \in Gone THEN IdleCall ELSE AnswerCall(m)
      /\ Gone' = Gone
      BY <1>1, AnswerRefines
<1>3. AnswerCall(m) = DoneCall("exists", <<>>)
      BY DEF AnswerCall, DcpError, Message
<1>4. /\ msg[i].kind = "CREATE" /\ msg[i].path \in Names
      /\ CallInside(i) = PendingCall(msg[i])
      BY DEF CreateExists, Goto, RefInv, ServesKind, CallInside, IInv, TreeInv, CreatesName
<1>5. PendingCall(msg[i]) # IdleCall
      BY <1>4 DEF PendingCall, IdleCall
<1>6. Still
      BY <1>2 DEF Still, CreateExists, ChildNames, tree
<1>7. \E k \in DOMAIN ChildNames(Root) : ChildNames(Root)[k] = msg[i].path
      <2>1. nodes \in [NodeIds -> Node]
            BY DEF RefInv, IInv, TypeInv, TypeOK
      <2>2. ~PathFree(msg[i].path)
            BY <1>4, <2>1, FindNodeMisses, SlashIsNoName DEF CreateExists
      <2> QED
            BY <2>2, RootNames DEF PathFree, Children
<1> QED
      BY <1>2, <1>3, <1>4, <1>5, <1>6, <1>7, TakenStep, DiscardStep

\* add_child is where a create takes effect.
LEMMA LinkRefines ==
    ASSUME RefInv, CallsSeen, CallsSeen', NEW i \in Slots, NEW d \in Conns,
           fileservers[i].sd = d, CreateLink(i)
    PROVE  Step(d)
<1> DEFINE kids == nodes[Root].kids
<1>0. /\ nodes \in [NodeIds -> Node] /\ pc \in [Slots -> Pcs]
      BY DEF RefInv, IInv, TypeInv, TypeOK
<1>1. /\ pc[i] = "createLink" /\ pc' = [pc EXCEPT ![i] = "createOwn"]
      /\ UNCHANGED <<link, req, rep, msg, fileservers>>
      BY DEF CreateLink, Goto, env, main
<1>2. pc'[i] = "createOwn" /\ \A j \in Slots \ {i} : pc'[j] = pc[j]
      BY <1>0, <1>1
<1>3. \A c \in Conns \ {d} : CallOf(c)' = CallOf(c)
      BY <1>1, <1>2, OthersStand
<1>4. CallOf(d) = CallInside(i) /\ CallOf(d)' = CallInside(i)'
      <2>1. InHandler(i) /\ InHandler(i)'
            BY <1>1, <1>2 DEF InHandler
      <2> QED
            BY <1>1, <2>1 DEF CallsSeen
<1>5. /\ CallOf(d) = PendingCall(msg[i])
      /\ CallOf(d)' = DoneCall("ok", <<msg[i].path>>)
      BY <1>1, <1>2, <1>4 DEF CallInside
<1>6. /\ msg[i].kind = "CREATE" /\ msg[i].path \in Names /\ PathFree(msg[i].path)
      /\ nodes[node[i]].name = msg[i].path
      BY <1>1 DEF RefInv, ServesKind, IInv, TreeInv, CreatesName, InsertionsReady, Inserting,
                  CreatePcs
<1>7. \A k \in DOMAIN ChildNames(Root) : ChildNames(Root)[k] # msg[i].path
      BY <1>6, RootNames DEF PathFree, Children
<1>8. ChildNames(Root)' = Append(ChildNames(Root), msg[i].path)
      <2>1. /\ nodes'[Root].kids = Append(kids, node[i])
            /\ node[i] \in NodeIds
            /\ \A n \in NodeIds : nodes'[n].name = nodes[n].name
            BY CreateLinkAppends DEF RefInv
      <2>2. /\ Len(kids) \in Nat /\ DOMAIN kids = 1..Len(kids)
            /\ \A k \in DOMAIN kids : kids[k] \in NodeIds
            BY <1>0, RootKids
      <2>3. /\ DOMAIN Append(kids, node[i]) = 1..(Len(kids) + 1)
            /\ \A k \in 1..Len(kids) : Append(kids, node[i])[k] = kids[k]
            /\ Append(kids, node[i])[Len(kids) + 1] = node[i]
            BY <1>0, <2>1, RootKids
      <2>4. ChildNames(Root)' =
                [k \in 1..(Len(kids) + 1) |->
                     IF k = Len(kids) + 1 THEN msg[i].path ELSE nodes[kids[k]].name]
            <3> HIDE DEF kids
            <3>1. ChildNames(Root)' =
                      [k \in 1..(Len(kids) + 1) |-> nodes'[nodes'[Root].kids[k]].name]
                  BY <2>1, <2>3 DEF ChildNames
            <3>2. ASSUME NEW k \in 1..(Len(kids) + 1)
                  PROVE  nodes'[nodes'[Root].kids[k]].name =
                             IF k = Len(kids) + 1 THEN msg[i].path ELSE nodes[kids[k]].name
                  BY <1>6, <2>1, <2>2, <2>3
            <3> QED
                  BY <3>1, <3>2
      <2>5. ChildNames(Root) = [k \in 1..Len(kids) |-> nodes[kids[k]].name]
            BY <2>2 DEF ChildNames
      <2> HIDE DEF kids
      <2>6. /\ ChildNames(Root) \in Seq(Names \cup {Slash})
            /\ Len(ChildNames(Root)) = Len(kids)
            <3>1. \A k \in 1..Len(kids) : nodes[kids[k]].name \in Names \cup {Slash}
                  BY <1>0, <2>2 DEF Node
            <3> QED
                  BY <2>2, <2>5, <3>1
      <2>7. Append(ChildNames(Root), msg[i].path) =
                [k \in 1..(Len(kids) + 1) |->
                     IF k = Len(kids) + 1 THEN msg[i].path ELSE ChildNames(Root)[k]]
            BY <1>6, <2>6, AppendProperties, SMT
      <2> QED
            BY <2>2, <2>4, <2>5, <2>7
<1>9. Gone' = Gone
      BY <1>1 DEF Gone
<1> QED
      BY <1>3, <1>5, <1>6, <1>7, <1>8, <1>9, CreateStep

\* The answer to a create says what was created.
LEMMA OwnRefines ==
    ASSUME RefInv, CallsSeen, CallsSeen', NEW i \in Slots, NEW d \in Conns,
           fileservers[i].sd = d, CreateOwn(i)
    PROVE  Stutter \/ Step(d)
<1> DEFINE m == FileInfo(<<nodes[node[i]].name>>)
<1>0. nodes \in [NodeIds -> Node]
      BY DEF RefInv, IInv, TypeInv, TypeOK
<1>1. Answers(i, m)
      BY DEF Answers, CreateOwn, Goto, main, InHandler
<1>2. /\ \A c \in Conns \ {d} : CallOf(c)' = CallOf(c)
      /\ CallOf(d) = CallInside(i)
      /\ CallOf(d)' = IF d \in Gone THEN IdleCall ELSE AnswerCall(m)
      /\ Gone' = Gone
      BY <1>1, AnswerRefines
<1>3. nodes[node[i]].name = msg[i].path /\ CallOf(d) = DoneCall("ok", <<msg[i].path>>)
      BY <1>2 DEF CreateOwn, Goto, RefInv, NodesNamed, CallInside
<1>4. AnswerCall(m) = DoneCall("ok", <<msg[i].path>>)
      BY <1>3 DEF AnswerCall, FileInfo, Message
<1>5. UNCHANGED ChildNames(Root)
      <2>1. nodes' = [nodes EXCEPT ![node[i]].fileserv = i]
            BY DEF CreateOwn
      <2>2. \A n \in NodeIds :
                nodes'[n].name = nodes[n].name /\ nodes'[n].kids = nodes[n].kids
            BY <1>0, <2>1 DEF Node
      <2>3. \A k \in DOMAIN nodes[Root].kids : nodes[Root].kids[k] \in NodeIds
            BY <1>0, RootKids
      <2> QED
            BY <2>2, <2>3, BoundsFacts DEF ChildNames
<1>6. CallOf(d) # IdleCall
      BY <1>3 DEF DoneCall, IdleCall
<1>7. CallOf(d)' = CallOf(d) => UNCHANGED CallMap
      BY <1>2 DEF CallMap
<1> QED
      BY <1>2, <1>3, <1>4, <1>5, <1>6, <1>7, DiscardStep DEF Stutter, Still

\* The other steps of a thread change no call.
LEMMA QuietThread ==
    ASSUME RefInv, CallsSeen, CallsSeen', NEW i \in Slots, NEW d \in Conns,
           fileservers[i].sd = d, UNCHANGED <<ChildNames(Root), link, rep, fileservers>>,
           \A j \in Slots \ {i} : pc'[j] = pc[j] /\ msg'[j] = msg[j],
           \A c \in Conns \ {d} : req'[c] = req[c],
           CallOf(d)' = CallOf(d)
    PROVE  Stutter
<1>1. \A c \in Conns \ {d} : CallOf(c)' = CallOf(c)
      BY OthersStand
<1> QED
      BY <1>1 DEF Stutter, CallMap, Gone

\* Reading a request hands its call to the thread.
LEMMA ReceiveRefines ==
    ASSUME RefInv, CallsSeen, CallsSeen', NEW i \in Slots, NEW d \in Conns,
           fileservers[i].sd = d, ReceiveRequest(i)
    PROVE  Stutter
<1>0. /\ req \in [Conns -> Requests] /\ pc \in [Slots -> Pcs] /\ msg \in [Slots -> Requests]
      BY DEF RefInv, IInv, TypeInv, TypeOK
<1>1. /\ pc[i] = "recv" /\ req[d].kind \in DcpRequests
      /\ msg' = [msg EXCEPT ![i] = req[d]] /\ req' = [req EXCEPT ![d] = NoRequest]
      /\ pc' = [pc EXCEPT ![i] = Handler(req[d].kind)]
      /\ UNCHANGED <<ChildNames(Root), link, rep, fileservers>>
      BY DEF ReceiveRequest, main, tree, ChildNames
<1>2. /\ pc'[i] = Handler(req[d].kind) /\ msg'[i] = req[d]
      /\ \A j \in Slots \ {i} : pc'[j] = pc[j] /\ msg'[j] = msg[j]
      /\ \A c \in Conns \ {d} : req'[c] = req[c]
      BY <1>0, <1>1
<1>3. Handler(req[d].kind) \notin {"unborn", "recv", "exited", "createOwn"}
      BY <1>1 DEF Handler, DcpRequests
<1>4. CallOf(d)' = PendingCall(req[d])
      <2>1. CallOf(d)' = CallInside(i)'
            BY <1>1, <1>2, <1>3 DEF CallsSeen, InHandler
      <2> QED
            BY <1>2, <1>3, <2>1 DEF CallInside
<1>5. CallOf(d) = PendingCall(req[d])
      <2>1. \A j \in Slots : fileservers[j].sd = d => ~InHandler(j)
            BY <1>1 DEF RefInv, TurnInv, AtThread, InHandler, DcpRequests, NoRequest
      <2>2. CallOf(d) = CallShown(d)
            BY <2>1 DEF CallsSeen
      <2>3. rep[d] = NoReply
            BY <1>1 DEF RefInv, TurnInv, AtServer, DcpRequests, NoRequest
      <2> QED
            BY <2>2, <2>3 DEF CallShown, NoReply, Message
<1> QED
      BY <1>1, <1>2, <1>4, <1>5, QuietThread

\* Moving on inside a handler, before add_child, leaves the call pending.
LEMMA HandlerRefines ==
    ASSUME RefInv, CallsSeen, CallsSeen', NEW i \in Slots, NEW d \in Conns,
           fileservers[i].sd = d, UNCHANGED <<ChildNames(Root), env, main, msg>>,
           InHandler(i), pc[i] # "createOwn",
           NEW to \in Pcs \ {"unborn", "recv", "exited", "createOwn"},
           pc' = [pc EXCEPT ![i] = to]
    PROVE  Stutter
<1>1. pc'[i] = to /\ \A j \in Slots \ {i} : pc'[j] = pc[j]
      BY DEF RefInv, IInv, TypeInv, TypeOK
<1>2. CallOf(d)' = CallOf(d)
      <2>1. CallOf(d) = CallInside(i) /\ CallOf(d)' = CallInside(i)'
            BY <1>1 DEF CallsSeen, InHandler, main
      <2> QED
            BY <1>1, <2>1 DEF CallInside
<1> QED
      BY <1>1, <1>2, QuietThread DEF env, main

\* A thread's step is one step of the namespace, or none.
LEMMA ThreadRefines ==
    ASSUME RefInv, CallsSeen, CallsSeen', NEW i \in Slots, ThreadStep(i)
    PROVE  Stutter \/ \E c \in Conns : Step(c)
<1>0. /\ nodes \in [NodeIds -> Node] /\ pc \in [Slots -> Pcs]
      BY DEF RefInv, IInv, TypeInv, TypeOK
<1>1. pc[i] # "unborn"
      BY DEF ThreadStep, ThreadExits, ReceiveRequest, ReadLock, ReadList, ReplicasLock,
             ReplicasFind, CreateLock, CreateExists, CreateAbsent, CreateAdd, CreateWalk,
             CreateLink, CreateOwn, UpdateUnlock, UpdateFind, UpdateMiss, UpdateSet,
             LockDirectory, Goto
<1>2. PICK d \in Conns : fileservers[i].sd = d
      BY <1>1 DEF RefInv, IInv, TypeInv, Registration
<1>3. CASE ThreadExits(i)
      <2>1. UNCHANGED <<ChildNames(Root), req, rep, link, msg>>
            /\ pc[i] = "recv" /\ pc' = [pc EXCEPT ![i] = "exited"]
            BY <1>3 DEF ThreadExits, Goto, env, tree, ChildNames
      <2>2. UNCHANGED fileservers
            BY <1>3 DEF ThreadExits, SlotAfterExit, RefInv, IInv, TypeInv, TypeOK
      <2>3. pc'[i] = "exited" /\ \A j \in Slots \ {i} : pc'[j] = pc[j]
            BY <1>0, <2>1
      <2>4. \A c \in Conns : CallOf(c)' = CallOf(c)
            BY <2>1, <2>2, <2>3, SameCall DEF InHandler, CallInside
      <2> QED
            BY <2>1, <2>4 DEF Stutter, CallMap, Gone
<1>4. CASE ReadLock(i) \/ ReplicasLock(i) \/ CreateLock(i) \/ CreateAbsent(i) \/ CreateWalk(i)
      <2>1. /\ UNCHANGED <<ChildNames(Root), env, main, msg>>
            /\ InHandler(i) /\ pc[i] # "createOwn"
            /\ \E to \in Pcs \ {"unborn", "recv", "exited", "createOwn"} :
                   pc' = [pc EXCEPT ![i] = to]
            BY <1>4
            DEF ReadLock, ReplicasLock, CreateLock, CreateAbsent, CreateWalk, LockDirectory,
                Goto, tree, ChildNames, InHandler, Pcs, CriticalPcs, CreatePcs
      <2> QED
            BY <1>2, <2>1, HandlerRefines
<1>5. CASE CreateAdd(i)
      <2>1. UNCHANGED ChildNames(Root)
            <3>1. /\ nodecnt \in Nat
                  /\ nodes' = [nodes EXCEPT ![nodecnt + 1] =
                                   [name |-> msg[i].path, fileserv |-> NIL, kids |-> <<>>]]
                  BY <1>5 DEF CreateAdd, RefInv, IInv, TypeInv, TypeOK, NodeIds
            <3>2. Children \subseteq 2..nodecnt
                  BY DEF RefInv, IInv, TreeInv, EveryNodeHeld
            <3>3. /\ nodes'[Root] = nodes[Root]
                  /\ \A n \in 2..nodecnt : nodes'[n] = nodes[n]
                  BY <1>0, <1>5, <3>1, BoundsFacts
                  DEF Root, RefInv, IInv, TypeInv, TypeOK, NodeIds
            <3> QED
                  BY <3>2, <3>3 DEF ChildNames, Children
      <2>2. /\ UNCHANGED <<env, main, msg>>
            /\ InHandler(i) /\ pc[i] # "createOwn" /\ pc' = [pc EXCEPT ![i] = "createWalk"]
            /\ "createWalk" \in Pcs \ {"unborn", "recv", "exited", "createOwn"}
            BY <1>5 DEF CreateAdd, Goto, InHandler, Pcs, CriticalPcs, CreatePcs
      <2> QED
            BY <1>2, <2>1, <2>2, HandlerRefines
<1>6. ~(UpdateUnlock(i) \/ UpdateFind(i) \/ UpdateMiss(i) \/ UpdateSet(i))
      BY DEF UpdateUnlock, UpdateFind, UpdateMiss, UpdateSet, Goto, RefInv, IInv, LockInv,
             NoUpdate, UpdatePcs
<1> QED
      BY <1>2, <1>3, <1>4, <1>5, <1>6, ReceiveRefines, ReadRefines, ReplicasRefine,
         ExistsRefines, LinkRefines, OwnRefines
      DEF ThreadStep

\* Every step of the directory is one of the namespace service or none.
LEMMA NextRefines ==
    ASSUME RefInv, RefInv', [Next]_vars
    PROVE  [NS!NNext]_(NS!nvars)
<1>1. CallsSeen /\ CallsSeen'
      BY CallsAreSeen, CallsStaySeen
<1>2. \A c \in Conns : req'[c].kind # "UPDATE"
      BY DEF RefInv, IInv, LockInv, NoUpdate
<1>3. CASE UNCHANGED vars
      <2>1. Stutter
            BY <1>3 DEF vars, Stutter, CallMap, Gone, CallOf, Serving, ChildNames
      <2> QED
            BY <2>1, StepsRefine
<1> QED
      BY <1>1, <1>2, <1>3, MainRefines, ServerRefines, ThreadRefines, StepsRefine DEF Next

\* At the start nothing is listed and no call is made.
LEMMA InitRefines == Init => NS!NInit
<1> SUFFICES ASSUME Init PROVE NS!NInit
    OBVIOUS
<1>1. ChildNames(Root) = <<>>
      BY BoundsFacts DEF Init, FreeNode, ChildNames
<1>2. ASSUME NEW c \in Conns PROVE CallOf(c) = IdleCall
      <2>1. Serving(c) = {}
            BY DEF Init, Serving, LockPcs, CriticalPcs, CreatePcs
      <2>2. rep[c] = NoReply /\ req[c] = NoRequest
            BY DEF Init
      <2> QED
            BY <2>1, <2>2 DEF CallOf, NoReply, Message, NoRequest, PendingCall
<1>3. {c \in Conns : link[c] = "dead"} = {}
      BY DEF Init
<1> QED
      BY <1>1, <1>2, <1>3 DEF NS!NInit, NS!Idle, IdleCall

\* Concurrent CREATE and READ requests behave as if each ran alone at one
\* instant, for any number of slots, connections, names and nodes, also when
\* file servers end while their requests run (create_file, read_dir).
THEOREM ImplementsNamespaceHolds ==
    ASSUME "UPDATE" \notin Kinds
    PROVE  Spec => ImplementsNamespace
<1>1. Init => RefInv
      <2>1. Init => ServesKind /\ NodesNamed
            BY DEF Init, ServesKind, NodesNamed, CreatePcs
      <2> QED
            BY <2>1, InitTypeInv, InitLockInv, InitTreeInv, InitTurnInv DEF IInv, RefInv
<1>2. RefInv /\ [Next]_vars => RefInv'
      BY NextIInv, NextTurnInv, NextServesKind, NextNodesNamed DEF RefInv, IInv
<1>3. RefInv /\ RefInv' /\ [Next]_vars => [NS!NNext]_(NS!nvars)
      BY NextRefines
<1> QED
      BY <1>1, <1>2, <1>3, InitRefines, PTL DEF Spec, ImplementsNamespace, NS!NSpec
=============================================================================
