------------------------------ MODULE Directory ------------------------------
(* The directory server (src/fsdird.c): the accept loop that registers file  *)
(* servers, one thread per registered file server, and the directory tree    *)
(* the threads share under one mutex, dirlock.  The file servers appear as   *)
(* DCP connections: what fsservd.c and dcp.c do on their side of one.        *)
(*                                                                           *)
(* A connection is one run of a file server process; a restarted server is a *)
(* new connection.  Paths are the one-level paths the client accepts: the    *)
(* name stands for "/name", Slash for "/" and for the empty string, which    *)
(* dir_find_node both resolves to the root.                                  *)
EXTENDS Integers, Sequences, FiniteSets, Tables

CONSTANTS
    Names,          \* names of files
    Slash,          \* the name of the root
    Kinds,          \* the DCP requests file servers send
    MaxFservers,    \* MAX_FSERVERS, the size of fileservers[]
    MaxConns,       \* bound: connections opened over the whole behaviour
    MaxNodes        \* bound: nodes allocated over the whole behaviour

DcpRequests == {"READ", "CREATE", "UPDATE", "GET_REPLICAS"}

ASSUME SlashIsNoName == Slash \notin Names
ASSUME KindsAreRequests == Kinds \subseteq DcpRequests
ASSUME BoundsAreNaturals ==
    /\ MaxFservers \in Nat \ {0}
    /\ MaxConns \in Nat
    /\ MaxNodes \in Nat \ {0}

Slots   == 1..MaxFservers
Conns   == 1..MaxConns
NodeIds == 1..MaxNodes
Root    == 1
NIL     == 0

VARIABLES
    \* the file servers and the network
    nconn,          \* connections opened so far
    link,           \* what the file server at the other end is doing
    req,            \* the message it sent that the directory has not read
    rep,            \* the message the directory sent that it has not read
    \* the main thread
    lastsid,        \* also the connection the next accept() returns
    fsrvcnt,
    fileservers,
    mainpc,
    fsrvinfo,       \* the slot being greeted
    \* the threads, one per slot
    pc,
    msg,            \* the request being served
    node,           \* create_file: n;      update_file: n
    parent,         \* add_node: p
    tail,           \* add_child: i, NIL when p has no children
    \* shared by the threads
    dirlock,        \* the slot whose thread locked it last, or NIL
    nodecnt,
    nodes           \* struct node: children is the list of the child nodes

env    == <<nconn, link, req, rep>>
main   == <<lastsid, fsrvcnt, fileservers, mainpc, fsrvinfo>>
thread == <<pc, msg, node, parent, tail>>
tree   == <<nodecnt, nodes>>
vars   == <<nconn, link, req, rep, lastsid, fsrvcnt, fileservers, mainpc,
            fsrvinfo, pc, msg, node, parent, tail, dirlock, nodecnt, nodes>>

-----------------------------------------------------------------------------
(* Messages.  Ids, transaction ids and user names are left out: the         *)
(* directory never looks at them, and a server has one request at a time.   *)

NoRequest   == [kind |-> "NONE", path |-> Slash]
Hello       == [kind |-> "HELLO", path |-> Slash]

Message(kind, names, errn, server) ==
    [kind |-> kind, names |-> names, errn |-> errn, server |-> server]

NoReply          == Message("NONE", <<>>, "OK", NIL)
HelloResponse    == Message("HELLO_RESPONSE", <<>>, "OK", NIL)
FileInfo(names)  == Message("FILEINFO", names, "OK", NIL)
DcpError(errn)   == Message("ERROR", <<>>, errn, NIL)
ReplicaStatus(s) == Message("REPLICA_STATUS", <<>>, "OK", s)

Requests == [kind : DcpRequests \cup {"NONE", "HELLO"}, path : Names \cup {Slash}]
Replies  == [kind : {"NONE", "HELLO_RESPONSE", "FILEINFO", "ERROR", "REPLICA_STATUS"},
             names : Seq(Names \cup {Slash}),
             errn : {"OK", "EXISTS", "FILENOTFOUND"},
             server : Slots \cup {NIL}]

LinkStates == {"none", "connected", "greeting", "idle", "waiting", "refused", "dead"}
Live       == {"connected", "greeting", "idle", "waiting"}

LockPcs     == {"readLock", "replicasLock", "createLock"}
CreatePcs   == {"createAdd", "createWalk", "createLink", "createOwn"}
CriticalPcs == {"readList", "replicasFind", "createCheck"} \cup CreatePcs
UpdatePcs   == {"updateUnlock", "updateFind", "updateMiss", "updateSet"}
Pcs         == {"unborn", "recv", "exited"} \cup LockPcs \cup CriticalPcs \cup UpdatePcs

Node     == [name : Names \cup {Slash}, fileserv : Slots \cup {NIL}, kids : Seq(NodeIds)]
FreeNode == [name |-> Slash, fileserv |-> NIL, kids |-> <<>>]

-----------------------------------------------------------------------------
Init ==
    /\ nconn = 0
    /\ link = [c \in Conns |-> "none"]
    /\ req = [c \in Conns |-> NoRequest]
    /\ rep = [c \in Conns |-> NoReply]
    /\ lastsid = 1
    /\ fsrvcnt = 0
    /\ fileservers = [i \in Slots |-> [id |-> 0, sd |-> 0]]
    /\ mainpc = "accept"
    /\ fsrvinfo = NIL
    /\ pc = [i \in Slots |-> "unborn"]
    /\ msg = [i \in Slots |-> NoRequest]
    /\ node = [i \in Slots |-> NIL]
    /\ parent = [i \in Slots |-> NIL]
    /\ tail = [i \in Slots |-> NIL]
    /\ dirlock = NIL
    /\ nodecnt = 1
    /\ nodes = [n \in NodeIds |-> FreeNode]    \* nodes[Root]: dir_init()

-----------------------------------------------------------------------------
(* The file servers.                                                        *)

Connect ==
    /\ nconn < MaxConns
    /\ nconn' = nconn + 1
    /\ link' = [link EXCEPT ![nconn + 1] = "connected"]
    /\ UNCHANGED <<req, rep, main, thread, dirlock, tree>>

SendHello(c) ==
    /\ link[c] = "connected"
    /\ link' = [link EXCEPT ![c] = "greeting"]
    /\ req' = [req EXCEPT ![c] = Hello]
    /\ UNCHANGED <<nconn, rep, main, thread, dirlock, tree>>

ReceiveHelloResponse(c) ==
    /\ link[c] = "greeting"
    /\ rep[c].kind = "HELLO_RESPONSE"
    /\ link' = [link EXCEPT ![c] = "idle"]
    /\ rep' = [rep EXCEPT ![c] = NoReply]
    /\ UNCHANGED <<nconn, req, main, thread, dirlock, tree>>

PendingCreates ==
    Cardinality({c \in Conns : req[c].kind = "CREATE"})
    + Cardinality({i \in Slots : pc[i] \in {"createLock", "createCheck", "createAdd"}})

SendRequest(c, kind, path) ==
    /\ kind \in Kinds
    /\ link[c] = "idle"
    /\ kind = "CREATE" => nodecnt + PendingCreates < MaxNodes
    /\ link' = [link EXCEPT ![c] = "waiting"]
    /\ req' = [req EXCEPT ![c] = [kind |-> kind, path |-> path]]
    /\ UNCHANGED <<nconn, rep, main, thread, dirlock, tree>>

\* list_directory asks for the path the client sends, which is always "/";
\* ask_file for the empty string, whatever file it is called for.
ListDirectory(c) == SendRequest(c, "READ", Slash)
CreateFile(c)    == \E path \in Names : SendRequest(c, "CREATE", path)
WriteFile(c)     == \E path \in Names : SendRequest(c, "UPDATE", path)
AskFile(c)       == SendRequest(c, "GET_REPLICAS", Slash)

ReceiveReply(c) ==
    /\ link[c] = "waiting"
    /\ rep[c] # NoReply
    /\ link' = [link EXCEPT ![c] = "idle"]
    /\ rep' = [rep EXCEPT ![c] = NoReply]
    /\ UNCHANGED <<nconn, req, main, thread, dirlock, tree>>

\* A file server process exits or is killed (a failed system call ends it,
\* see syscallerr).  What it sent before stays readable for the directory.
Crash(c) ==
    /\ link[c] \in Live
    /\ link' = [link EXCEPT ![c] = "dead"]
    /\ rep' = [rep EXCEPT ![c] = NoReply]
    /\ UNCHANGED <<nconn, req, main, thread, dirlock, tree>>

\* fsmsg_send() to the peer of connection c; a message to a peer that is gone
\* is lost, and the sender does not learn it: the write itself succeeds.
Deliver(c, m) == rep' = [rep EXCEPT ![c] = IF link[c] = "dead" THEN NoReply ELSE m]

-----------------------------------------------------------------------------
(* The main thread: do_dcp_server.                                          *)

FreeSlots == {i \in Slots : fileservers[i].id = 0}

\* Faulty: the search of register_client in fsservd.c, which returns the
\* index past the table when no slot is free.
SlotOrPastTable == IF FreeSlots = {} THEN MaxFservers + 1 ELSE Smallest(FreeSlots)

\* Faulty: the table is taken to be full one registration early.
SlotBelowLimit ==
    IF lastsid = 0 \/ fsrvcnt + 1 >= MaxFservers \/ FreeSlots = {}
    THEN NIL ELSE Smallest(FreeSlots)

\* register_fsrv: the slot to use, or NIL when the server is turned away.
\* fsrvcnt counts registrations and is never decremented.
RegisteredSlot ==
    IF lastsid = 0 \/ fsrvcnt > MaxFservers \/ FreeSlots = {}
    THEN NIL ELSE Smallest(FreeSlots)

\* accept() returns the oldest connection; nextsid() ran at the top of the
\* loop, so the n-th connection gets the id n.
AcceptFileServer ==
    /\ mainpc = "accept"
    /\ lastsid <= nconn
    /\ RegisteredSlot # NIL
    /\ fileservers' = [fileservers EXCEPT ![RegisteredSlot] =
                           [id |-> lastsid, sd |-> lastsid]]
    /\ fsrvcnt' = fsrvcnt + 1
    /\ fsrvinfo' = RegisteredSlot
    /\ mainpc' = "hello"
    /\ UNCHANGED <<env, lastsid, thread, dirlock, tree>>

RefuseFileServer ==
    /\ mainpc = "accept"
    /\ lastsid <= nconn
    /\ RegisteredSlot = NIL
    /\ link' = [link EXCEPT ![lastsid] = IF @ = "dead" THEN "dead" ELSE "refused"]
    /\ lastsid' = lastsid + 1
    /\ UNCHANGED <<nconn, req, rep, fsrvcnt, fileservers, mainpc, fsrvinfo,
                   thread, dirlock, tree>>

\* dcp_accept returns 0: answer the hello and start the thread.
GreetFileServer ==
    LET c == fileservers[fsrvinfo].sd IN
    /\ mainpc = "hello"
    /\ req[c] = Hello
    /\ req' = [req EXCEPT ![c] = NoRequest]
    /\ Deliver(c, HelloResponse)
    /\ pc' = [pc EXCEPT ![fsrvinfo] = "recv"]
    /\ mainpc' = "accept"
    /\ lastsid' = lastsid + 1
    /\ UNCHANGED <<nconn, link, fsrvcnt, fileservers, fsrvinfo,
                   msg, node, parent, tail, dirlock, tree>>

\* The end of the stream: nothing left to read from a peer that is gone.
AtEof(c) == req[c] = NoRequest /\ link[c] = "dead"

\* Faulty: the main thread waits for another hello on the same socket.
GreetAgain ==
    /\ mainpc = "hello"
    /\ AtEof(fileservers[fsrvinfo].sd)
    /\ UNCHANGED vars

\* dcp_accept fails: the socket is closed, the slot stays taken.
GreetFails ==
    /\ mainpc = "hello"
    /\ AtEof(fileservers[fsrvinfo].sd)
    /\ mainpc' = "accept"
    /\ lastsid' = lastsid + 1
    /\ UNCHANGED <<env, fsrvcnt, fileservers, fsrvinfo, thread, dirlock, tree>>

MainThread == AcceptFileServer \/ RefuseFileServer \/ GreetFileServer \/ GreetFails

-----------------------------------------------------------------------------
(* The threads: serve_fileserver.                                           *)

Goto(i, from, to) == pc[i] = from /\ pc' = [pc EXCEPT ![i] = to]

Reply(i, m) == Deliver(fileservers[i].sd, m)

\* The locals of a handler end with it.
DropLocals(i) ==
    /\ node' = [node EXCEPT ![i] = NIL]
    /\ parent' = [parent EXCEPT ![i] = NIL]
    /\ tail' = [tail EXCEPT ![i] = NIL]

Handler(kind) ==
    CASE kind = "READ"         -> "readLock"
      [] kind = "CREATE"       -> "createLock"
      [] kind = "UPDATE"       -> "updateUnlock"
      [] kind = "GET_REPLICAS" -> "replicasLock"

ReceiveRequest(i) ==
    LET c == fileservers[i].sd IN
    /\ pc[i] = "recv"
    /\ req[c].kind \in DcpRequests
    /\ msg' = [msg EXCEPT ![i] = req[c]]
    /\ req' = [req EXCEPT ![c] = NoRequest]
    /\ pc' = [pc EXCEPT ![i] = Handler(req[c].kind)]
    /\ UNCHANGED <<nconn, link, rep, main, node, parent, tail, dirlock, tree>>

\* Faulty: the thread frees its slot when it returns.
SlotFreed(i) == [id |-> 0, sd |-> 0]

\* The thread returns; the slot keeps its id.
SlotAfterExit(i) == fileservers[i]

ThreadExits(i) ==
    /\ Goto(i, "recv", "exited")
    /\ AtEof(fileservers[i].sd)
    /\ fileservers' = [fileservers EXCEPT ![i] = SlotAfterExit(i)]
    /\ UNCHANGED <<env, lastsid, fsrvcnt, mainpc, fsrvinfo, msg, node, parent,
                   tail, dirlock, tree>>

\* pthread_mutex_lock and pthread_mutex_unlock on the default kind of mutex:
\* locking blocks whoever holds it, its owner too; unlocking frees it,
\* whoever holds it.
Lock(i) == dirlock = NIL /\ dirlock' = i
Unlock(i) == dirlock' = NIL

\* dir_find_node
ChildNamed(p, name) ==
    LET kids == nodes[p].kids
        hits == {k \in DOMAIN kids : nodes[kids[k]].name = name}
    IN  IF hits = {} THEN NIL ELSE kids[Smallest(hits)]

\* Faulty: a lookup that compares only the first child.
FindNodeHead(path) ==
    IF path = Slash THEN Root
    ELSE LET kids == nodes[Root].kids
         IN  IF kids # <<>> /\ nodes[kids[1]].name = path THEN kids[1] ELSE NIL

FindNode(path) == IF path = Slash THEN Root ELSE ChildNamed(Root, path)

\* strtok keeps its place in a static variable: a lookup that runs while
\* another thread is in one can lose its place, after the last name it
\* matched, and then finds nothing.  The root is found without that place.
LookupPcs == {"readList", "replicasFind", "createCheck", "createAdd", "updateFind"}
Disturbed(i) == \E j \in Slots \ {i} : pc[j] \in LookupPcs
Found(i, path) ==
    {FindNode(path)} \cup IF Disturbed(i) /\ path # Slash THEN {NIL} ELSE {}

\* dir_find_node(path, 0): the deepest node on the path that exists.
FindParent(path) == IF FindNode(path) = NIL THEN Root ELSE FindNode(path)

ChildNames(p) == [k \in DOMAIN nodes[p].kids |-> nodes[nodes[p].kids[k]].name]

LockDirectory(i, from, to) ==
    /\ Goto(i, from, to)
    /\ Lock(i)
    /\ UNCHANGED <<env, main, msg, node, parent, tail, tree>>

\* Faulty: create_file without pthread_mutex_lock.
CreateLockMissing(i) ==
    /\ Goto(i, "createLock", "createCheck")
    /\ UNCHANGED <<env, main, msg, node, parent, tail, dirlock, tree>>

ReadLock(i)     == LockDirectory(i, "readLock", "readList")
CreateLock(i)   == LockDirectory(i, "createLock", "createCheck")
ReplicasLock(i) == LockDirectory(i, "replicasLock", "replicasFind")

\* read_dir: copy the names, unlock, send.
ReadList(i) ==
    /\ Goto(i, "readList", "recv")
    /\ Reply(i, FileInfo(ChildNames(FindNode(msg[i].path))))
    /\ Unlock(i)
    /\ UNCHANGED <<nconn, link, req, main, msg, node, parent, tail, tree>>

\* Faulty: no response when the file has no storer.
ReplicaAnswerOrNone(n) ==
    IF n # NIL /\ nodes[n].fileserv # NIL
    THEN ReplicaStatus(nodes[n].fileserv) ELSE NoReply

\* replica_status: the answer goes out before the unlock at "done".
ReplicaAnswer(n) ==
    IF n # NIL /\ nodes[n].fileserv # NIL
    THEN ReplicaStatus(nodes[n].fileserv) ELSE DcpError("FILENOTFOUND")

\* Faulty: "goto done" lands behind the unlock.
NoUnlock(i) == UNCHANGED dirlock

ReplicasUnlock(i) == Unlock(i)

ReplicasFind(i) ==
    /\ Goto(i, "replicasFind", "recv")
    /\ Reply(i, ReplicaAnswer(FindNode(msg[i].path)))
    /\ ReplicasUnlock(i)
    /\ UNCHANGED <<nconn, link, req, main, msg, node, parent, tail, tree>>

\* create_file, the path is free: go on to add_node.
CreateAbsent(i) ==
    /\ NIL \in Found(i, msg[i].path)
    /\ Goto(i, "createCheck", "createAdd")
    /\ UNCHANGED <<env, main, msg, node, parent, tail, dirlock, tree>>

\* Faulty: the error goes out but the return is missing.
FallThrough == "createAdd"

\* create_file, the path is taken: the error goes out and the handler
\* returns.  It does not unlock dirlock.
AfterExists == "recv"

CreateExists(i) ==
    /\ FindNode(msg[i].path) # NIL
    /\ Goto(i, "createCheck", AfterExists)
    /\ Reply(i, DcpError("EXISTS"))
    /\ UNCHANGED <<nconn, link, req, main, msg, node, parent, tail, dirlock, tree>>

\* add_node: allocate and name the node, find its parent.
CreateAdd(i) ==
    /\ nodecnt < MaxNodes
    /\ Goto(i, "createAdd", "createWalk")
    /\ nodecnt' = nodecnt + 1
    /\ nodes' = [nodes EXCEPT ![nodecnt + 1] =
                     [name |-> msg[i].path, fileserv |-> NIL, kids |-> <<>>]]
    /\ node' = [node EXCEPT ![i] = nodecnt + 1]
    /\ parent' = [parent EXCEPT ![i] = FindParent(msg[i].path)]
    /\ UNCHANGED <<env, main, msg, tail, dirlock>>

\* add_child: walk to the last child,
CreateWalk(i) ==
    LET kids == nodes[parent[i]].kids IN
    /\ Goto(i, "createWalk", "createLink")
    /\ tail' = [tail EXCEPT ![i] = IF kids = <<>> THEN NIL ELSE kids[Len(kids)]]
    /\ UNCHANGED <<env, main, msg, node, parent, dirlock, tree>>

\* Faulty: the new node replaces the list, or becomes its head.
LinkOnly(kids, last, n)   == <<n>>
LinkAtHead(kids, last, n) == <<n>> \o kids

\* and make the new node the next of that child, or the head.  Writing the
\* next of a child that is no longer the last cuts off those behind it;
\* writing the next of a child that was cut off itself changes no list.
LinkAfter(kids, last, n) ==
    IF last = NIL THEN <<n>>
    ELSE IF \E k \in DOMAIN kids : kids[k] = last
         THEN LET k == CHOOSE k \in DOMAIN kids : kids[k] = last
              IN  Append(SubSeq(kids, 1, k), n)
         ELSE kids

CreateLink(i) ==
    /\ Goto(i, "createLink", "createOwn")
    /\ nodes' = [nodes EXCEPT ![parent[i]].kids = LinkAfter(@, tail[i], node[i])]
    /\ UNCHANGED <<env, main, msg, node, parent, tail, dirlock, nodecnt>>

\* create_file: record the storer, unlock, send the file info.
CreateOwn(i) ==
    /\ Goto(i, "createOwn", "recv")
    /\ nodes' = [nodes EXCEPT ![node[i]].fileserv = i]
    /\ Unlock(i)
    /\ Reply(i, FileInfo(<<nodes[node[i]].name>>))
    /\ DropLocals(i)
    /\ UNCHANGED <<nconn, link, req, main, msg, nodecnt>>

\* update_file starts with pthread_mutex_unlock, not pthread_mutex_lock.
UpdateUnlock(i) ==
    /\ Goto(i, "updateUnlock", "updateFind")
    /\ Unlock(i)
    /\ UNCHANGED <<env, main, msg, node, parent, tail, tree>>

\* serve_fileserver reads the path with SECSDUP, for a string section, but
\* fsservd.c sends a file info section: the length of the string lies over
\* the type byte and padding of the file info.  The path is then empty, the
\* one that was sent, or a wrong one.
UpdateTargets(i) == Found(i, msg[i].path) \cup {Root, NIL}

UpdateFind(i) ==
    /\ \E n \in UpdateTargets(i) :
         /\ node' = [node EXCEPT ![i] = n]
         /\ Goto(i, "updateFind", IF n = NIL THEN "updateMiss" ELSE "updateSet")
    /\ UNCHANGED <<env, main, msg, parent, tail, dirlock, tree>>

UpdateMiss(i) ==
    /\ Goto(i, "updateMiss", "recv")
    /\ Reply(i, DcpError("FILENOTFOUND"))
    /\ Unlock(i)
    /\ DropLocals(i)
    /\ UNCHANGED <<nconn, link, req, main, msg, tree>>

UpdateSet(i) ==
    /\ Goto(i, "updateSet", "recv")
    /\ nodes' = [nodes EXCEPT ![node[i]].fileserv = i]
    /\ Unlock(i)
    /\ Reply(i, FileInfo(<<nodes[node[i]].name>>))
    /\ DropLocals(i)
    /\ UNCHANGED <<nconn, link, req, main, msg, nodecnt>>

ThreadStep(i) ==
    \/ ReceiveRequest(i) \/ ThreadExits(i)
    \/ ReadLock(i) \/ ReadList(i)
    \/ ReplicasLock(i) \/ ReplicasFind(i)
    \/ CreateLock(i) \/ CreateExists(i) \/ CreateAbsent(i) \/ CreateAdd(i)
    \/ CreateWalk(i) \/ CreateLink(i) \/ CreateOwn(i)
    \/ UpdateUnlock(i) \/ UpdateFind(i) \/ UpdateMiss(i) \/ UpdateSet(i)

-----------------------------------------------------------------------------
FileServerStep(c) ==
    \/ SendHello(c) \/ ReceiveHelloResponse(c) \/ ReceiveReply(c) \/ Crash(c)
    \/ ListDirectory(c) \/ CreateFile(c) \/ WriteFile(c) \/ AskFile(c)

Next ==
    \/ Connect
    \/ \E c \in Conns : FileServerStep(c)
    \/ MainThread
    \/ \E i \in Slots : ThreadStep(i)

Spec == Init /\ [][Next]_vars

\* The scheduler runs every thread of the directory that can run; a file
\* server sends its hello as soon as it is connected and reads what it waits
\* for.  Nothing makes a file server connect, send a request or exit.
Fairness ==
    /\ WF_vars(MainThread)
    /\ \A i \in Slots : WF_vars(ThreadStep(i))
    /\ \A c \in Conns : /\ WF_vars(SendHello(c))
                        /\ WF_vars(ReceiveHelloResponse(c))
                        /\ WF_vars(ReceiveReply(c))

FairSpec == Spec /\ Fairness

-----------------------------------------------------------------------------
(* Properties.                                                              *)

Critical(i) == pc[i] \in CriticalPcs

LockLeaked == dirlock # NIL /\ pc[dirlock] \in {"recv", "exited"} \cup LockPcs

\* The type of every variable.
TypeOK ==
    /\ nconn \in 0..MaxConns
    /\ link \in [Conns -> LinkStates]
    /\ req \in [Conns -> Requests]
    /\ rep \in [Conns -> Replies]
    /\ lastsid \in 1..(MaxConns + 1)
    /\ fsrvcnt \in Nat
    /\ fileservers \in [Slots -> [id : 0..MaxConns, sd : 0..MaxConns]]
    /\ mainpc \in {"accept", "hello"}
    /\ fsrvinfo \in Slots \cup {NIL}
    /\ pc \in [Slots -> Pcs]
    /\ msg \in [Slots -> Requests]
    /\ node \in [Slots -> NodeIds \cup {NIL}]
    /\ parent \in [Slots -> NodeIds \cup {NIL}]
    /\ tail \in [Slots -> NodeIds \cup {NIL}]
    /\ dirlock \in Slots \cup {NIL}
    /\ nodecnt \in NodeIds
    /\ nodes \in [NodeIds -> Node]

\* What the type invariant needs to be inductive: a thread belongs to a
\* registered connection that was greeted, a handler in the middle of an
\* insertion has its node and parent, and READ is only sent for the root.
Registration ==
    /\ \A i \in Slots : fileservers[i].id # 0 => fileservers[i].sd \in Conns
    /\ \A i \in Slots : pc[i] # "unborn" => fileservers[i].id # 0
    /\ mainpc = "hello" =>
           /\ fsrvinfo \in Slots
           /\ fileservers[fsrvinfo].id # 0
           /\ pc[fsrvinfo] = "unborn"
           /\ lastsid <= nconn

LocalsSet ==
    \A i \in Slots :
        /\ pc[i] \in {"createWalk", "createLink", "createOwn", "updateSet"}
               => node[i] \in NodeIds
        /\ pc[i] \in {"createWalk", "createLink"} => parent[i] \in NodeIds

ReadsRoot ==
    /\ \A c \in Conns : req[c].kind = "READ" => req[c].path = Slash
    /\ \A i \in Slots : pc[i] \in {"readLock", "readList"} => msg[i].path = Slash

TypeInv == TypeOK /\ Registration /\ LocalsSet /\ ReadsRoot

\* Whoever reads or changes the tree holds dirlock, so that no two threads
\* are in the tree at once (fsdird.c 171-184, 201-225, 259-276).  UPDATE
\* breaks it: update_file unlocks where it should lock.
MutualExclusion == \A i \in Slots : Critical(i) => dirlock = i

\* What makes it inductive when no file server sends UPDATE.
NoUpdate ==
    /\ \A c \in Conns : req[c].kind # "UPDATE"
    /\ \A i \in Slots : pc[i] \notin UpdatePcs

LockInv == NoUpdate /\ MutualExclusion

\* The nodes whose CREATE was answered, or is about to be, with success.
Created == {n \in 2..nodecnt :
               \A i \in Slots : pc[i] \in CreatePcs => node[i] # n}

\* A path is created at most once, whatever servers ask for it at the same
\* time (the check and the insertion of create_file are one atomic step).
CreatedOnce ==
    \A m, n \in Created : nodes[m].name = nodes[n].name => m = n

\* A file whose CREATE succeeded is in the listing: no insertion overwrites
\* the pointer another one just wrote (add_child).
NoLostFile ==
    \A n \in Created : \E k \in DOMAIN nodes[Root].kids : nodes[Root].kids[k] = n

\* What makes CreatedOnce and NoLostFile inductive: the children of the root
\* have different names, every node is one of them or is being inserted, and
\* an insertion that has begun keeps what its lookups found.
Children == {nodes[Root].kids[k] : k \in DOMAIN nodes[Root].kids}
PathFree(path) == \A n \in Children : nodes[n].name # path

LastChild ==
    LET kids == nodes[Root].kids IN IF kids = <<>> THEN NIL ELSE kids[Len(kids)]

CreatesName ==
    /\ \A c \in Conns : req[c].kind = "CREATE" => req[c].path \in Names
    /\ \A i \in Slots : pc[i] \in {"createLock", "createCheck"} \cup CreatePcs
           => msg[i].path \in Names

NamesDiffer ==
    LET kids == nodes[Root].kids IN
    \A j, k \in DOMAIN kids : nodes[kids[j]].name = nodes[kids[k]].name => j = k

Inserting(i) == pc[i] \in {"createWalk", "createLink"}

EveryNodeHeld ==
    /\ Children \subseteq 2..nodecnt
    /\ \A n \in 2..nodecnt :
           n \in Children \/ \E i \in Slots : Inserting(i) /\ node[i] = n

InsertionsReady ==
    \A i \in Slots :
        /\ pc[i] = "createAdd" \/ Inserting(i) => PathFree(msg[i].path)
        /\ Inserting(i) => /\ parent[i] = Root
                           /\ node[i] \in 2..nodecnt
                           /\ nodes[node[i]].name = msg[i].path
        /\ pc[i] = "createLink" => tail[i] = LastChild

TreeInv == CreatesName /\ NamesDiffer /\ EveryNodeHeld /\ InsertionsReady

\* The listing of the root only grows, at its end: what a READ has returned
\* is a prefix of what any later READ returns.
ListingGrows ==
    [][/\ Len(nodes[Root].kids) <= Len(nodes'[Root].kids)
       /\ SubSeq(nodes'[Root].kids, 1, Len(nodes[Root].kids)) = nodes[Root].kids]_vars

\* The only handler that returns to serve_fileserver with dirlock held is
\* CREATE, on its path-exists error: every other path of every handler
\* unlocks.  With UPDATE requests in play too.
LockKeptOnlyByCreate ==
    \A i \in Slots :
        dirlock = i /\ pc[i] \in {"recv", "exited"} => msg[i].kind = "CREATE"

\* A response goes to a server that waits for one, when the thread of that
\* server is done with the request: nobody gets two responses to one request
\* or a response to a request still in progress.
ReplyEndsRequest ==
    \A c \in Conns : rep[c] # NoReply =>
        /\ link[c] \in {"greeting", "waiting"}
        /\ req[c] = NoRequest
        /\ \A i \in Slots : fileservers[i].sd = c => pc[i] = "recv"

\* The storer of every node is a registered file server that was greeted:
\* replica_status never reads the address of a slot that is empty or being
\* filled for another server.
StorersRegistered ==
    \A n \in NodeIds : LET i == nodes[n].fileserv IN
        i # NIL => fileservers[i].id # 0 /\ pc[i] # "unborn"

\* A server is turned away only when every slot was given out, and the count
\* of registrations is the number of taken slots.
RefusedWhenFull ==
    /\ fsrvcnt = Cardinality({i \in Slots : fileservers[i].id # 0})
    /\ (\E c \in Conns : link[c] = "refused") => FreeSlots = {}

\* Every file server that connects is greeted, turned away or gone: neither
\* a leaked dirlock nor a server that dies before its hello stops accepting.
EveryServerAnswered ==
    \A c \in Conns :
        link[c] \in {"connected", "greeting"}
            ~> link[c] \in {"idle", "waiting", "refused", "dead"}

\* As long as no CREATE leaked dirlock, the threads do not block each other:
\* while a request waits, it or another one gets its response.
RequestsProgress ==
    \A c \in Conns :
        link[c] = "waiting"
            ~> \/ link[c] # "waiting"
               \/ LockLeaked
               \/ \E d \in Conns \ {c} : rep[d] # NoReply

\* doc/desc/protocols.md:429, "DCP is a request-response protocol": every
\* request gets a response, or its sender exits.
RequestResponse ==
    \A c \in Conns : link[c] = "waiting" ~> link[c] # "waiting"

\* doc/desc/protocols.md:456, "Short term locks are automatically handled on
\* directory server to guarantee operation atomicity": no two threads are
\* both between the check of create_file and the end of its insertion.
CreatesAtomic ==
    \A i, j \in Slots :
        pc[i] \in {"createAdd", "createWalk", "createLink"}
        /\ pc[j] \in {"createAdd", "createWalk", "createLink"} => i = j

\* doc/desc/arch.md:14, "An index stores all the file servers currently
\* connected": a server is not turned away for one that has left.
TurnedAwayForConnectedOnly ==
    [][(\E c \in Conns : link[c] # "refused" /\ link'[c] = "refused")
           => \A i \in Slots : pc[i] # "exited"]_vars
==============================================================================
