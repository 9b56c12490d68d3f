------------------------------ MODULE FapSession ------------------------------
(* Client sessions of the file server: the accept loop of src/fsservd.c, the  *)
(* table of clients, and the handshake of src/fap.c that opens the data       *)
(* connection; with the client's side of it (fap_open, client_quit).  What    *)
(* commands do is left to another module: here a session is opened, and ends  *)
(* with a quit or with the client's exit.                                     *)
(*                                                                            *)
(* One thread serves one client at a time.  Session k is the k-th client      *)
(* process that connects.  Data port BASE + i is i, the slot it belongs to.   *)
EXTENDS Integers, Tables

CONSTANTS
    MaxClients,     \* MAX_CLIENTS, the size of clients[]
    MaxSessions,    \* bound: clients that connect over the whole behaviour
    MayExit         \* whether clients may exit without a quit

ASSUME MaxClientsAssumption == MaxClients \in Nat \ {0}
ASSUME MaxSessionsAssumption == MaxSessions \in Nat
ASSUME MayExitAssumption == MayExit \in BOOLEAN

Sessions  == 1..MaxSessions
Slots     == 1..MaxClients
PastTable == MaxClients + 1     \* clients[MAX_CLIENTS], outside the table
NONE      == 0

VARIABLES
    \* the clients and the network
    nsessions,      \* clients that connected so far
    cli,            \* where each client is in fap_open and client_quit
    inbox,          \* its message that the server has not read
    outbox,         \* the server's message that it has not read
    port,           \* the data port it was told
    queued,         \* sessions whose data connection waits to be accepted
    \* the file server
    spc,
    next,           \* the session the next accept() returns
    cur,            \* the index of the client being greeted or served
    clients,        \* id (0: free), sd and datasd, as the session they lead to
    clicnt,
    listening       \* the data port being listened on, or NONE

netvars == <<nsessions, cli, inbox, outbox, port, queued>>
srvvars == <<spc, next, cur, clients, clicnt, listening>>
vars    == <<nsessions, cli, inbox, outbox, port, queued,
             spc, next, cur, clients, clicnt, listening>>

\* do_fap_server calls nextcid() once, before its loop: every client gets 2.
ClientId == 2

FreeClient == [id |-> 0, sd |-> NONE, datasd |-> NONE]

Waiting    == {"connected", "greeting", "opening"}
Open       == {"ready", "quitting"}
Ended      == {"done", "failed", "refused", "exited"}

Init ==
    /\ nsessions = 0
    /\ cli = [k \in Sessions |-> "none"]
    /\ inbox = [k \in Sessions |-> "none"]
    /\ outbox = [k \in Sessions |-> "none"]
    /\ port = [k \in Sessions |-> NONE]
    /\ queued = {}
    /\ spc = "accept"
    /\ next = 1
    /\ cur = NONE
    /\ clients = [i \in Slots |-> FreeClient]
    /\ clicnt = 0
    /\ listening = NONE

-----------------------------------------------------------------------------
(* The clients.                                                             *)

Connect ==
    /\ nsessions < MaxSessions
    /\ nsessions' = nsessions + 1
    /\ cli' = [cli EXCEPT ![nsessions + 1] = "connected"]
    /\ UNCHANGED <<inbox, outbox, port, queued, srvvars>>

SendHello(k) ==
    /\ cli[k] = "connected"
    /\ cli' = [cli EXCEPT ![k] = "greeting"]
    /\ inbox' = [inbox EXCEPT ![k] = "HELLO"]
    /\ UNCHANGED <<nsessions, outbox, port, queued, srvvars>>

ReceiveHelloResponse(k) ==
    /\ cli[k] = "greeting"
    /\ outbox[k] = "HELLO_RESPONSE"
    /\ cli' = [cli EXCEPT ![k] = "opening"]
    /\ outbox' = [outbox EXCEPT ![k] = "none"]
    /\ UNCHANGED <<nsessions, inbox, port, queued, srvvars>>

\* connect() to the data port succeeds as soon as the server listens,
OpenData(k) ==
    /\ cli[k] = "opening"
    /\ port[k] = listening
    /\ cli' = [cli EXCEPT ![k] = "ready"]
    /\ queued' = queued \cup {k}
    /\ UNCHANGED <<nsessions, inbox, outbox, port, srvvars>>

\* and is refused until then.  The client closes its sockets and exits.
DataRefused(k) ==
    /\ cli[k] = "opening"
    /\ port[k] # listening
    /\ cli' = [cli EXCEPT ![k] = "failed"]
    /\ UNCHANGED <<nsessions, inbox, outbox, port, queued, srvvars>>

Quit(k) ==
    /\ cli[k] = "ready"
    /\ cli' = [cli EXCEPT ![k] = "quitting"]
    /\ inbox' = [inbox EXCEPT ![k] = "QUIT"]
    /\ UNCHANGED <<nsessions, outbox, port, queued, srvvars>>

ReceiveOk(k) ==
    /\ cli[k] = "quitting"
    /\ outbox[k] = "OK"
    /\ cli' = [cli EXCEPT ![k] = "done"]
    /\ outbox' = [outbox EXCEPT ![k] = "none"]
    /\ UNCHANGED <<nsessions, inbox, port, queued, srvvars>>

\* A signal or an error ends the client.  The server can still read what it
\* sent and accept its data connection.
Exit(k) ==
    /\ MayExit
    /\ cli[k] \in Waiting \cup Open
    /\ cli' = [cli EXCEPT ![k] = "exited"]
    /\ outbox' = [outbox EXCEPT ![k] = "none"]
    /\ UNCHANGED <<nsessions, inbox, port, queued, srvvars>>

-----------------------------------------------------------------------------
(* The file server.                                                         *)

Gone(k) == cli[k] \in Ended
Send(k, m) == outbox' = [outbox EXCEPT ![k] = IF Gone(k) THEN "none" ELSE m]
AtEof(k) == inbox[k] = "none" /\ Gone(k)

\* close() of a session that was not greeted: the client gives up.
Close(k) == cli' = [cli EXCEPT ![k] = IF Gone(k) THEN @ ELSE "refused"]

FreeSlots == {i \in Slots : clients[i].id = 0}

\* Faulty: a search that goes on over the end of the table.
FirstFreeBeyond == IF FreeSlots = {} THEN PastTable + 1 ELSE Smallest(FreeSlots)

\* register_client: the loop ends with i = MAX_CLIENTS when no slot is free,
\* and that is what it returns.
FirstFree == IF FreeSlots = {} THEN PastTable ELSE Smallest(FreeSlots)

TooManyClients == clicnt > MaxClients

\* clicnt is incremented for every client and never decremented.
RegisterClient ==
    /\ spc = "accept"
    /\ next <= nsessions
    /\ ~TooManyClients
    /\ FirstFree \in Slots
    /\ clients' = [clients EXCEPT ![FirstFree] =
                       [id |-> ClientId, sd |-> next, datasd |-> NONE]]
    /\ clicnt' = clicnt + 1
    /\ cur' = FirstFree
    /\ next' = next + 1
    /\ spc' = "hello"
    /\ UNCHANGED <<netvars, listening>>

RefuseClient ==
    /\ spc = "accept"
    /\ next <= nsessions
    /\ TooManyClients
    /\ Close(next)
    /\ next' = next + 1
    /\ UNCHANGED <<nsessions, inbox, outbox, port, queued,
                   spc, cur, clients, clicnt, listening>>

\* The entry past the table was not filled in: fap_accept reads its hello
\* from whatever descriptor number lies there.  The read blocks, or fails and
\* the client is closed, or the server crashes.
RegisterPastTable ==
    /\ spc = "accept"
    /\ next <= nsessions
    /\ ~TooManyClients
    /\ FirstFree \notin Slots
    /\ cur' = FirstFree
    /\ next' = next + 1
    /\ \/ spc' \in {"stray", "crashed"} /\ UNCHANGED cli
       \/ spc' = "accept" /\ Close(next)
    /\ UNCHANGED <<nsessions, inbox, outbox, port, queued, clients, clicnt, listening>>

Peer == clients[cur].sd

\* fap_accept, up to the hello response with the data port.
GreetClient ==
    /\ spc = "hello"
    /\ inbox[Peer] = "HELLO"
    /\ inbox' = [inbox EXCEPT ![Peer] = "none"]
    /\ port' = [port EXCEPT ![Peer] = cur]
    /\ Send(Peer, "HELLO_RESPONSE")
    /\ spc' = "listen"
    /\ UNCHANGED <<nsessions, cli, queued, next, cur, clients, clicnt, listening>>

\* fap_accept fails: the socket is closed, the slot keeps its id.
GreetFails ==
    /\ spc = "hello"
    /\ AtEof(Peer)
    /\ spc' = "accept"
    /\ UNCHANGED <<netvars, next, cur, clients, clicnt, listening>>

\* Only now does the server listen on the data port it announced,
StartListen ==
    /\ spc = "listen"
    /\ listening' = cur
    /\ spc' = "dataaccept"
    /\ UNCHANGED <<netvars, next, cur, clients, clicnt>>

\* Faulty: a data socket that does not block, and is taken as it is.
AcceptDataAtOnce ==
    /\ spc = "dataaccept"
    /\ \/ \E k \in queued : /\ queued' = queued \ {k}
                            /\ clients' = [clients EXCEPT ![cur].datasd = k]
       \/ UNCHANGED <<queued, clients>>
    /\ listening' = NONE
    /\ spc' = "serve"
    /\ UNCHANGED <<nsessions, cli, inbox, outbox, port, next, cur, clicnt>>

\* and it waits for one connection to it, without limit.
AcceptData ==
    /\ spc = "dataaccept"
    /\ \E k \in queued : /\ queued' = queued \ {k}
                         /\ clients' = [clients EXCEPT ![cur].datasd = k]
    /\ listening' = NONE
    /\ spc' = "serve"
    /\ UNCHANGED <<nsessions, cli, inbox, outbox, port, next, cur, clicnt>>

\* Faulty: a quit that closes the socket and keeps the entry.
NotReleased(client) == client

\* serve_client on a quit: the slot is free again.
Released(client) == [client EXCEPT !.id = 0, !.sd = NONE]

ServeQuit ==
    /\ spc = "serve"
    /\ inbox[Peer] = "QUIT"
    /\ inbox' = [inbox EXCEPT ![Peer] = "none"]
    /\ Send(Peer, "OK")
    /\ clients' = [clients EXCEPT ![cur] = Released(@)]
    /\ spc' = "accept"
    /\ UNCHANGED <<nsessions, cli, port, queued, next, cur, clicnt, listening>>

\* Faulty: serve_client reads on after the end of the stream.
ReadOn == "serve"

\* serve_client at the end of the stream: it returns, the slot keeps its id.
AfterEof == "accept"
ServeEof ==
    /\ spc = "serve"
    /\ AtEof(Peer)
    /\ spc' = AfterEof
    /\ UNCHANGED <<netvars, next, cur, clients, clicnt, listening>>

ServerStep ==
    \/ RegisterClient \/ RefuseClient \/ RegisterPastTable
    \/ GreetClient \/ GreetFails \/ StartListen \/ AcceptData
    \/ ServeQuit \/ ServeEof

ClientStep(k) ==
    \/ SendHello(k) \/ ReceiveHelloResponse(k) \/ OpenData(k) \/ DataRefused(k)
    \/ Quit(k) \/ ReceiveOk(k) \/ Exit(k)

Next == Connect \/ ServerStep \/ \E k \in Sessions : ClientStep(k)

Spec == Init /\ [][Next]_vars

\* The server runs when it can, and so does a client that is connecting or
\* reading a response.  Quitting is up to the user.
Fairness ==
    /\ WF_vars(ServerStep)
    /\ \A k \in Sessions :
           /\ WF_vars(SendHello(k))
           /\ WF_vars(ReceiveHelloResponse(k))
           /\ WF_vars(OpenData(k) \/ DataRefused(k))
           /\ WF_vars(ReceiveOk(k))

FairSpec == Spec /\ Fairness

-----------------------------------------------------------------------------
(* Properties.                                                              *)

\* The type of every variable.
TypeOK ==
    /\ nsessions \in 0..MaxSessions
    /\ cli \in [Sessions -> {"none"} \cup Waiting \cup Open \cup Ended]
    /\ inbox \in [Sessions -> {"none", "HELLO", "QUIT"}]
    /\ outbox \in [Sessions -> {"none", "HELLO_RESPONSE", "OK"}]
    /\ port \in [Sessions -> Slots \cup {NONE}]
    /\ queued \subseteq Sessions
    /\ spc \in {"accept", "hello", "listen", "dataaccept", "serve", "stray", "crashed"}
    /\ next \in 1..(MaxSessions + 1)
    /\ cur \in Slots \cup {NONE, PastTable}
    /\ clients \in [Slots -> [id : {0, ClientId}, sd : Sessions \cup {NONE},
                              datasd : Sessions \cup {NONE}]]
    /\ clicnt \in 0..MaxSessions
    /\ listening \in Slots \cup {NONE}

\* While a client is served its two connections lead to the same process: no
\* other client's data connection is taken for it (fap_accept 383-389).
DataPaired == spc = "serve" => clients[cur].datasd = clients[cur].sd

\* A slot stays taken only by the client in turn, or by one that never got
\* to quit; a client whose quit was acknowledged holds none.
SlotsHeld ==
    \A i \in Slots : clients[i].id # 0 =>
        \/ spc # "accept" /\ i = cur
        \/ cli[clients[i].sd] \in {"failed", "exited"}

\* What makes the three inductive.  While the server is with a client, it is
\* the last one that was accepted; only that client can be between its hello
\* response and its data connection, and only while the server has not
\* accepted the latter; and a slot is not left by a client that was refused
\* or whose quit was served.
Busy     == spc \in {"hello", "listen", "dataaccept", "serve"}
Awaiting == spc \in {"listen", "dataaccept"}
Holds(k) == \E i \in Slots : clients[i].id # 0 /\ clients[i].sd = k

InTurn ==
    /\ clicnt < next /\ next <= nsessions + 1
    /\ Busy => /\ cur \in Slots
               /\ Peer \in Sessions /\ Peer = next - 1
               /\ clients[cur].id = ClientId
    /\ listening = IF spc = "dataaccept" THEN cur ELSE NONE
    /\ \A k \in Sessions : k > nsessions <=> cli[k] = "none"

HandshakeInTurn ==
    /\ \A k \in Sessions :
           /\ outbox[k] = "HELLO_RESPONSE" => cli[k] = "greeting"
           /\ cli[k] = "opening" \/ outbox[k] = "HELLO_RESPONSE"
                  => Awaiting /\ k = Peer /\ port[k] = cur
           /\ k >= next => /\ cli[k] \in {"none", "connected", "greeting", "exited"}
                           /\ outbox[k] = "none"
           /\ cli[k] \in {"none", "connected"} => inbox[k] = "none"
    /\ \A k \in queued : /\ spc = "dataaccept" /\ k = Peer
                          /\ cli[k] # "opening"
                          /\ outbox[k] # "HELLO_RESPONSE"
    /\ spc = "hello" => cli[Peer] \in {"connected", "greeting", "exited"}

SlotsReleased ==
    /\ \A i \in Slots : clients[i].id # 0 => clients[i].sd \in 1..(next - 1)
    /\ \A k \in Sessions :
           cli[k] \in {"done", "refused"} \/ outbox[k] = "OK" => ~Holds(k)

SessionInv ==
    /\ TypeOK /\ InTurn /\ HandshakeInTurn
    /\ DataPaired /\ SlotsHeld /\ SlotsReleased

\* The client in turn is gone before its data connection was made, or will be.
HandshakeLost ==
    /\ spc \in {"listen", "dataaccept"}
    /\ Gone(Peer)
    /\ queued = {}

\* A client that said hello is greeted, refused or gone, unless the server
\* is with a client that has not left, lost a handshake, or ran past its
\* table: nothing else keeps a client waiting.
NobodyForgotten ==
    \A k \in Sessions :
        cli[k] = "greeting" ~>
            \/ cli[k] # "greeting"
            \/ HandshakeLost
            \/ spc \in {"stray", "crashed"}
            \/ spc = "serve" /\ Peer # k /\ ~Gone(Peer)

\* doc/desc/protocols.md:323: after the hello response "Client opens another
\* TCP connection to the server".
DataConnectionOpens ==
    \A k \in Sessions : cli[k] = "opening" ~> cli[k] \in Open \cup {"done"}

\* doc/desc/protocols.md:323: "When server receives a hello from client, it
\* adds the client to its client list".
InClientList == cur # PastTable
==============================================================================
