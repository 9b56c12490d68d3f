--------------------------- MODULE FapSessionProofs ---------------------------
(* Sessions of the file server for any table size and any number of clients:  *)
(* types, the pairing of the two connections, and who may hold a slot.        *)
EXTENDS FapSession, TablesProofs

\* Slots are numbered from 1, the entry past the table is none of them, and
\* neither is 0, which also is no session.
LEMMA BoundsFacts ==
    /\ PastTable \notin Slots /\ NONE \notin Slots /\ NONE \notin Sessions
    /\ NONE # PastTable /\ ClientId # 0
    /\ Slots \subseteq Nat /\ Sessions \subseteq Nat
BY MaxClientsAssumption, MaxSessionsAssumption
DEF PastTable, Slots, NONE, Sessions, ClientId

\* register_client returns a free slot, or the index past the table.
LEMMA FirstFreeType == FirstFree \in Slots \cup {PastTable}
<1>1. FreeSlots \in SUBSET Nat
      BY BoundsFacts DEF FreeSlots
<1> QED
      BY <1>1, SmallestIsIn DEF FirstFree, FreeSlots

\* Nobody is connected at the start.
LEMMA InitSessionInv == Init => SessionInv
<1> SUFFICES ASSUME Init PROVE SessionInv
    OBVIOUS
<1> USE BoundsFacts, MaxSessionsAssumption DEF Init
<1>1. TypeOK
      BY DEF TypeOK, FreeClient
<1>2. InTurn
      BY DEF InTurn, Busy, Sessions
<1>3. HandshakeInTurn
      BY DEF HandshakeInTurn
<1>4. DataPaired /\ SlotsHeld /\ SlotsReleased
      BY DEF DataPaired, SlotsHeld, SlotsReleased, FreeClient
<1> QED
      BY <1>1, <1>2, <1>3, <1>4 DEF SessionInv

-----------------------------------------------------------------------------
(* Types.                                                                   *)

\* Every step keeps the types.
LEMMA NextTypeOK ==
    ASSUME SessionInv, [Next]_vars
    PROVE  TypeOK'
<1> USE BoundsFacts, MaxSessionsAssumption
    DEF SessionInv, TypeOK, InTurn, netvars, srvvars
<1>1. CASE Connect
      BY <1>1 DEF Connect, Waiting, Sessions
<1>2. ASSUME NEW k \in Sessions, ClientStep(k) PROVE TypeOK'
      <2>1. CASE SendHello(k) \/ Quit(k)
            BY <2>1 DEF SendHello, Quit, Waiting, Open
      <2>2. CASE ReceiveHelloResponse(k) \/ ReceiveOk(k) \/ Exit(k)
            BY <2>2 DEF ReceiveHelloResponse, ReceiveOk, Exit, Waiting, Open, Ended
      <2>3. CASE OpenData(k)
            BY <2>3 DEF OpenData, Open
      <2>4. CASE DataRefused(k)
            BY <2>4 DEF DataRefused, Ended
      <2> QED
            BY <1>2, <2>1, <2>2, <2>3, <2>4 DEF ClientStep
<1>3. CASE RegisterClient
      BY <1>3 DEF RegisterClient, Sessions
<1>4. CASE RefuseClient
      BY <1>4 DEF RefuseClient, Close, Ended, Sessions
<1>5. CASE RegisterPastTable
      BY <1>5, FirstFreeType DEF RegisterPastTable, Close, Ended, Sessions
<1>6. CASE GreetClient \/ GreetFails \/ StartListen \/ AcceptData
      BY <1>6 DEF GreetClient, GreetFails, StartListen, AcceptData, Send, Busy
<1>7. CASE ServeQuit
      <2>1. cur \in Slots /\ Peer \in Sessions
            BY <1>7 DEF ServeQuit, Busy
      <2>2. Released(clients[cur]) \in [id : {0, ClientId}, sd : Sessions \cup {NONE},
                                        datasd : Sessions \cup {NONE}]
            <3>1. clients[cur] \in [id : {0, ClientId}, sd : Sessions \cup {NONE},
                                    datasd : Sessions \cup {NONE}]
                  BY <2>1
            <3> QED
                  BY <3>1 DEF Released, TypeOK
      <2>3. clients' = [clients EXCEPT ![cur] = Released(clients[cur])]
            BY <1>7 DEF ServeQuit
      <2>4. clients' \in [Slots -> [id : {0, ClientId}, sd : Sessions \cup {NONE},
                                    datasd : Sessions \cup {NONE}]]
            BY <2>1, <2>2, <2>3
      <2>5. /\ inbox' \in [Sessions -> {"none", "HELLO", "QUIT"}]
            /\ outbox' \in [Sessions -> {"none", "HELLO_RESPONSE", "OK"}]
            BY <1>7, <2>1 DEF ServeQuit, Send
      <2> QED
            BY <1>7, <2>4, <2>5 DEF ServeQuit
<1>8. CASE ServeEof
      BY <1>8 DEF ServeEof, AfterEof
<1>9. CASE UNCHANGED vars
      BY <1>9 DEF vars
<1> QED
      BY <1>1, <1>2, <1>3, <1>4, <1>5, <1>6, <1>7, <1>8, <1>9 DEF Next, ServerStep

-----------------------------------------------------------------------------
(* The turn, and the handshake in it.                                       *)

\* No step lets the server turn to a client that did not connect, or listen
\* on a data port that is not that of the client in turn.
LEMMA NextInTurn ==
    ASSUME SessionInv, [Next]_vars, TypeOK'
    PROVE  InTurn'
<1> USE BoundsFacts, MaxSessionsAssumption
    DEF SessionInv, TypeOK, InTurn, netvars, srvvars, Peer, Busy
<1>1. CASE Connect
      BY <1>1 DEF Connect, Sessions
<1>2. ASSUME NEW k \in Sessions, ClientStep(k) PROVE InTurn'
      <2>1. UNCHANGED <<nsessions, srvvars>>
            BY <1>2 DEF ClientStep, SendHello, ReceiveHelloResponse, OpenData, DataRefused,
                        Quit, ReceiveOk, Exit
      <2>2. \E c \in Waiting \cup Open \cup Ended : cli' = [cli EXCEPT ![k] = c]
            BY <1>2 DEF ClientStep, SendHello, ReceiveHelloResponse, OpenData, DataRefused,
                        Quit, ReceiveOk, Exit, Waiting, Open, Ended
      <2>3. cli[k] # "none"
            BY <1>2 DEF ClientStep, SendHello, ReceiveHelloResponse, OpenData, DataRefused,
                        Quit, ReceiveOk, Exit, Waiting, Open
      <2>4. \A m \in Sessions : cli'[m] = "none" <=> cli[m] = "none"
            BY <2>2, <2>3 DEF Waiting, Open, Ended
      <2> QED
            BY <2>1, <2>4
<1>3. CASE RegisterClient
      BY <1>3 DEF RegisterClient, Sessions
<1>4. CASE RefuseClient
      BY <1>4 DEF RefuseClient, Close, Sessions, Ended, Gone
<1>5. CASE RegisterPastTable
      BY <1>5 DEF RegisterPastTable, Close, Sessions
<1>6. CASE GreetClient \/ GreetFails \/ StartListen
      <2>1. CASE GreetClient
            BY <2>1 DEF GreetClient
      <2>2. CASE GreetFails
            BY <2>2 DEF GreetFails
      <2>3. CASE StartListen
            BY <2>3 DEF StartListen
      <2> QED
            BY <1>6, <2>1, <2>2, <2>3
<1>7. CASE AcceptData
      BY <1>7 DEF AcceptData
<1>8. CASE ServeQuit \/ ServeEof
      <2>1. /\ spc = "serve" /\ spc' = "accept"
            /\ UNCHANGED <<nsessions, cli, next, clicnt, listening>>
            BY <1>8 DEF ServeQuit, ServeEof, AfterEof
      <2> QED
            BY <2>1
<1>9. CASE UNCHANGED vars
      BY <1>9 DEF vars
<1> QED
      BY <1>1, <1>2, <1>3, <1>4, <1>5, <1>6, <1>7, <1>8, <1>9 DEF Next, ServerStep

\* No step lets a client out of turn be between its hello response and its
\* data connection.
LEMMA NextHandshakeInTurn ==
    ASSUME SessionInv, [Next]_vars, TypeOK'
    PROVE  HandshakeInTurn'
<1> USE BoundsFacts, MaxSessionsAssumption
    DEF SessionInv, TypeOK, InTurn, HandshakeInTurn, netvars, srvvars, Peer, Busy, Awaiting
<1>1. CASE Connect
      BY <1>1 DEF Connect, Sessions
<1>2. ASSUME NEW k \in Sessions, ClientStep(k) PROVE HandshakeInTurn'
      <2>1. CASE SendHello(k)
            BY <1>2, <2>1 DEF SendHello
      <2>2. CASE ReceiveHelloResponse(k)
            BY <1>2, <2>2 DEF ReceiveHelloResponse
      <2>3. CASE OpenData(k)
            BY <1>2, <2>3 DEF OpenData
      <2>4. CASE DataRefused(k)
            BY <1>2, <2>4 DEF DataRefused
      <2>5. CASE Quit(k)
            BY <1>2, <2>5 DEF Quit
      <2>6. CASE ReceiveOk(k)
            BY <1>2, <2>6 DEF ReceiveOk
      <2>7. CASE Exit(k)
            BY <1>2, <2>7 DEF Exit, Waiting, Open
      <2> QED
            BY <1>2, <2>1, <2>2, <2>3, <2>4, <2>5, <2>6, <2>7 DEF ClientStep
<1>3. CASE RegisterClient
      BY <1>3 DEF RegisterClient, Sessions
<1>4. CASE RefuseClient
      BY <1>4 DEF RefuseClient, Close, Gone, Sessions
<1>5. CASE RegisterPastTable
      BY <1>5 DEF RegisterPastTable, Close, Gone, Sessions
<1>6. CASE GreetClient
      BY <1>6 DEF GreetClient, Send, Gone, Ended
<1>7. CASE GreetFails \/ StartListen \/ ServeEof
      BY <1>7 DEF GreetFails, StartListen, ServeEof, AfterEof
<1>8. CASE AcceptData
      BY <1>8 DEF AcceptData
<1>9. CASE ServeQuit
      BY <1>9 DEF ServeQuit, Send
<1>10. CASE UNCHANGED vars
      BY <1>10 DEF vars
<1> QED
      BY <1>1, <1>2, <1>3, <1>4, <1>5, <1>6, <1>7, <1>8, <1>9, <1>10
      DEF Next, ServerStep

-----------------------------------------------------------------------------
(* The slots.                                                               *)

\* No step starts to serve a client with the data connection of another.
LEMMA NextDataPaired ==
    ASSUME SessionInv, [Next]_vars
    PROVE  DataPaired'
<1> USE BoundsFacts
    DEF SessionInv, TypeOK, InTurn, HandshakeInTurn, DataPaired, netvars, srvvars, Peer, Busy
<1>1. CASE AcceptData
      <2>1. cur \in Slots /\ cur' = cur
            BY <1>1 DEF AcceptData
      <2>2. PICK k \in queued : clients' = [clients EXCEPT ![cur].datasd = k]
            BY <1>1 DEF AcceptData
      <2>3. clients'[cur].datasd = k /\ clients'[cur].sd = clients[cur].sd
            BY <2>1, <2>2
      <2> QED
            BY <2>1, <2>2, <2>3
<1>2. CASE spc' # "serve"
      BY <1>2
<1>3. CASE UNCHANGED <<spc, cur, clients>>
      BY <1>3
<1> QED
      BY <1>1, <1>2, <1>3
      DEF Next, Connect, ClientStep, SendHello, ReceiveHelloResponse, OpenData, DataRefused,
          Quit, ReceiveOk, Exit, ServerStep, RegisterClient, RefuseClient, RegisterPastTable,
          GreetClient, GreetFails, StartListen, ServeQuit, ServeEof, AfterEof, vars

\* No step leaves a slot taken when its client quit in good order.
LEMMA NextSlotsHeld ==
    ASSUME SessionInv, [Next]_vars, TypeOK'
    PROVE  SlotsHeld'
<1> SUFFICES ASSUME NEW i \in Slots, clients'[i].id # 0
             PROVE  \/ spc' # "accept" /\ i = cur'
                    \/ cli'[clients'[i].sd] \in {"failed", "exited"}
    BY DEF SlotsHeld
<1> USE BoundsFacts, MaxSessionsAssumption
    DEF SessionInv, TypeOK, InTurn, HandshakeInTurn, SlotsHeld, SlotsReleased, Holds,
        netvars, srvvars, Peer, Busy
<1>1. CASE Connect
      BY <1>1 DEF Connect, Sessions
<1>2. ASSUME NEW k \in Sessions, ClientStep(k)
      PROVE  SlotsHeld'
      <2>1. CASE SendHello(k)
            BY <1>2, <2>1 DEF SendHello
      <2>2. CASE ReceiveHelloResponse(k)
            BY <1>2, <2>2 DEF ReceiveHelloResponse
      <2>3. CASE OpenData(k)
            BY <1>2, <2>3 DEF OpenData
      <2>4. CASE DataRefused(k)
            BY <1>2, <2>4 DEF DataRefused
      <2>5. CASE Quit(k)
            BY <1>2, <2>5 DEF Quit
      <2>6. CASE ReceiveOk(k)
            BY <1>2, <2>6 DEF ReceiveOk
      <2>7. CASE Exit(k)
            BY <1>2, <2>7 DEF Exit
      <2> QED
            BY <1>2, <2>1, <2>2, <2>3, <2>4, <2>5, <2>6, <2>7 DEF ClientStep
<1>3. CASE RegisterClient
      BY <1>3 DEF RegisterClient
<1>4. CASE RefuseClient \/ RegisterPastTable
      <2>1. next \in Sessions /\ clients' = clients /\ spc = "accept"
            BY <1>4 DEF RefuseClient, RegisterPastTable, Sessions
      <2>2. clients[i].sd # next /\ clients[i].sd \in Sessions
            BY <2>1 DEF Sessions
      <2>3. cli'[clients[i].sd] = cli[clients[i].sd]
            BY <1>4, <2>1, <2>2 DEF RefuseClient, RegisterPastTable, Close
      <2> QED
            BY <2>1, <2>3
<1>5. CASE GreetClient \/ StartListen
      BY <1>5 DEF GreetClient, StartListen
<1>6. CASE GreetFails
      <2>1. cli[Peer] = "exited"
            BY <1>6 DEF GreetFails, AtEof, Gone, Ended
      <2> QED
            BY <1>6, <2>1 DEF GreetFails
<1>7. CASE AcceptData
      <2>1. clients'[i].id = clients[i].id /\ clients'[i].sd = clients[i].sd
            BY <1>7 DEF AcceptData
      <2> QED
            BY <1>7, <2>1 DEF AcceptData
<1>8. CASE ServeQuit
      <2>1. i # cur
            BY <1>8 DEF ServeQuit, Released
      <2> QED
            BY <1>8, <2>1 DEF ServeQuit
<1>9. CASE ServeEof
      <2>1. Holds(Peer)
            BY <1>9 DEF ServeEof
      <2>2. cli[Peer] \in {"failed", "exited"}
            BY <1>9, <2>1 DEF ServeEof, AtEof, Gone, Ended
      <2> QED
            BY <1>9, <2>2 DEF ServeEof, AfterEof
<1>10. CASE UNCHANGED vars
      BY <1>10 DEF vars
<1> QED
      BY <1>1, <1>2, <1>3, <1>4, <1>5, <1>6, <1>7, <1>8, <1>9, <1>10
      DEF Next, ServerStep

\* No step gives a slot to a client that quit or was refused.
LEMMA NextSlotsReleased ==
    ASSUME SessionInv, [Next]_vars, TypeOK'
    PROVE  SlotsReleased'
<1> USE BoundsFacts, MaxSessionsAssumption
    DEF SessionInv, TypeOK, InTurn, HandshakeInTurn, SlotsHeld, SlotsReleased, Holds,
        netvars, srvvars, Peer, Busy
<1>1. CASE Connect
      BY <1>1 DEF Connect, Sessions
<1>2. ASSUME NEW k \in Sessions, ClientStep(k)
      PROVE  SlotsReleased'
      <2>1. CASE SendHello(k)
            BY <1>2, <2>1 DEF SendHello
      <2>2. CASE ReceiveHelloResponse(k)
            BY <1>2, <2>2 DEF ReceiveHelloResponse
      <2>3. CASE OpenData(k)
            BY <1>2, <2>3 DEF OpenData
      <2>4. CASE DataRefused(k)
            BY <1>2, <2>4 DEF DataRefused
      <2>5. CASE Quit(k)
            BY <1>2, <2>5 DEF Quit
      <2>6. CASE ReceiveOk(k)
            BY <1>2, <2>6 DEF ReceiveOk
      <2>7. CASE Exit(k)
            BY <1>2, <2>7 DEF Exit
      <2> QED
            BY <1>2, <2>1, <2>2, <2>3, <2>4, <2>5, <2>6, <2>7 DEF ClientStep
<1>3. CASE RegisterClient
      <2>1. /\ next \in Sessions /\ next' = next + 1
            /\ UNCHANGED <<cli, outbox>>
            BY <1>3 DEF RegisterClient, Sessions
      <2>2. /\ clients'[FirstFree].sd = next
            /\ \A i \in Slots : i # FirstFree => clients'[i] = clients[i]
            BY <1>3 DEF RegisterClient
      <2>3. \A k \in Sessions : k # next /\ Holds(k)' => Holds(k)
            BY <2>2
      <2>4. \A k \in Sessions :
                cli[k] \in {"done", "refused"} \/ outbox[k] = "OK" => k # next
            BY <2>1
      <2>5. \A i \in Slots : clients'[i].id # 0 => clients'[i].sd \in 1..next
            BY <2>1, <2>2 DEF Sessions
      <2> QED
            BY <2>1, <2>3, <2>4, <2>5 DEF Sessions
<1>4. CASE RefuseClient \/ RegisterPastTable
      <2>1. /\ next \in Sessions /\ next' = next + 1
            /\ UNCHANGED <<clients, outbox>>
            BY <1>4 DEF RefuseClient, RegisterPastTable, Sessions
      <2>2. ~Holds(next)
            BY <2>1 DEF Sessions
      <2>3. \A k \in Sessions : k # next => cli'[k] = cli[k]
            BY <1>4, <2>1 DEF RefuseClient, RegisterPastTable, Close
      <2> QED
            BY <2>1, <2>2, <2>3 DEF Sessions
<1>5. CASE GreetClient
      BY <1>5 DEF GreetClient, Send
<1>6. CASE GreetFails \/ StartListen \/ ServeEof
      <2>1. UNCHANGED <<cli, outbox, next, clients>>
            BY <1>6 DEF GreetFails, StartListen, ServeEof
      <2> QED
            BY <2>1
<1>7. CASE AcceptData
      <2>1. \A i \in Slots :
                clients'[i].id = clients[i].id /\ clients'[i].sd = clients[i].sd
            BY <1>7 DEF AcceptData
      <2> QED
            BY <1>7, <2>1 DEF AcceptData
<1>8. CASE ServeQuit
      <2>1. /\ cur \in Slots /\ Peer \in Sessions
            /\ UNCHANGED <<cli, next>>
            /\ \A k \in Sessions : k # Peer => outbox'[k] = outbox[k]
            /\ Gone(Peer) => outbox'[Peer] = "none"
            BY <1>8 DEF ServeQuit, Send
      <2>2. /\ clients'[cur].id = 0
            /\ \A i \in Slots : i # cur => clients'[i] = clients[i]
            BY <1>8 DEF ServeQuit, Released
      <2>3. \A i \in Slots : i # cur /\ clients[i].id # 0 /\ clients[i].sd = Peer
                                => Gone(Peer)
            BY DEF Gone, Ended
      <2>4. Holds(Peer)
            BY <1>8, <2>1 DEF ServeQuit
      <2> QED
            BY <2>1, <2>2, <2>3, <2>4
<1>9. CASE UNCHANGED vars
      BY <1>9 DEF vars
<1> QED
      BY <1>1, <1>2, <1>3, <1>4, <1>5, <1>6, <1>7, <1>8, <1>9 DEF Next, ServerStep

-----------------------------------------------------------------------------
(* The theorems.                                                            *)

\* SessionInv is an invariant.
LEMMA SessionInvHolds == Spec => []SessionInv
<1>1. ASSUME SessionInv, [Next]_vars PROVE SessionInv'
      BY <1>1, NextTypeOK, NextInTurn, NextHandshakeInTurn, NextDataPaired,
         NextSlotsHeld, NextSlotsReleased
      DEF SessionInv
<1> QED
      BY <1>1, InitSessionInv, PTL DEF Spec

\* Every variable keeps its type, with any table and any number of clients.
THEOREM SessionTypes == Spec => []TypeOK
<1>1. SessionInv => TypeOK
      BY DEF SessionInv
<1> QED
      BY <1>1, SessionInvHolds, PTL

\* A client is never served with the data connection of another client.
THEOREM DataPairedHolds == Spec => []DataPaired
<1>1. SessionInv => DataPaired
      BY DEF SessionInv
<1> QED
      BY <1>1, SessionInvHolds, PTL

\* Only the client in turn, and clients that ended without a quit that was
\* served, hold a slot.
THEOREM SlotsHeldHolds == Spec => []SlotsHeld
<1>1. SessionInv => SlotsHeld
      BY DEF SessionInv
<1> QED
      BY <1>1, SessionInvHolds, PTL
==============================================================================
