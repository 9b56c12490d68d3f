--------------------------- MODULE FileServiceProofs ---------------------------
(* The sessions of the file servers, for any number of servers, files and      *)
(* commands and any length of texts: answers fit the commands, types hold, and *)
(* the directory's entries have their files.                                   *)
EXTENDS FileService, SequenceTheorems, TLAPS

\* Where the main thread is in the handler of a command.
Handling == AtDirectory \cup
    {"createlocal", "writelocal", "recv", "connect", "request", "fetch", "reopen"}

\* The kind of the command that handler serves.
KindAt(s) ==
    CASE pc[s] = "list"                             -> "list"
      [] pc[s] \in {"create", "createlocal"}        -> "create"
      [] pc[s] \in {"update", "writelocal", "recv"} -> "write"
      [] OTHER                                      -> "read"

\* In a handler the command has been read and not been answered, and its
\* client waits, or still sends, or is dead.
InHandler(s) ==
    pc[s] \in Handling =>
        /\ ~asked[s]
        /\ rsp[s] = NoResponse
        /\ cli[s] \in {"writing", "waiting", "dead"}
        /\ cmd[s].kind = KindAt(s)

\* A command that was not read has no answer yet.
AskedWhen(s) ==
    asked[s] =>
        /\ rsp[s] = NoResponse
        /\ cli[s] \in {"writing", "waiting", "dead", "lost"}
        /\ pc[s] \in {"serve", "down"}

\* Between two commands nothing is on its way in the control connection.
AtPrompt(s) ==
    cli[s] = "prompt" =>
        ~asked[s] /\ rsp[s] = NoResponse /\ pc[s] \in {"serve", "down"}

\* A client that receives data has read the answer of its "cat".
InReceiving(s) ==
    cli[s] = "receiving" =>
        /\ ~asked[s] /\ rsp[s] = NoResponse
        /\ pc[s] \in {"senddata", "serve", "down"}
        /\ cmd[s].kind = "read"

\* The server sends data after it has announced them.
Sending(s) ==
    pc[s] = "senddata" =>
        /\ ~asked[s]
        /\ cmd[s].kind = "read"
        /\ cli[s] \in {"dead", "receiving"} \/ (cli[s] = "waiting" /\ rsp[s].kind = "DATAOUT")

\* A server waits for a client when the last one is gone or quits.
Accepting(s) ==
    pc[s] = "accept" =>
        /\ ~asked[s]
        /\ \/ cli[s] \in {"none", "dead"} /\ rsp[s] = NoResponse
           \/ cli[s] = "waiting" /\ cmd[s].kind = "quit"

\* A session is lost when its server ended without an answer.
LostWhen(s) == cli[s] = "lost" => pc[s] = "down" /\ rsp[s] = NoResponse

\* Only an edit has data to send.
Writing(s) == cli[s] = "writing" => cmd[s].kind = "write"

\* Without a session nothing is on its way.
NoneWhen(s) ==
    cli[s] = "none" => pc[s] \in {"accept", "down"} /\ rsp[s] = NoResponse /\ ~asked[s]

\* An answer fits the command, and the server is done with it.
Answering(s) ==
    /\ rsp[s] # NoResponse => ~asked[s] /\ cli[s] \in {"writing", "waiting"}
    /\ rsp[s] # NoResponse => pc[s] \in {"serve", "senddata", "accept", "down"}
    /\ rsp[s].kind = "NONE" => rsp[s] = NoResponse
    /\ rsp[s].kind = "FILEINFO" => cmd[s].kind \in {"list", "create"}
    /\ rsp[s].kind = "OK" => cmd[s].kind \in {"write", "quit"}
    /\ rsp[s].kind = "OK" /\ cmd[s].kind = "quit" => pc[s] \in {"accept", "down"}
    /\ rsp[s].kind = "ERROR" => cmd[s].kind \in {"create", "write"}
    /\ rsp[s].kind = "DATAOUT" => cmd[s].kind = "read"

\* n, the size that was announced, covers the data on their way, and is exact
\* once the server is back in its loop.
Announced(s, n) ==
    /\ Path(s) = Slash => down[s] = <<>>
    /\ n >= Len(down[s])
    /\ pc[s] = "serve" /\ Path(s) # Slash => n = Len(down[s])
    /\ pc[s] = "senddata" => n > 0 /\ down[s] = <<>>
    /\ pc[s] = "senddata" /\ Path(s) # Slash => n = Len(DataOf(s))

\* Data on their way were announced, and the client counts with that size.
Downward(s) ==
    /\ down[s] # <<>> => cli[s] = "receiving" \/ rsp[s].kind = "DATAOUT"
    /\ cli[s] = "receiving" => left[s] > 0 /\ Announced(s, left[s])
    /\ rsp[s].kind = "DATAOUT" => Announced(s, rsp[s].size)

\* What a handler has found out about the path and the peer.
AtPath(s) ==
    /\ pc[s] \in {"createlocal", "replicas"} => Path(s) \in Paths
    /\ pc[s] = "recv" => Path(s) \in Paths /\ pos[s] <= Len(data[s][Path(s)])
    /\ pc[s] \in {"connect", "request", "fetch"} => Path(s) \in Paths /\ peer[s] \in Servers

\* The session of one server.
Session(s) ==
    /\ InHandler(s) /\ AskedWhen(s) /\ AtPrompt(s) /\ InReceiving(s) /\ Sending(s)
    /\ Accepting(s) /\ LostWhen(s) /\ NoneWhen(s) /\ Writing(s) /\ Answering(s)
    /\ Downward(s) /\ AtPath(s)

\* The FCTP thread serves requests for files.
ServingPath(t) == serving[t] # Idle => serving[t].path \in Paths

\* The inductive invariant: the protocol of every session is in step.
SessionInv == TypeOK /\ \A s \in Servers : Session(s) /\ ServingPath(s)

\* What the assumptions on the constants say.
LEMMA ConstantFacts ==
    /\ Servers \subseteq Nat /\ NIL \notin Servers
    /\ MaxText \in Nat \ {0} /\ MaxCommands \in Nat /\ RecvBufSize \in Nat
    /\ MaxDeaths \in Nat
    /\ Slash \notin Paths
BY ServersAssumption, TextAssumption, MaxDeathsAssumption, SlashIsNoFile DEF Servers, NIL

\* write() at an offset within the file makes a longer or an equally long one.
LEMMA WriteBytesType ==
    ASSUME NEW old \in Bytes, NEW at \in Nat, NEW new \in Bytes, at <= Len(old)
    PROVE  /\ WriteBytes(old, at, new) \in Bytes
           /\ Len(WriteBytes(old, at, new)) =
                  IF at + Len(new) > Len(old) THEN at + Len(new) ELSE Len(old)
<1> DEFINE n == IF at + Len(new) > Len(old) THEN at + Len(new) ELSE Len(old)
           byte(i) == IF i \in (at + 1)..(at + Len(new)) THEN new[i - at] ELSE old[i]
<1>1. n \in Nat
      BY DEF Bytes
<1>2. \A i \in 1..n : byte(i) \in Texts
      BY ElementOfSeq DEF Bytes
<1>3. WriteBytes(old, at, new) = [i \in 1..n |-> byte(i)]
      BY DEF WriteBytes, Overwritten
<1> QED
      BY <1>1, <1>2, <1>3 DEF Bytes

\* The fields of a command make a command.
LEMMA CommandIsCommand ==
    ASSUME NEW kind \in {"none", "list", "create", "write", "read", "quit"},
           NEW path \in Paths \cup {Slash}, NEW no \in 0..MaxCommands, NEW len \in 0..MaxText,
           NEW seen \in SavedTexts
    PROVE  Command(kind, path, no, len, seen) \in Commands
BY DEF Command, Commands

\* The values that stand for nothing have the right types.
LEMMA ValueFacts ==
    /\ <<>> \in Bytes
    /\ NoText \in SavedTexts
    /\ NoCommand \in Commands
    /\ NoResponse \in Responses
    /\ NoCopy \in Copies
    /\ Idle \in Conns
<1> USE ConstantFacts
<1>1. <<>> \in Bytes
      BY DEF Bytes
<1>2. NoText \in SavedTexts
      BY DEF NoText, Text, SavedTexts, Texts
<1>3. NoCommand \in Commands
      BY <1>2, CommandIsCommand DEF NoCommand
<1>4. NoResponse \in Responses
      BY DEF NoResponse, Response, Responses
<1>5. NoCopy \in Copies
      BY <1>1 DEF NoCopy, Copies
<1>6. Idle \in Conns
      BY DEF Idle, Conns, NIL
<1> QED
      BY <1>1, <1>2, <1>3, <1>4, <1>5, <1>6

\* A kind and a size make a response.
LEMMA ResponseFacts ==
    ASSUME NEW kind \in {"NONE", "FILEINFO", "OK", "ERROR", "DATAOUT"}, NEW size \in Nat
    PROVE  Response(kind, size) \in Responses
BY DEF Response, Responses

\* A read() splits what has arrived into bytes and bytes.
LEMMA ReceivedType ==
    ASSUME NEW bytes \in Bytes, NEW k \in ReadAmounts(bytes)
    PROVE  /\ SubSeq(bytes, 1, k) \in Bytes /\ Len(SubSeq(bytes, 1, k)) = k
           /\ From(bytes, k) \in Bytes /\ Len(From(bytes, k)) = Len(bytes) - k
           /\ k \in Nat \ {0}
BY DEF ReadAmounts, From, Bytes

\* The text of an edit is as long as the edit says.
LEMMA TextType ==
    ASSUME NEW c \in Commands
    PROVE  TextOf(c) \in Bytes /\ Len(TextOf(c)) = c.len
<1>1. c.len \in Nat /\ Text(c.path, c.no) \in Texts
      BY ConstantFacts DEF Commands, Text, Texts
<1>2. TextOf(c) = [i \in 1..c.len |-> Text(c.path, c.no)]
      BY DEF TextOf
<1> QED
      BY <1>1, <1>2 DEF Bytes

\* What does not change keeps its type.
LEMMA Kept ==
    ASSUME TypeOK
    PROVE  /\ UNCHANGED dirvars => DirTypes'
           /\ UNCHANGED clivars => CliTypes'
           /\ UNCHANGED netvars => NetTypes'
           /\ UNCHANGED srvvars => SrvTypes'
           /\ UNCHANGED locvars => LocTypes'
           /\ UNCHANGED fctpvars => FctpTypes'
           /\ UNCHANGED obsvars => ObsTypes'
<1> USE DEF TypeOK
<1>1. UNCHANGED dirvars => DirTypes'
      BY DEF dirvars, DirTypes
<1>2. UNCHANGED clivars => CliTypes'
      BY DEF clivars, CliTypes
<1>3. UNCHANGED netvars => NetTypes'
      BY DEF netvars, NetTypes
<1>4. UNCHANGED srvvars => SrvTypes'
      BY DEF srvvars, SrvTypes
<1>5. UNCHANGED locvars => LocTypes'
      BY DEF locvars, LocTypes
<1>6. UNCHANGED fctpvars => FctpTypes'
      BY DEF fctpvars, FctpTypes
<1>7. UNCHANGED obsvars => ObsTypes'
      BY DEF obsvars, ObsTypes
<1> QED
      BY <1>1, <1>2, <1>3, <1>4, <1>5, <1>6, <1>7

\* The steps of users and clients keep the types.
LEMMA ClientTypes ==
    ASSUME TypeOK, NEW s \in Servers,
           User(s) \/ ClientStep(s) \/ ClientDies(s)
    PROVE  TypeOK'
<1> USE ConstantFacts, ValueFacts, Kept DEF TypeOK, Goto
<1>1. CASE NewClient(s)
      <2>1. CliTypes' /\ NetTypes'
            BY <1>1 DEF NewClient, NewSession, CliTypes, NetTypes, Active
      <2>2. SrvTypes'
            BY <1>1 DEF NewClient, SrvTypes
      <2> QED
            BY <1>1, <2>1, <2>2 DEF NewClient
<1>2. ASSUME NEW c \in Commands, NEW state \in Active, SendCommand(s, c, state) PROVE TypeOK'
      <2>1. CliTypes'
            BY <1>2 DEF SendCommand, CliTypes
      <2>2. NetTypes' /\ ObsTypes'
            BY <1>2 DEF SendCommand, NetTypes, ObsTypes
      <2> QED
            BY <1>2, <2>1, <2>2 DEF SendCommand
<1>3. CASE WriteData(s)
      <2>1. up[s] \in Bytes /\ DataSent(cmd[s]) \in Bytes
            BY TextType DEF NetTypes, CliTypes, DataSent
      <2>2. up[s] \o DataSent(cmd[s]) \in Bytes
            BY <2>1 DEF Bytes
      <2> QED
            BY <1>3, <2>2 DEF WriteData, CliTypes, NetTypes, Active
<1>4. CASE ReceiveResponse(s)
      <2>1. [text |-> Text(cmd[s].path, cmd[s].no), len |-> cmd[s].len] \in SavedTexts
            BY DEF CliTypes, Commands, SavedTexts, Text, Texts
      <2> QED
            BY <1>4, <2>1 DEF ReceiveResponse, CliTypes, NetTypes, ObsTypes, Active
<1>5. CASE ReceiveSize(s)
      <2>1. rsp[s].size \in Nat
            BY DEF NetTypes, Responses
      <2>2. CliTypes'
            BY <1>5 DEF ReceiveSize, CliTypes, Active
      <2>3. NetTypes'
            BY <1>5, <2>1 DEF ReceiveSize, NetTypes
      <2> QED
            BY <1>5, <2>2, <2>3 DEF ReceiveSize
<1>6. CASE ReceiveData(s)
      <2>1. PICK k \in ReadAmounts(down[s]) :
                /\ out' = [out EXCEPT ![s] = @ \o SubSeq(down[s], 1, k)]
                /\ down' = [down EXCEPT ![s] = From(@, k)]
                /\ left' = [left EXCEPT ![s] = @ - k]
                /\ cli' = [cli EXCEPT ![s] = IF RecvDone(s, k) THEN "prompt" ELSE "receiving"]
            BY <1>6 DEF ReceiveData
      <2>2. /\ down[s] \in Bytes /\ out[s] \in Bytes /\ left[s] \in Int
            /\ k \in Nat /\ SubSeq(down[s], 1, k) \in Bytes /\ From(down[s], k) \in Bytes
            BY ReceivedType DEF CliTypes, NetTypes
      <2>3. out[s] \o SubSeq(down[s], 1, k) \in Bytes
            BY <2>2 DEF Bytes
      <2>4. CliTypes' /\ NetTypes'
            BY <1>6, <2>1, <2>2, <2>3 DEF ReceiveData, CliTypes, NetTypes, Active
      <2>5. DirTypes' /\ SrvTypes' /\ LocTypes' /\ FctpTypes' /\ ObsTypes'
            BY <1>6 DEF ReceiveData
      <2> QED
            BY <2>4, <2>5
<1>7. CASE ResponseLost(s)
      BY <1>7 DEF ResponseLost, CliTypes
<1>8. CASE ClientDies(s)
      BY <1>8 DEF ClientDies, Killed, CliTypes, NetTypes, ObsTypes
<1>9. CASE User(s)
      <2>1. CASE ListDir(s) \/ ClientQuit(s)
            BY <2>1, <1>2, CommandIsCommand DEF ListDir, ClientQuit, Active
      <2>2. ASSUME NEW path \in Entered[s], NewFile(s, path) \/ ReadFile(s, path)
            PROVE  TypeOK'
            <3>1. path \in Paths \cup {Slash}
                  BY EnteredAssumption
            <3>2. LastSaved(path) \in SavedTexts
                  BY <3>1 DEF LastSaved, ObsTypes
            <3> QED
                  BY <2>2, <3>1, <3>2, <1>2, CommandIsCommand DEF NewFile, ReadFile, Active
      <2>3. ASSUME NEW path \in Entered[s], NEW len \in 1..MaxText, EditFile(s, path, len)
            PROVE  TypeOK'
            <3>1. path \in Paths \cup {Slash} /\ len \in 0..MaxText
                  BY EnteredAssumption
            <3>2. ncmds + 1 \in 0..MaxCommands
                  BY <2>3 DEF EditFile, SendCommand, ObsTypes
            <3> QED
                  BY <2>3, <3>1, <3>2, <1>2, CommandIsCommand DEF EditFile, Active
      <2> QED
            BY <1>9, <1>1, <2>1, <2>2, <2>3 DEF User
<1> QED
      BY <1>3, <1>4, <1>5, <1>6, <1>7, <1>8, <1>9 DEF ClientStep

\* The end of a server process keeps the types (Ends: its connections close).
LEMMA EndsTypes ==
    ASSUME TypeOK, NEW s \in Servers, Ends(s), ndeaths' \in 0..MaxDeaths
    PROVE  TypeOK'
<1> USE ConstantFacts, ValueFacts, Kept DEF TypeOK
<1>1. ASSUME NEW c \in Conns PROVE LeftBy(c, s) \in Conns
      BY DEF LeftBy, Conns
<1>2. line' \in [Servers -> Seq(Conns)]
      <2>1. ASSUME NEW t \in Servers
            PROVE  [i \in 1..Len(line[t]) |-> LeftBy(line[t][i], s)] \in Seq(Conns)
            <3>1. line[t] \in Seq(Conns) /\ Len(line[t]) \in Nat
                  BY DEF FctpTypes
            <3>2. \A i \in 1..Len(line[t]) : LeftBy(line[t][i], s) \in Conns
                  BY <3>1, <1>1, ElementOfSeq
            <3> QED
                  BY <3>1, <3>2
      <2>2. <<>> \in Seq(Conns)
            OBVIOUS
      <2> QED
            BY <2>1, <2>2 DEF Ends
<1>3. serving' \in [Servers -> Conns]
      BY <1>1 DEF Ends, FctpTypes
<1>4. SrvTypes'
      BY DEF Ends, HangUp, SrvTypes
<1>5. copy' \in [Servers -> Copies]
      BY DEF Ends, HangUp, FctpTypes
<1>6. ObsTypes'
      BY DEF Ends, ObsTypes
<1> QED
      BY <1>2, <1>3, <1>4, <1>5, <1>6 DEF Ends, FctpTypes

\* An answer to a client keeps the type of the answers.
LEMMA RespondTypes ==
    ASSUME TypeOK, NEW s \in Servers, NEW m \in Responses, Respond(s, m)
    PROVE  rsp' \in [Servers -> Responses]
BY ValueFacts DEF Respond, TypeOK, NetTypes

\* Every step of the main thread keeps the types (serve_client and its handlers).
LEMMA MainTypes ==
    ASSUME SessionInv, NEW s \in Servers, MainStep(s)
    PROVE  TypeOK'
<1> USE ConstantFacts, ValueFacts, Kept DEF TypeOK, Goto
<1>0. TypeOK /\ InHandler(s) /\ AskedWhen(s) /\ AtPath(s)
      BY DEF SessionInv, Session
<1>a. Path(s) \in Paths \cup {Slash}
      BY <1>0 DEF Path, CliTypes, Commands
<1>1. CASE ClientLeft(s)
      BY <1>0, <1>1 DEF ClientLeft, SrvTypes
<1>2. CASE ServeQuit(s)
      BY <1>0, <1>2, RespondTypes, ResponseFacts DEF ServeQuit, Take, NetTypes, SrvTypes
<1>3. CASE AskDirectory(s)
      BY <1>0, <1>3 DEF AskDirectory, Take, NetTypes, SrvTypes, AtDirectory
<1>4. CASE DirectoryGone(s)
      BY <1>0, <1>4 DEF DirectoryGone, SrvTypes
<1>5. CASE BrokenPipe(s) \/ FctpUnreachable(s) \/ OpenFails(s)
      BY <1>0, <1>5, EndsTypes DEF BrokenPipe, FctpUnreachable, OpenFails, Exits, ObsTypes
<1>6. CASE ListAnswered(s)
      BY <1>0, <1>6, RespondTypes, ResponseFacts DEF ListAnswered, NetTypes, SrvTypes
<1>7. CASE CreateRefused(s)
      BY <1>0, <1>7, RespondTypes, ResponseFacts DEF CreateRefused, DirTypes, NetTypes, SrvTypes
<1>8. CASE CreateListed(s)
      BY <1>0, <1>8 DEF CreateListed, DirTypes, SrvTypes
<1>9. CASE CreateLocal(s)
      <2>1. Path(s) \in Paths
            BY <1>0, <1>9 DEF CreateLocal, AtPath
      <2>2. LocTypes'
            BY <1>0, <1>9, <2>1 DEF CreateLocal, OpenCreates, LocTypes
      <2> QED
            BY <1>0, <1>9, <2>2, RespondTypes, ResponseFacts DEF CreateLocal, NetTypes, SrvTypes
<1>10. CASE UpdateAnswered(s)
      BY <1>0, <1>10 DEF UpdateAnswered, UpdateRoot, UpdatePath, DirTypes, SrvTypes
<1>11. CASE UpdateRefused(s)
      BY <1>0, <1>11, RespondTypes, ResponseFacts
      DEF UpdateRefused, AfterRefusal, DirTypes, NetTypes, SrvTypes, ObsTypes
<1>12. CASE OpenWrite(s)
      <2>1. Path(s) \in Paths
            BY <1>a, <1>12 DEF OpenWrite
      <2>2. cmd[s].len \in Nat
            BY <1>0 DEF CliTypes, Commands
      <2>3. NetTypes' /\ SrvTypes'
            BY <1>0, <1>12, <2>2 DEF OpenWrite, NetTypes, SrvTypes
      <2>4. LocTypes'
            BY <1>0, <1>12, <2>1 DEF OpenWrite, OpenCreates, LocTypes
      <2> QED
            BY <1>0, <1>12, <2>3, <2>4 DEF OpenWrite
<1>13. CASE ReceiveFile(s)
      <2>1. PICK k \in ReadAmounts(up[s]) :
                /\ data' = [data EXCEPT ![s][Path(s)] =
                                WriteBytes(@, pos[s], SubSeq(up[s], 1, k))]
                /\ up' = [up EXCEPT ![s] = From(@, k)]
                /\ pos' = [pos EXCEPT ![s] = IF RecvDone(s, k) THEN 0 ELSE @ + k]
                /\ left' = [left EXCEPT ![s] = @ - k]
                /\ IF RecvDone(s, k)
                   THEN /\ pc' = [pc EXCEPT ![s] = "serve"]
                        /\ Respond(s, Response("OK", 0))
                   ELSE UNCHANGED <<pc, rsp>>
            BY <1>13 DEF ReceiveFile
      <2>2. Path(s) \in Paths /\ pos[s] <= Len(data[s][Path(s)])
            BY <1>0, <1>13 DEF ReceiveFile, AtPath
      <2>3. /\ SubSeq(up[s], 1, k) \in Bytes /\ From(up[s], k) \in Bytes /\ k \in Nat
            /\ data[s][Path(s)] \in Bytes /\ pos[s] \in Nat
            BY <1>0, <2>2, ReceivedType DEF NetTypes, LocTypes, SrvTypes
      <2>4. WriteBytes(data[s][Path(s)], pos[s], SubSeq(up[s], 1, k)) \in Bytes
            BY <2>2, <2>3, WriteBytesType
      <2>5. LocTypes'
            BY <1>0, <1>13, <2>1, <2>2, <2>4 DEF ReceiveFile, LocTypes
      <2>6. rsp' \in [Servers -> Responses]
            BY <1>0, <2>1, RespondTypes, ResponseFacts DEF NetTypes
      <2>7. NetTypes'
            <3>1. up' \in [Servers -> Bytes]
                  BY <1>0, <2>1, <2>3 DEF NetTypes
            <3>2. left' \in [Servers -> Int]
                  BY <1>0, <2>1, <2>3 DEF NetTypes
            <3>3. asked' \in [Servers -> BOOLEAN] /\ down' \in [Servers -> Bytes]
                  BY <1>0, <1>13 DEF ReceiveFile, NetTypes
            <3> QED
                  BY <2>6, <3>1, <3>2, <3>3 DEF NetTypes
      <2>8. SrvTypes'
            <3>1. pc' = pc \/ pc' = [pc EXCEPT ![s] = "serve"]
                  BY <2>1
            <3>2. pos' = [pos EXCEPT ![s] = IF RecvDone(s, k) THEN 0 ELSE @ + k] /\ peer' = peer
                  BY <1>13, <2>1 DEF ReceiveFile
            <3> QED
                  BY <1>0, <2>3, <3>1, <3>2 DEF SrvTypes
      <2> QED
            BY <1>0, <1>13, <2>5, <2>7, <2>8 DEF ReceiveFile
<1>14. CASE ServeLocalFile(s) \/ ServeCopy(s)
      <2>1. Size(s, Path(s)) \in Nat
            BY <1>0, <1>a DEF Size, DirSize, LocTypes, Bytes
      <2>2. PICK from \in {"serve", "reopen"} : AnswerSize(s, from)
            BY <1>14 DEF ServeLocalFile, ServeCopy
      <2>3. SrvTypes'
            BY <1>0, <1>14, <2>2 DEF AnswerSize, ServeLocalFile, ServeCopy, SrvTypes
      <2>4. rsp' \in [Servers -> Responses]
            BY <1>0, <2>1, <2>2, RespondTypes, ResponseFacts DEF AnswerSize
      <2>5. NetTypes'
            BY <1>0, <1>14, <2>4 DEF ServeLocalFile, ServeCopy, NetTypes
      <2> QED
            BY <1>0, <1>14, <2>3, <2>5 DEF ServeLocalFile, ServeCopy
<1>15. CASE NoLocalFile(s)
      BY <1>0, <1>15 DEF NoLocalFile, Take, NetTypes, SrvTypes, AtDirectory
<1>16. CASE ReplicasAnswered(s)
      BY <1>0, <1>16 DEF ReplicasAnswered, DirTypes, SrvTypes
<1>17. CASE FctpConnect(s)
      <2>1. peer[s] \in Servers
            BY <1>0, <1>17 DEF AtPath, FctpConnect
      <2>2. line[peer[s]] \in Seq(Conns)
            BY <1>0, <2>1 DEF FctpTypes
      <2>3. Conn(s, NoPath) \in Conns
            BY DEF Conn, Conns
      <2>4. Append(line[peer[s]], Conn(s, NoPath)) \in Seq(Conns)
            BY <2>2, <2>3
      <2>5. line' \in [Servers -> Seq(Conns)]
            BY <1>0, <1>17, <2>1, <2>4 DEF FctpConnect, FctpTypes
      <2>6. FctpTypes'
            BY <1>0, <1>17, <2>5 DEF FctpConnect, FctpTypes
      <2>7. SrvTypes'
            BY <1>0, <1>17 DEF FctpConnect, SrvTypes
      <2> QED
            BY <1>0, <1>17, <2>6, <2>7 DEF FctpConnect
<1>21. CASE FctpRequest(s)
      <2> DEFINE new == [i \in 1..Len(line[peer[s]]) |->
                 IF line[peer[s]][i].from = s THEN Conn(s, Path(s)) ELSE line[peer[s]][i]]
      <2>1. peer[s] \in Servers
            BY <1>0, <1>21 DEF AtPath, FctpRequest
      <2>2. line[peer[s]] \in Seq(Conns)
            BY <1>0, <2>1 DEF FctpTypes
      <2>3. Conn(s, Path(s)) \in Conns
            BY <1>a DEF Conn, Conns
      <2>4. new \in Seq(Conns)
            <3>1. \A i \in 1..Len(line[peer[s]]) : line[peer[s]][i] \in Conns
                  BY <2>2, ElementOfSeq
            <3> QED
                  BY <2>2, <2>3, <3>1
      <2>a. line' = [line EXCEPT ![peer[s]] = new]
            BY <1>21 DEF FctpRequest
      <2> HIDE DEF new
      <2>5. line' \in [Servers -> Seq(Conns)]
            BY <1>0, <2>a, <2>1, <2>4 DEF FctpTypes
      <2>6. FctpTypes'
            BY <1>0, <1>21, <2>5 DEF FctpRequest, FctpTypes
      <2>7. SrvTypes'
            BY <1>0, <1>21 DEF FctpRequest, SrvTypes
      <2> QED
            BY <1>0, <1>21, <2>6, <2>7 DEF FctpRequest
<1>18. CASE CopyArrives(s)
      <2>1. Path(s) \in Paths
            BY <1>0, <1>18 DEF AtPath, CopyArrives
      <2>2. copy[s].data \in Bytes /\ data[s][Path(s)] \in Bytes
            BY <1>0, <2>1 DEF FctpTypes, LocTypes, Copies
      <2>3. WriteBytes(data[s][Path(s)], 0, copy[s].data) \in Bytes
            BY <2>2, WriteBytesType DEF Bytes
      <2>4. LocTypes'
            BY <1>0, <1>18, <2>1, <2>3 DEF CopyArrives, OpenCreates, LocTypes
      <2>5. SrvTypes' /\ FctpTypes'
            BY <1>0, <1>18 DEF CopyArrives, HangUp, SrvTypes, FctpTypes
      <2> QED
            BY <1>0, <1>18, <2>4, <2>5 DEF CopyArrives
<1>19. CASE CopyFails(s)
      BY <1>0, <1>19 DEF CopyFails, HangUp, SrvTypes, FctpTypes
<1>20. CASE SendData(s)
      <2>1. Path(s) # Slash => down[s] \o DataOf(s) \in Bytes
            <3>1. Path(s) # Slash => DataOf(s) \in Bytes /\ down[s] \in Bytes
                  BY <1>0, <1>a DEF DataOf, LocTypes, NetTypes
            <3> QED
                  BY <3>1 DEF Bytes
      <2> QED
            BY <1>0, <1>20, <2>1 DEF SendData, NetTypes, SrvTypes
<1> QED
      BY <1>1, <1>2, <1>3, <1>4, <1>5, <1>6, <1>7, <1>8, <1>9, <1>10, <1>11, <1>12, <1>13,
         <1>14, <1>15, <1>16, <1>17, <1>18, <1>19, <1>20, <1>21, MainStep(s) DEF MainStep

\* Every step of the FCTP thread keeps the types (fctp_server).
LEMMA FctpTypesKept ==
    ASSUME TypeOK, NEW t \in Servers, ServingPath(t), FctpStep(t)
    PROVE  TypeOK'
<1> USE ConstantFacts, ValueFacts, Kept DEF TypeOK
<1>1. line[t] \in Seq(Conns) /\ serving[t] \in Conns
      BY DEF FctpTypes
<1>2. line[t] # <<>> => Head(line[t]) \in Conns /\ Tail(line[t]) \in Seq(Conns)
      BY <1>1
<1>3. CASE FctpOpen(t)
      <2> DEFINE c == Head(line[t])
      <2>1. c \in Conns /\ c.path \in Paths
            BY <1>2, <1>3 DEF FctpOpen
      <2>2. Size(t, c.path) \in Nat
            BY <2>1 DEF Size, DirSize, LocTypes, Bytes
      <2>3. [c EXCEPT !.size = Size(t, c.path)] \in Conns
            BY <2>1, <2>2 DEF Conns
      <2>4. /\ serving' = [serving EXCEPT ![t] = [c EXCEPT !.size = Size(t, c.path)]]
            /\ line' = [line EXCEPT ![t] = Tail(@)]
            /\ UNCHANGED <<dirvars, clivars, netvars, srvvars, locvars, copy, obsvars>>
            /\ line[t] # <<>>
            BY <1>3 DEF FctpOpen
      <2> HIDE DEF c
      <2>5. FctpTypes'
            BY <2>3, <2>4, <1>2 DEF FctpTypes
      <2> QED
            BY <2>4, <2>5
<1>4. ASSUME NEW c \in Conns, NEW m \in Copies PROVE Answered(c, m) \in [Servers -> Copies]
      BY DEF Answered, FctpTypes
<1>5. CASE FctpSend(t)
      <2> DEFINE sent == Upto(data[t][serving[t].path], serving[t].size)
      <2>1. serving[t].path \in Paths /\ serving[t].size \in Nat
            BY <1>1, <1>5 DEF ServingPath, FctpSend, Conns
      <2>2. sent \in Bytes
            <3>1. data[t][serving[t].path] \in Bytes
                  BY <2>1 DEF LocTypes
            <3> QED
                  BY <2>1, <3>1 DEF Upto, Bytes
      <2>3. FctpOk(sent) \in Copies
            BY <2>2 DEF FctpOk, Copies
      <2>4. /\ copy' = Answered(serving[t], FctpOk(sent))
            /\ serving' = [serving EXCEPT ![t] = Idle]
            /\ UNCHANGED <<dirvars, clivars, netvars, srvvars, locvars, line, obsvars>>
            BY <1>5 DEF FctpSend
      <2> HIDE DEF sent
      <2>5. FctpTypes'
            BY <2>3, <2>4, <1>1, <1>4 DEF FctpTypes
      <2> QED
            BY <2>4, <2>5
<1>6. CASE FctpErrorSent(t)
      <2>1. FctpError \in Copies
            BY DEF FctpError, Copies
      <2>2. copy' \in [Servers -> Copies]
            BY <1>2, <1>4, <1>6, <2>1 DEF FctpErrorSent, FctpMissing
      <2>3. line' \in [Servers -> Seq(Conns)]
            BY <1>2, <1>6 DEF FctpErrorSent, FctpMissing, FctpTypes
      <2>4. FctpTypes'
            BY <1>6, <2>2, <2>3 DEF FctpErrorSent, FctpTypes
      <2> QED
            BY <1>6, <2>4 DEF FctpErrorSent
<1>7. CASE FctpDoubleFree(t) \/ FctpNoRequest(t)
      BY <1>7, EndsTypes DEF FctpDoubleFree, FctpNoRequest, Exits, ObsTypes
<1> QED
      BY <1>3, <1>5, <1>6, <1>7 DEF FctpStep

\* A restart, a kill and the end of the directory keep the types.
LEMMA FailureTypes ==
    ASSUME TypeOK,
           DirectoryDies \/ \E s \in Servers : ServerDies(s) \/ Restart(s)
    PROVE  TypeOK'
<1> USE ConstantFacts, ValueFacts, Kept DEF TypeOK
<1>1. CASE DirectoryDies
      <2>1. DirTypes'
            BY <1>1 DEF DirectoryDies, DirTypes
      <2>2. ObsTypes'
            BY <1>1 DEF DirectoryDies, Killed, ObsTypes
      <2> QED
            BY <1>1, <2>1, <2>2 DEF DirectoryDies
<1>2. ASSUME NEW s \in Servers, ServerDies(s) PROVE TypeOK'
      <2>1. Ends(s) /\ ndeaths' \in 0..MaxDeaths
            BY <1>2 DEF ServerDies, Killed, ObsTypes
      <2> QED
            BY <2>1, EndsTypes
<1>3. ASSUME NEW s \in Servers, Restart(s) PROVE TypeOK'
      <2>1. CliTypes' /\ NetTypes'
            BY <1>3 DEF Restart, NewSession, CliTypes, NetTypes
      <2>2. SrvTypes'
            BY <1>3 DEF Restart, Goto, SrvTypes
      <2> QED
            BY <1>3, <2>1, <2>2 DEF Restart
<1> QED
      BY <1>1, <1>2, <1>3

\* A step that has nothing to do with the session and the files of a server.
SameSession(t) ==
    UNCHANGED <<cli[t], cmd[t], out[t], asked[t], rsp[t], up[t], down[t], left[t], pc[t],
                pos[t], peer[t], data[t]>>

\* Such a step keeps the session in step.
LEMMA SameSessionKept ==
    ASSUME NEW t \in Servers, Session(t), SameSession(t)
    PROVE  Session(t)'
<1> USE DEF SameSession, Session
<1>1. InHandler(t)' /\ AskedWhen(t)' /\ AtPrompt(t)' /\ InReceiving(t)' /\ Sending(t)'
      BY DEF InHandler, KindAt, AskedWhen, AtPrompt, InReceiving, Sending
<1>2. Accepting(t)' /\ LostWhen(t)' /\ NoneWhen(t)' /\ Writing(t)' /\ Answering(t)'
      BY DEF Accepting, LostWhen, NoneWhen, Writing, Answering
<1>3. Downward(t)' /\ AtPath(t)'
      BY DEF Downward, Announced, DataOf, Path, AtPath
<1> QED
      BY <1>1, <1>2, <1>3

\* The step of one server and its client leaves the other sessions alone.
LEMMA OtherSessions ==
    ASSUME TypeOK, NEW s \in Servers, NEW t \in Servers, t # s,
           User(s) \/ ClientStep(s) \/ ClientDies(s) \/ MainStep(s) \/ Restart(s)
           \/ ServerDies(s) \/ FctpStep(s)
    PROVE  SameSession(t)
<1> USE DEF SameSession, TypeOK, CliTypes, NetTypes, SrvTypes, LocTypes,
            dirvars, clivars, netvars, srvvars, locvars, fctpvars, obsvars, Goto
<1>1. ASSUME NEW c, NEW state, SendCommand(s, c, state) PROVE SameSession(t)
      BY <1>1 DEF SendCommand
<1>2. CASE User(s)
      BY <1>1, <1>2
      DEF User, ListDir, ClientQuit, NewFile, ReadFile, EditFile, NewClient, NewSession
<1>3. CASE ClientStep(s)
      BY <1>3 DEF ClientStep, WriteData, ReceiveResponse, ReceiveSize, ReceiveData, ResponseLost
<1>4. CASE ClientDies(s) \/ Restart(s)
      BY <1>4 DEF ClientDies, Restart, NewSession
<1>5. ASSUME Ends(s) PROVE SameSession(t)
      BY <1>5 DEF Ends, HangUp
<1>6. CASE ServerDies(s)
      BY <1>5, <1>6 DEF ServerDies
<1>7. CASE FctpStep(s)
      BY <1>5, <1>7
      DEF FctpStep, FctpOpen, FctpSend, FctpErrorSent, FctpDoubleFree, FctpNoRequest, Exits
<1>8. CASE MainStep(s)
      <2>1. CASE BrokenPipe(s) \/ FctpUnreachable(s) \/ OpenFails(s)
            BY <1>5, <2>1 DEF BrokenPipe, FctpUnreachable, OpenFails, Exits
      <2>2. CASE ClientLeft(s) \/ ServeQuit(s) \/ AskDirectory(s) \/ DirectoryGone(s)
            BY <2>2 DEF ClientLeft, ServeQuit, AskDirectory, DirectoryGone, Take, Respond
      <2>3. CASE ListAnswered(s) \/ CreateRefused(s) \/ CreateListed(s) \/ CreateLocal(s)
            BY <2>3 DEF ListAnswered, CreateRefused, CreateListed, CreateLocal, Respond
      <2>4. CASE UpdateAnswered(s) \/ UpdateRefused(s) \/ OpenWrite(s)
            BY <2>4 DEF UpdateAnswered, UpdateRefused, OpenWrite, Respond
      <2>5. CASE ReceiveFile(s)
            BY <2>5 DEF ReceiveFile, Respond
      <2>6. CASE ServeLocalFile(s) \/ NoLocalFile(s) \/ ServeCopy(s)
            BY <2>6 DEF ServeLocalFile, NoLocalFile, ServeCopy, AnswerSize, Take, Respond
      <2>7. CASE ReplicasAnswered(s) \/ FctpConnect(s) \/ FctpRequest(s)
            BY <2>7 DEF ReplicasAnswered, FctpConnect, FctpRequest
      <2>8. CASE CopyArrives(s) \/ CopyFails(s) \/ SendData(s)
            BY <2>8 DEF CopyArrives, CopyFails, SendData, HangUp
      <2> QED
            BY <1>8, <2>1, <2>2, <2>3, <2>4, <2>5, <2>6, <2>7, <2>8 DEF MainStep
<1> QED
      BY <1>2, <1>3, <1>4, <1>6, <1>7, <1>8

\* The types of what belongs to one session.
Locally(s) ==
    /\ cli[s] \in Active \cup {"none", "lost", "dead"} /\ cmd[s] \in Commands
    /\ asked[s] \in BOOLEAN /\ rsp[s] \in Responses /\ left[s] \in Int
    /\ up[s] \in Bytes /\ down[s] \in Bytes /\ out[s] \in Bytes
    /\ pos[s] \in Nat /\ peer[s] \in Servers \cup {NIL}

\* The types of the variables give those of each session.
LEMMA LocallyTyped ==
    ASSUME TypeOK, NEW s \in Servers
    PROVE  Locally(s)
BY DEF TypeOK, CliTypes, NetTypes, SrvTypes, Locally

\* The client's steps keep its session in step.
LEMMA ClientSession ==
    ASSUME TypeOK, NEW s \in Servers, Session(s),
           User(s) \/ ClientStep(s) \/ ClientDies(s)
    PROVE  Session(s)'
<1> USE DEF Session, InHandler, KindAt, AskedWhen, AtPrompt, InReceiving, Sending, Accepting,
            LostWhen, NoneWhen, Writing, Answering, Downward, Announced, AtPath, Path, DataOf,
            Handling, AtDirectory
<1>0. Locally(s)
      BY LocallyTyped
<1>1. CASE NewClient(s)
      <2>1. /\ pc'[s] = "serve" /\ cli'[s] = "prompt" /\ ~asked'[s] /\ rsp'[s] = NoResponse
            /\ down'[s] = <<>>
            BY <1>1 DEF NewClient, NewSession, Goto, TypeOK, CliTypes, NetTypes, SrvTypes
      <2> QED
            BY <2>1 DEF NoResponse, Response
<1>2. ASSUME NEW c, NEW state \in {"waiting", "writing"}, SendCommand(s, c, state),
             state = "writing" => c.kind = "write"
      PROVE  Session(s)'
      <2>1. /\ cli[s] = "prompt" /\ cli'[s] = state /\ asked'[s] /\ cmd'[s] = c
            /\ pc[s] # "down"
            /\ UNCHANGED <<pc, rsp, down, left, pos, peer, data>>
            BY <1>2 DEF SendCommand, TypeOK, CliTypes, NetTypes, netvars, srvvars, locvars
      <2> QED
            BY <1>0, <1>2, <2>1 DEF NoResponse, Response
<1>3. CASE User(s)
      <2>1. CASE ListDir(s) \/ ClientQuit(s)
            BY <1>2, <2>1 DEF ListDir, ClientQuit
      <2>2. ASSUME NEW path \in Entered[s], NewFile(s, path) \/ ReadFile(s, path)
            PROVE  Session(s)'
            BY <1>2, <2>2 DEF NewFile, ReadFile
      <2>3. ASSUME NEW path \in Entered[s], NEW len \in 1..MaxText, EditFile(s, path, len)
            PROVE  Session(s)'
            BY <1>2, <2>3 DEF EditFile, Command
      <2> QED
            BY <1>1, <1>3, <2>1, <2>2, <2>3 DEF User
<1>4. CASE WriteData(s)
      <2>1. /\ cli[s] = "writing" /\ cli'[s] = "waiting"
            /\ UNCHANGED <<cmd, asked, rsp, down, left, pc, pos, peer, data>>
            BY <1>4 DEF WriteData, TypeOK, CliTypes, srvvars, locvars
      <2> QED
            BY <1>0, <2>1
<1>5. CASE ReceiveResponse(s)
      <2>1. /\ cli[s] = "waiting" /\ rsp[s].kind \in {"FILEINFO", "OK", "ERROR"}
            /\ cli'[s] = IF cmd[s].kind = "quit" THEN "none" ELSE "prompt"
            /\ rsp'[s] = NoResponse /\ cmd'[s] = NoCommand
            /\ UNCHANGED <<asked, down, left, pc, pos, peer, data>>
            BY <1>5 DEF ReceiveResponse, TypeOK, CliTypes, NetTypes, srvvars, locvars
      <2> QED
            BY <1>0, <2>1 DEF NoResponse, Response
<1>6. CASE ReceiveSize(s)
      <2>1. /\ cli[s] = "waiting" /\ rsp[s].kind = "DATAOUT"
            /\ cli'[s] = IF rsp[s].size = 0 THEN "prompt" ELSE "receiving"
            /\ rsp'[s] = NoResponse /\ left'[s] = rsp[s].size
            /\ UNCHANGED <<asked, cmd, down, pc, pos, peer, data>>
            BY <1>6 DEF ReceiveSize, TypeOK, CliTypes, NetTypes, srvvars, locvars
      <2> QED
            BY <1>0, <2>1 DEF NoResponse, Response, Locally, Bytes, Responses
<1>7. CASE ReceiveData(s)
      <2>1. PICK k \in ReadAmounts(down[s]) :
                /\ down' = [down EXCEPT ![s] = From(@, k)]
                /\ left' = [left EXCEPT ![s] = @ - k]
                /\ cli' = [cli EXCEPT ![s] = IF RecvDone(s, k) THEN "prompt" ELSE "receiving"]
            BY <1>7 DEF ReceiveData
      <2>2. /\ k \in Nat \ {0} /\ down'[s] \in Bytes /\ Len(down'[s]) = Len(down[s]) - k
            BY <1>0, <2>1, ReceivedType DEF Locally, TypeOK, NetTypes
      <2>3. /\ left'[s] = left[s] - k
            /\ cli'[s] = IF left[s] = k THEN "prompt" ELSE "receiving"
            /\ cli[s] = "receiving"
            /\ UNCHANGED <<asked, rsp, cmd, pc, pos, peer, data>>
            BY <1>7, <2>1
            DEF ReceiveData, RecvDone, TypeOK, CliTypes, NetTypes, srvvars, locvars
      <2>4. down[s] # <<>>
            BY <1>0, <2>2 DEF Locally, Bytes
      <2> QED
            BY <1>0, <2>2, <2>3, <2>4 DEF NoResponse, Response, Locally, Bytes
<1>8. CASE ResponseLost(s)
      <2>1. /\ cli[s] = "waiting" /\ pc[s] = "down" /\ rsp[s] = NoResponse /\ cli'[s] = "lost"
            /\ UNCHANGED <<asked, rsp, cmd, down, left, pc, pos, peer, data>>
            BY <1>8 DEF ResponseLost, TypeOK, CliTypes, netvars, srvvars, locvars
      <2> QED
            BY <1>0, <2>1 DEF NoResponse, Response
<1>9. CASE ClientDies(s)
      <2>1. /\ cli[s] \in Active /\ cli'[s] = "dead" /\ rsp'[s] = NoResponse /\ down'[s] = <<>>
            /\ UNCHANGED <<asked, cmd, left, pc, pos, peer, data>>
            BY <1>9 DEF ClientDies, TypeOK, CliTypes, NetTypes, srvvars, locvars
      <2> QED
            BY <1>0, <2>1 DEF NoResponse, Response, Active
<1> QED
      BY <1>3, <1>4, <1>5, <1>6, <1>7, <1>8, <1>9 DEF ClientStep

\* The end of a server keeps its session in step.
LEMMA EndsSession ==
    ASSUME TypeOK, NEW s \in Servers, Session(s), Ends(s)
    PROVE  Session(s)'
<1> USE DEF Session, InHandler, KindAt, AskedWhen, AtPrompt, InReceiving, Sending, Accepting,
            LostWhen, NoneWhen, Writing, Answering, Downward, Announced, AtPath, Path, DataOf,
            Handling, AtDirectory
<1>0. Locally(s)
      BY LocallyTyped
<1>1. /\ pc'[s] = "down"
      /\ UNCHANGED <<cli, cmd, asked, rsp, down, left, data>>
      BY DEF Ends, TypeOK, SrvTypes, clivars, netvars, locvars
<1> QED
      BY <1>0, <1>1 DEF NoResponse, Response

\* Every step of the main thread keeps its session in step (serve_client and its
\* handlers in src/fsservd.c).
LEMMA MainSession ==
    ASSUME TypeOK, NEW s \in Servers, Session(s), MainStep(s)
    PROVE  Session(s)'
<1> USE DEF Session, InHandler, KindAt, AskedWhen, AtPrompt, InReceiving, Sending, Accepting,
            LostWhen, NoneWhen, Writing, Answering, Downward, Announced, AtPath, Path, DataOf,
            Handling, AtDirectory
<1>0. Locally(s)
      BY LocallyTyped
<1>a. Path(s) \in Paths \cup {Slash}
      BY DEF TypeOK, CliTypes, Commands
<1>1. CASE ClientLeft(s)
      <2>1. /\ ~asked[s] /\ cli[s] = "dead" /\ pc[s] = "serve" /\ pc'[s] = "accept"
            /\ UNCHANGED <<cli, cmd, asked, rsp, down, left, pos, peer, data>>
            BY <1>1
            DEF ClientLeft, Goto, TypeOK, NetTypes, SrvTypes, clivars, netvars, srvvars, locvars
      <2> QED
            BY <1>0, <2>1 DEF NoResponse, Response
<1>2. CASE ServeQuit(s)
      <2>1. /\ asked[s] /\ cmd[s].kind = "quit" /\ pc[s] = "serve" /\ pc'[s] = "accept" /\ ~asked'[s]
            /\ rsp'[s] = IF cli[s] = "dead" THEN NoResponse ELSE Response("OK", 0)
            /\ UNCHANGED <<cli, cmd, down, left, pos, peer, data>>
            BY <1>2 DEF ServeQuit, Take, Respond, Goto, TypeOK, NetTypes, SrvTypes, clivars,
                netvars, srvvars, locvars
      <2> QED
            BY <1>0, <2>1 DEF NoResponse, Response
<1>3. CASE AskDirectory(s)
      <2>1. /\ asked[s] /\ pc[s] = "serve" /\ ~asked'[s]
            /\ \/ cmd[s].kind = "list" /\ pc'[s] = "list"
               \/ cmd[s].kind = "create" /\ pc'[s] = "create"
               \/ cmd[s].kind = "write" /\ pc'[s] = "update"
            /\ UNCHANGED <<cli, cmd, rsp, down, left, pos, peer, data>>
            BY <1>3 DEF AskDirectory, Take, Goto, TypeOK, NetTypes, SrvTypes, clivars, netvars,
                srvvars, locvars
      <2> QED
            BY <1>0, <2>1 DEF NoResponse, Response
<1>4. CASE DirectoryGone(s)
      <2>1. /\ pc[s] \in AtDirectory /\ pc'[s] = (IF pc[s] = "replicas" THEN "reopen" ELSE "serve")
            /\ UNCHANGED <<cli, cmd, asked, rsp, down, left, pos, peer, data>>
            BY <1>4 DEF DirectoryGone, Goto, TypeOK, NetTypes, SrvTypes, clivars, netvars,
                srvvars, locvars
      <2> QED
            BY <1>0, <2>1 DEF NoResponse, Response
<1>5. ASSUME Ends(s) PROVE Session(s)'
      BY <1>5, EndsSession
<1>6. CASE BrokenPipe(s) \/ FctpUnreachable(s) \/ OpenFails(s)
      BY <1>5, <1>6 DEF BrokenPipe, FctpUnreachable, OpenFails, Exits
<1>7. CASE ListAnswered(s)
      <2>1. /\ pc[s] = "list" /\ pc'[s] = "serve"
            /\ rsp'[s] = IF cli[s] = "dead" THEN NoResponse ELSE Response("FILEINFO", 0)
            /\ UNCHANGED <<cli, cmd, asked, down, left, pos, peer, data>>
            BY <1>7 DEF ListAnswered, Respond, Goto, TypeOK, NetTypes, SrvTypes, clivars,
                netvars, srvvars, locvars
      <2> QED
            BY <1>0, <2>1 DEF NoResponse, Response
<1>8. CASE CreateRefused(s)
      <2>1. /\ pc[s] = "create" /\ pc'[s] = "serve"
            /\ rsp'[s] = IF cli[s] = "dead" THEN NoResponse ELSE Response("ERROR", 0)
            /\ UNCHANGED <<cli, cmd, asked, down, left, pos, peer, data>>
            BY <1>8 DEF CreateRefused, Respond, Goto, TypeOK, NetTypes, SrvTypes, clivars,
                netvars, srvvars, locvars
      <2> QED
            BY <1>0, <2>1 DEF NoResponse, Response
<1>9. CASE CreateListed(s)
      <2>1. /\ pc[s] = "create" /\ pc'[s] = "createlocal" /\ Path(s) # Slash
            /\ UNCHANGED <<cli, cmd, asked, rsp, down, left, pos, peer, data>>
            BY <1>9 DEF CreateListed, Listed, Goto, TypeOK, NetTypes, SrvTypes, clivars,
                netvars, srvvars, locvars
      <2> QED
            BY <1>0, <1>a, <2>1 DEF NoResponse, Response
<1>10. CASE CreateLocal(s)
      <2>1. /\ pc[s] = "createlocal" /\ pc'[s] = "serve"
            /\ rsp'[s] = IF cli[s] = "dead" THEN NoResponse ELSE Response("FILEINFO", 0)
            /\ UNCHANGED <<cli, cmd, asked, down, left, pos, peer, data>>
            BY <1>10 DEF CreateLocal, Respond, Goto, TypeOK, NetTypes, SrvTypes, clivars,
                netvars, srvvars, locvars
      <2> QED
            BY <1>0, <2>1 DEF NoResponse, Response
<1>11. CASE UpdateAnswered(s)
      <2>1. /\ pc[s] = "update" /\ pc'[s] = "writelocal"
            /\ UNCHANGED <<cli, cmd, asked, rsp, down, left, pos, peer, data>>
            BY <1>11 DEF UpdateAnswered, Goto, TypeOK, NetTypes, SrvTypes, clivars, netvars,
                srvvars, locvars
      <2> QED
            BY <1>0, <2>1 DEF NoResponse, Response
<1>12. CASE UpdateRefused(s)
      <2>1. /\ pc[s] = "update" /\ pc'[s] = "serve"
            /\ rsp'[s] = IF cli[s] = "dead" THEN NoResponse ELSE Response("ERROR", 0)
            /\ UNCHANGED <<cli, cmd, asked, down, left, pos, peer, data>>
            BY <1>12 DEF UpdateRefused, AfterRefusal, Respond, Goto, TypeOK, NetTypes,
                SrvTypes, clivars, netvars, srvvars, locvars
      <2> QED
            BY <1>0, <2>1 DEF NoResponse, Response
<1>13. CASE OpenWrite(s)
      <2>1. /\ pc[s] = "writelocal" /\ pc'[s] = "recv" /\ Path(s) # Slash /\ pos'[s] = 0
            /\ UNCHANGED <<cli, cmd, asked, rsp, down, peer, data>>
            BY <1>13
            DEF OpenWrite, Goto, TypeOK, NetTypes, SrvTypes, clivars, netvars, srvvars, locvars
      <2>2. Path(s) \in Paths => Len(data[s][Path(s)]) \in Nat
            BY DEF TypeOK, LocTypes, Bytes
      <2> QED
            BY <1>0, <1>a, <2>1, <2>2 DEF NoResponse, Response
<1>14. CASE ReceiveFile(s)
      <2>1. PICK k \in ReadAmounts(up[s]) :
                /\ data' = [data EXCEPT ![s][Path(s)] =
                                WriteBytes(@, pos[s], SubSeq(up[s], 1, k))]
                /\ pos' = [pos EXCEPT ![s] = IF RecvDone(s, k) THEN 0 ELSE @ + k]
                /\ IF RecvDone(s, k)
                   THEN /\ pc' = [pc EXCEPT ![s] = "serve"]
                        /\ Respond(s, Response("OK", 0))
                   ELSE UNCHANGED <<pc, rsp>>
            BY <1>14 DEF ReceiveFile
      <2>2. pc[s] = "recv" /\ UNCHANGED <<cli, cmd, asked, down, peer>>
            BY <1>14 DEF ReceiveFile, clivars
      <2>3. Path(s) \in Paths /\ pos[s] <= Len(data[s][Path(s)])
            BY <2>2
      <2>4. /\ SubSeq(up[s], 1, k) \in Bytes /\ Len(SubSeq(up[s], 1, k)) = k /\ k \in Nat \ {0}
            /\ data[s][Path(s)] \in Bytes /\ pos[s] \in Nat
            BY <2>3, ReceivedType DEF TypeOK, NetTypes, LocTypes, SrvTypes
      <2> DEFINE written == WriteBytes(data[s][Path(s)], pos[s], SubSeq(up[s], 1, k))
      <2>5. pos[s] + k <= Len(written)
            <3> DEFINE old == data[s][Path(s)]
                       new == SubSeq(up[s], 1, k)
            <3>1. old \in Bytes /\ new \in Bytes /\ pos[s] \in Nat /\ pos[s] <= Len(old)
                  BY <2>3, <2>4
            <3>2. Len(old) \in Nat /\ Len(new) = k
                  BY <2>4, <3>1 DEF Bytes
            <3> HIDE DEF old, new
            <3>3. pos[s] + k <= Len(WriteBytes(old, pos[s], new))
                  BY <2>4, <3>1, <3>2, WriteBytesType
            <3> QED
                  BY <3>3 DEF old, new
      <2>6. data'[s][Path(s)] = WriteBytes(data[s][Path(s)], pos[s], SubSeq(up[s], 1, k))
            BY <2>1, <2>3 DEF TypeOK, LocTypes
      <2>7. CASE RecvDone(s, k)
            <3>1. /\ pc'[s] = "serve"
                  /\ rsp'[s] = IF cli[s] = "dead" THEN NoResponse ELSE Response("OK", 0)
                  BY <2>1, <2>7 DEF Respond, TypeOK, NetTypes, SrvTypes
            <3> QED
                  BY <1>0, <2>2, <3>1 DEF NoResponse, Response
      <2>8. CASE ~RecvDone(s, k)
            <3>1. pc'[s] = pc[s] /\ rsp'[s] = rsp[s] /\ pos'[s] = pos[s] + k
                  BY <2>1, <2>8 DEF TypeOK, SrvTypes
            <3>2. Path(s)' \in Paths /\ pos'[s] <= Len(data'[s][Path(s)'])
                  BY <2>2, <2>3, <2>5, <2>6, <3>1
            <3> QED
                  BY <1>0, <2>2, <3>1, <3>2 DEF NoResponse, Response
      <2> QED
            BY <2>7, <2>8
<1>15. CASE ServeLocalFile(s) \/ ServeCopy(s)
      <2>1. Size(s, Path(s)) \in Nat /\ (Path(s) # Slash => Size(s, Path(s)) = Len(DataOf(s)))
            BY <1>a DEF Size, DirSize, TypeOK, LocTypes, Bytes
      <2>2. /\ pc[s] \in {"serve", "reopen"} /\ cmd[s].kind = "read"
            /\ asked[s] \/ pc[s] = "reopen"
            /\ pc'[s] = IF Size(s, Path(s)) = 0 THEN "serve" ELSE "senddata"
            /\ ~asked'[s]
            /\ rsp'[s] = IF cli[s] = "dead" THEN NoResponse
                         ELSE Response("DATAOUT", Size(s, Path(s)))
            /\ UNCHANGED <<cli, cmd, down, left, pos, peer, data>>
            BY <1>15 DEF ServeLocalFile, ServeCopy, AnswerSize, Respond, Goto,
                         TypeOK, NetTypes, SrvTypes, clivars, locvars
      <2>3. cli[s] \in {"waiting", "dead"} /\ down[s] = <<>>
            BY <1>0, <2>2 DEF NoResponse, Response
      <2> HIDE DEF Size
      <2> QED
            BY <1>0, <2>1, <2>2, <2>3 DEF NoResponse, Response
<1>16. CASE NoLocalFile(s)
      <2>1. /\ asked[s] /\ pc[s] = "serve" /\ cmd[s].kind = "read" /\ ~asked'[s]
            /\ pc'[s] = "replicas" /\ Path(s) # Slash
            /\ UNCHANGED <<cli, cmd, rsp, down, left, pos, peer, data>>
            BY <1>16 DEF NoLocalFile, Take, Goto, TypeOK, NetTypes, SrvTypes, clivars, locvars
      <2> QED
            BY <1>0, <1>a, <2>1 DEF NoResponse, Response
<1>17. CASE ReplicasAnswered(s)
      <2>1. /\ pc[s] = "replicas" /\ pc'[s] = (IF rootstorer = NIL THEN "reopen" ELSE "connect")
            /\ peer'[s] = rootstorer /\ rootstorer \in Servers \cup {NIL}
            /\ UNCHANGED <<cli, cmd, asked, rsp, down, left, pos, data>>
            BY <1>17
            DEF ReplicasAnswered, Goto, TypeOK, SrvTypes, DirTypes, clivars, netvars, locvars
      <2> QED
            BY <1>0, <2>1 DEF NoResponse, Response
<1>18. CASE FctpConnect(s)
      <2>1. /\ pc[s] = "connect" /\ pc'[s] = "request"
            /\ UNCHANGED <<cli, cmd, asked, rsp, down, left, pos, peer, data>>
            BY <1>18 DEF FctpConnect, Goto, TypeOK, NetTypes, SrvTypes, clivars, netvars,
                srvvars, locvars
      <2> QED
            BY <1>0, <2>1 DEF NoResponse, Response
<1>19. CASE FctpRequest(s)
      <2>1. /\ pc[s] = "request" /\ pc'[s] = "fetch"
            /\ UNCHANGED <<cli, cmd, asked, rsp, down, left, pos, peer, data>>
            BY <1>19 DEF FctpRequest, Goto, TypeOK, NetTypes, SrvTypes, clivars, netvars,
                srvvars, locvars
      <2> QED
            BY <1>0, <2>1 DEF NoResponse, Response
<1>20. CASE CopyArrives(s) \/ CopyFails(s)
      <2>1. /\ pc[s] = "fetch" /\ pc'[s] = "reopen"
            /\ UNCHANGED <<cli, cmd, asked, rsp, down, left, pos>>
            BY <1>20 DEF CopyArrives, CopyFails, Goto, TypeOK, NetTypes, SrvTypes, clivars,
                netvars, srvvars, locvars
      <2> QED
            BY <1>0, <2>1 DEF NoResponse, Response
<1>21. CASE SendData(s)
      <2>1. /\ pc[s] = "senddata" /\ pc'[s] = "serve"
            /\ UNCHANGED <<cli, cmd, asked, rsp, left, pos, peer, data>>
            /\ down'[s] = IF cli[s] = "dead" \/ Path(s) = Slash THEN down[s]
                          ELSE down[s] \o DataOf(s)
            BY <1>21 DEF SendData, Goto, TypeOK, NetTypes, SrvTypes, clivars, locvars
      <2>2. Path(s) # Slash => DataOf(s) \in Bytes /\ Len(DataOf(s)) \in Nat
            BY <1>a DEF TypeOK, LocTypes, Bytes
      <2>3. down[s] = <<>> /\ (Path(s) # Slash => down[s] \o DataOf(s) = DataOf(s))
            <3>1. down[s] = <<>>
                  BY <1>0, <2>1 DEF NoResponse, Response
            <3>2. ASSUME NEW bytes \in Bytes PROVE <<>> \o bytes = bytes
                  BY DEF Bytes
            <3> QED
                  BY <2>2, <3>1, <3>2
      <2>4. cli[s] = "receiving" => left[s] \in Nat \ {0} /\ rsp[s] = NoResponse
            BY <1>0, <2>1 DEF Locally
      <2>5. rsp[s].kind = "DATAOUT" => rsp[s].size \in Nat \ {0} /\ cli[s] = "waiting"
            BY <1>0, <2>1 DEF Locally, Responses, NoResponse, Response
      <2>6. Downward(s)'
            BY <1>0, <2>1, <2>2, <2>3, <2>4, <2>5 DEF NoResponse, Response
      <2> QED
            BY <1>0, <2>1, <2>6 DEF NoResponse, Response
<1> QED
      BY <1>1, <1>2, <1>3, <1>4, <1>6, <1>7, <1>8, <1>9, <1>10, <1>11, <1>12, <1>13,
         <1>14, <1>15, <1>16, <1>17, <1>18, <1>19, <1>20, <1>21 DEF MainStep

\* A restart, a kill and a step of the FCTP thread keep the session in step.
LEMMA ServerSession ==
    ASSUME TypeOK, NEW s \in Servers, Session(s),
           Restart(s) \/ ServerDies(s) \/ FctpStep(s)
    PROVE  Session(s)'
<1> USE DEF Session, InHandler, KindAt, AskedWhen, AtPrompt, InReceiving, Sending, Accepting,
            LostWhen, NoneWhen, Writing, Answering, Downward, Announced, AtPath, Path, DataOf,
            Handling, AtDirectory
<1>0. Locally(s)
      BY LocallyTyped
<1>1. CASE Restart(s)
      <2>1. /\ pc'[s] = "accept" /\ cli'[s] = "none" /\ ~asked'[s] /\ rsp'[s] = NoResponse
            /\ down'[s] = <<>>
            BY <1>1 DEF Restart, NewSession, Goto, TypeOK, CliTypes, NetTypes, SrvTypes
      <2> QED
            BY <2>1 DEF NoResponse, Response
<1>2. ASSUME Ends(s) PROVE Session(s)'
      BY <1>2, EndsSession
<1>3. CASE ServerDies(s) \/ FctpDoubleFree(s) \/ FctpNoRequest(s)
      BY <1>2, <1>3 DEF ServerDies, FctpDoubleFree, FctpNoRequest, Exits
<1>4. CASE FctpOpen(s) \/ FctpSend(s) \/ FctpErrorSent(s)
      <2>1. SameSession(s)
            BY <1>4 DEF FctpOpen, FctpSend, FctpErrorSent, SameSession, clivars, netvars,
                srvvars, locvars
      <2> QED
            BY <2>1, SameSessionKept
<1> QED
      BY <1>1, <1>3, <1>4 DEF FctpStep

\* Every step keeps what the FCTP threads serve.
LEMMA ServingKept ==
    ASSUME TypeOK, NEW s \in Servers, NEW t \in Servers, ServingPath(t),
           User(s) \/ ClientStep(s) \/ ClientDies(s) \/ MainStep(s) \/ Restart(s)
           \/ ServerDies(s) \/ FctpStep(s)
    PROVE  ServingPath(t)'
<1> USE DEF ServingPath
<1>0. serving \in [Servers -> Conns]
      BY DEF TypeOK, FctpTypes
<1>1. ASSUME UNCHANGED serving PROVE ServingPath(t)'
      BY <1>1
<1>2. ASSUME Ends(s) PROVE ServingPath(t)'
      <2>1. serving'[t] = IF t = s THEN Idle ELSE LeftBy(serving[t], s)
            BY <1>2 DEF Ends
      <2>2. CASE serving[t] = Idle
            <3>1. LeftBy(Idle, s) = Idle
                  BY ConstantFacts DEF LeftBy, Idle
            <3> QED
                  BY <2>1, <2>2, <3>1
      <2>3. CASE serving[t] # Idle
            <3>1. LeftBy(serving[t], s).path = serving[t].path
                  BY <1>0 DEF LeftBy, Conns
            <3> QED
                  BY <2>1, <2>3, <3>1
      <2> QED
            BY <2>2, <2>3
<1>3. CASE FctpOpen(s)
      <2> DEFINE c == Head(line[s])
                 new == [c EXCEPT !.size = Size(s, c.path)]
      <2>1. serving' = [serving EXCEPT ![s] = new] /\ c.path \in Paths /\ line[s] # <<>>
            BY <1>3 DEF FctpOpen
      <2>2. c \in Conns
            BY <2>1 DEF TypeOK, FctpTypes
      <2>3. new.path = c.path
            BY <2>2 DEF Conns
      <2> HIDE DEF c, new
      <2> QED
            BY <1>0, <2>1, <2>3
<1>4. CASE FctpSend(s)
      BY <1>0, <1>4 DEF FctpSend
<1>5. CASE FctpErrorSent(s)
      BY <1>1, <1>5 DEF FctpErrorSent
<1>6. CASE FctpDoubleFree(s) \/ FctpNoRequest(s) \/ ServerDies(s)
      BY <1>2, <1>6 DEF FctpDoubleFree, FctpNoRequest, ServerDies, Exits
<1>7. CASE User(s) \/ ClientStep(s) \/ ClientDies(s) \/ Restart(s)
      BY <1>1, <1>7
      DEF User, NewClient, ListDir, ClientQuit, NewFile, ReadFile, EditFile, SendCommand,
         ClientStep, WriteData, ReceiveResponse, ReceiveSize, ReceiveData, ResponseLost,
         ClientDies,
         Restart, fctpvars
<1>8. CASE MainStep(s)
      <2>1. CASE BrokenPipe(s) \/ FctpUnreachable(s) \/ OpenFails(s)
            BY <1>2, <2>1 DEF BrokenPipe, FctpUnreachable, OpenFails, Exits
      <2>2. CASE ~(BrokenPipe(s) \/ FctpUnreachable(s) \/ OpenFails(s))
            <3>1. UNCHANGED serving
                  BY <1>8, <2>2
                  DEF MainStep, ClientLeft, ServeQuit, AskDirectory, DirectoryGone,
                      ListAnswered,
                      CreateRefused, CreateListed, CreateLocal, UpdateAnswered, UpdateRefused,
                      OpenWrite, ReceiveFile, ServeLocalFile, NoLocalFile, ReplicasAnswered,
                      FctpConnect, FctpRequest, CopyArrives, CopyFails, ServeCopy, SendData,
                      fctpvars
            <3> QED
                  BY <1>1, <3>1
      <2> QED
            BY <2>1, <2>2
<1> QED
      BY <1>3, <1>4, <1>5, <1>6, <1>7, <1>8 DEF FctpStep

\* The sessions are in step when the system starts.
LEMMA SessionInit == Init => SessionInv
<1> SUFFICES ASSUME Init PROVE SessionInv
    OBVIOUS
<1> USE ConstantFacts, ValueFacts DEF Init
<1>1. DirTypes /\ LocTypes
      BY DEF DirTypes, LocTypes
<1>5. ObsTypes
      BY DEF ObsTypes
<1>2. CliTypes /\ SrvTypes
      BY DEF CliTypes, SrvTypes
<1>3. NetTypes /\ FctpTypes
      BY DEF NetTypes, FctpTypes
<1>4. ASSUME NEW s \in Servers PROVE Session(s) /\ ServingPath(s)
      BY DEF Session, InHandler, KindAt, AskedWhen, AtPrompt, InReceiving, Sending, Accepting,
             LostWhen, NoneWhen, Writing, Answering, Downward, AtPath, Handling, AtDirectory,
             ServingPath,
             NoResponse, Response
<1> QED
      BY <1>1, <1>2, <1>3, <1>4, <1>5 DEF SessionInv, TypeOK

\* Every step of the system keeps every session in step.
LEMMA SessionStep == SessionInv /\ [Next]_vars => SessionInv'
<1> SUFFICES ASSUME SessionInv, [Next]_vars PROVE SessionInv'
    OBVIOUS
<1>0. TypeOK /\ \A t \in Servers : Session(t) /\ ServingPath(t)
      BY DEF SessionInv
<1>1. ASSUME NEW s \in Servers,
             User(s) \/ ClientStep(s) \/ ClientDies(s) \/ MainStep(s) \/ Restart(s)
             \/ ServerDies(s) \/ FctpStep(s)
      PROVE  SessionInv'
      <2>1. TypeOK'
            BY <1>0, <1>1, ClientTypes, MainTypes, FctpTypesKept, FailureTypes
      <2>2. Session(s)'
            <3>1. CASE User(s) \/ ClientStep(s) \/ ClientDies(s)
                  BY <1>0, <3>1, ClientSession
            <3>2. CASE MainStep(s)
                  BY <1>0, <3>2, MainSession
            <3>3. CASE Restart(s) \/ ServerDies(s) \/ FctpStep(s)
                  BY <1>0, <3>3, ServerSession
            <3> QED
                  BY <1>1, <3>1, <3>2, <3>3
      <2>3. ASSUME NEW t \in Servers, t # s PROVE Session(t)'
            BY <1>0, <1>1, <2>3, OtherSessions, SameSessionKept
      <2>4. ASSUME NEW t \in Servers PROVE ServingPath(t)'
            BY <1>0, <1>1, ServingKept
      <2> QED
            BY <2>1, <2>2, <2>3, <2>4 DEF SessionInv
<1>2. CASE DirectoryDies
      <2>1. TypeOK'
            BY <1>0, <1>2, FailureTypes
      <2>2. ASSUME NEW t \in Servers PROVE Session(t)' /\ ServingPath(t)'
            <3>1. SameSession(t) /\ UNCHANGED serving
                  BY <1>2
                  DEF DirectoryDies, SameSession, clivars, netvars, srvvars, locvars, fctpvars
            <3> QED
                  BY <1>0, <3>1, SameSessionKept DEF ServingPath
      <2> QED
            BY <2>1, <2>2 DEF SessionInv
<1>3. CASE UNCHANGED vars
      <2>1. TypeOK'
            BY <1>0, <1>3, Kept
            DEF vars, dirvars, clivars, netvars, srvvars, locvars, fctpvars, obsvars, TypeOK
      <2>2. ASSUME NEW t \in Servers PROVE Session(t)' /\ ServingPath(t)'
            <3>1. SameSession(t) /\ UNCHANGED serving
                  BY <1>3 DEF vars, SameSession
            <3> QED
                  BY <1>0, <3>1, SameSessionKept DEF ServingPath
      <2> QED
            BY <2>1, <2>2 DEF SessionInv
<1> QED
      BY <1>1, <1>2, <1>3 DEF Next, Failure

\* In every session the client, the connections and the handler of the server are
\* in matching states (serve_client with its handlers, and src/fap.c).
THEOREM SessionsInStep == Spec => []SessionInv
<1>1. Init => SessionInv
      BY SessionInit
<1>2. SessionInv /\ [Next]_vars => SessionInv'
      BY SessionStep
<1> QED
      BY <1>1, <1>2, PTL DEF Spec

\* Every variable keeps its type.
THEOREM TypeCorrect == Spec => []TypeOK
<1>1. SessionInv => TypeOK
      BY DEF SessionInv
<1> QED
      BY <1>1, SessionsInStep, PTL

\* Every answer goes to a client that waits for it or is about to, and is an
\* answer to its command (serve_client and its handlers in src/fsservd.c).
THEOREM AnswersFitHolds == Spec => []AnswersFit
<1>1. SessionInv => AnswersFit
      BY DEF SessionInv, Session, Answering, AnswersFit, TypeOK, NetTypes, Responses
<1> QED
      BY <1>1, SessionsInStep, PTL

\* The server has the file, or is making it, or ended since.
HasFile(s, path) ==
    \/ path \in files[s]
    \/ pc[s] \in {"createlocal", "writelocal"} /\ Path(s) = path
    \/ s \in ended

\* Files are never removed, and a server that ended is remembered.
LEMMA FilesGrow ==
    ASSUME TypeOK, NEW s \in Servers, NEW t \in Servers,
           User(s) \/ ClientStep(s) \/ ClientDies(s) \/ MainStep(s) \/ Restart(s)
           \/ ServerDies(s) \/ FctpStep(s)
    PROVE  files[t] \subseteq files'[t] /\ ended \subseteq ended'
<1> USE DEF locvars, obsvars
<1>0. files \in [Servers -> SUBSET Paths]
      BY DEF TypeOK, LocTypes
<1>1. ASSUME Ends(s) PROVE files[t] \subseteq files'[t] /\ ended \subseteq ended'
      BY <1>1 DEF Ends
<1>2. CASE User(s) \/ ClientStep(s) \/ ClientDies(s) \/ Restart(s)
      BY <1>2
      DEF User, NewClient, ListDir, ClientQuit, NewFile, ReadFile, EditFile, SendCommand,
         ClientStep, WriteData, ReceiveResponse, ReceiveSize, ReceiveData, ResponseLost,
         ClientDies,
         Restart
<1>3. CASE ServerDies(s) \/ FctpStep(s)
      BY <1>1, <1>3 DEF ServerDies, FctpStep, FctpOpen, FctpSend, FctpErrorSent, FctpDoubleFree,
         FctpNoRequest, Exits
<1>4. CASE CreateLocal(s) \/ OpenWrite(s) \/ CopyArrives(s)
      BY <1>0, <1>4 DEF CreateLocal, OpenWrite, CopyArrives, OpenCreates
<1>5. CASE MainStep(s) /\ ~(CreateLocal(s) \/ OpenWrite(s) \/ CopyArrives(s))
      BY <1>1, <1>5
      DEF MainStep, BrokenPipe, FctpUnreachable, OpenFails, Exits,
          ClientLeft, ServeQuit, AskDirectory, DirectoryGone, ListAnswered,
          CreateRefused, CreateListed, UpdateAnswered, UpdateRefused,
          ReceiveFile, ServeLocalFile, NoLocalFile, ReplicasAnswered,
          FctpConnect, FctpRequest, CopyFails, ServeCopy, SendData
<1> QED
      BY <1>2, <1>3, <1>4, <1>5

\* A server that has a file keeps it, or makes it, or ends.
LEMMA HasFileKept ==
    ASSUME SessionInv, NEW s \in Servers, NEW t \in Servers, NEW path, HasFile(t, path),
           User(s) \/ ClientStep(s) \/ ClientDies(s) \/ MainStep(s) \/ Restart(s)
           \/ ServerDies(s) \/ FctpStep(s)
    PROVE  HasFile(t, path)'
<1>0. TypeOK /\ Session(s) /\ files[t] \subseteq files'[t] /\ ended \subseteq ended'
      BY FilesGrow DEF SessionInv
<1>1. CASE path \in files[t] \/ t \in ended
      BY <1>0, <1>1 DEF HasFile
<1>2. CASE t # s
      <2>1. SameSession(t)
            BY <1>0, <1>2, OtherSessions
      <2> QED
            BY <1>0, <2>1 DEF HasFile, SameSession, Path
<1>3. CASE t = s /\ pc[s] \in {"createlocal", "writelocal"} /\ Path(s) = path
      <2>0. /\ cli[s] \notin {"prompt", "receiving"} /\ rsp[s] = NoResponse /\ ~asked[s]
            /\ cmd[s].kind # "read"
            BY <1>0, <1>3 DEF Session, InHandler, KindAt, Handling
      <2>1. CASE CreateLocal(s) \/ OpenWrite(s)
            BY <1>0, <1>3, <2>1
            DEF CreateLocal, OpenWrite, OpenCreates, HasFile, TypeOK, LocTypes
      <2>2. ASSUME Ends(s) PROVE HasFile(t, path)'
            BY <1>3, <2>2 DEF Ends, HasFile
      <2>3. CASE ServerDies(s) \/ OpenFails(s) \/ BrokenPipe(s) \/ FctpUnreachable(s)
                 \/ FctpDoubleFree(s) \/ FctpNoRequest(s)
            BY <2>2, <2>3
            DEF ServerDies, OpenFails, BrokenPipe, FctpUnreachable, FctpDoubleFree,
                              FctpNoRequest, Exits
      <2>4. CASE WriteData(s) \/ ResponseLost(s) \/ ClientDies(s)
                 \/ FctpOpen(s) \/ FctpSend(s) \/ FctpErrorSent(s)
            <3>1. UNCHANGED <<cmd, pc>>
                  BY <2>4
                  DEF WriteData, ResponseLost, ClientDies, FctpOpen, FctpSend, FctpErrorSent,
                              srvvars, clivars
            <3> QED
                  BY <1>3, <3>1 DEF HasFile, Path
      <2>5. ~(User(s) \/ ReceiveResponse(s) \/ ReceiveSize(s) \/ ReceiveData(s) \/ Restart(s))
            BY <1>3, <2>0
            DEF User, NewClient, ListDir, ClientQuit, NewFile, ReadFile, EditFile, SendCommand,
                ReceiveResponse, ReceiveSize, ReceiveData, Restart, Goto, NoResponse, Response
      <2>6. ASSUME MainStep(s)
            PROVE  CreateLocal(s) \/ OpenWrite(s) \/ OpenFails(s) \/ BrokenPipe(s) \/ FctpUnreachable(s)
            BY <1>3, <2>0, <2>6
            DEF MainStep, ClientLeft, ServeQuit, AskDirectory, Take, DirectoryGone,
                ListAnswered,
                CreateRefused, CreateListed, UpdateAnswered, UpdateRefused, AtDirectory,
                ReceiveFile, ServeLocalFile, NoLocalFile, ReplicasAnswered, AnswerSize,
                FctpConnect, FctpRequest, CopyArrives, CopyFails, ServeCopy, SendData, Goto
      <2> QED
            BY <2>1, <2>3, <2>4, <2>5, <2>6 DEF ClientStep, FctpStep
<1> QED
      BY <1>1, <1>2, <1>3 DEF HasFile

\* Only a server that makes or writes a file becomes the one the directory names.
LEMMA NewEntry ==
    ASSUME SessionInv, NEW s \in Servers, NEW path \in Paths,
           User(s) \/ ClientStep(s) \/ ClientDies(s) \/ MainStep(s) \/ Restart(s)
           \/ ServerDies(s) \/ FctpStep(s)
    PROVE  storer'[path] = storer[path] \/ (storer'[path] = s /\ HasFile(s, path)')
<1>0. TypeOK
      BY DEF SessionInv
<1> USE DEF dirvars
<1>1. ASSUME Ends(s) PROVE UNCHANGED storer
      BY <1>1 DEF Ends
<1>2. CASE User(s) \/ ClientStep(s) \/ ClientDies(s) \/ Restart(s) \/ ServerDies(s) \/ FctpStep(s)
      BY <1>1, <1>2
      DEF User, NewClient, ListDir, ClientQuit, NewFile, ReadFile, EditFile, SendCommand,
          ClientStep, WriteData, ReceiveResponse, ReceiveSize, ReceiveData, ResponseLost,
          ClientDies,
          Restart, ServerDies, FctpStep, FctpOpen, FctpSend, FctpErrorSent, FctpDoubleFree,
          FctpNoRequest, Exits
<1>3. CASE CreateListed(s)
      <2>1. /\ storer' = [storer EXCEPT ![Path(s)] = s] /\ pc'[s] = "createlocal" /\ cmd' = cmd
            BY <1>0, <1>3 DEF CreateListed, Goto, TypeOK, SrvTypes, clivars
      <2> QED
            BY <1>0, <2>1 DEF HasFile, Path, TypeOK, DirTypes
<1>4. CASE UpdateAnswered(s)
      <2>1. /\ storer' = storer \/ storer' = [storer EXCEPT ![Path(s)] = s]
            /\ pc'[s] = "writelocal" /\ cmd' = cmd
            BY <1>0, <1>4
            DEF UpdateAnswered, UpdateRoot, UpdatePath, Goto, TypeOK, SrvTypes, clivars
      <2> QED
            BY <1>0, <2>1 DEF HasFile, Path, TypeOK, DirTypes
<1>5. CASE MainStep(s) /\ ~(CreateListed(s) \/ UpdateAnswered(s))
      BY <1>1, <1>5
      DEF MainStep, BrokenPipe, FctpUnreachable, OpenFails, Exits,
          ClientLeft, ServeQuit, AskDirectory, DirectoryGone, ListAnswered,
          CreateRefused, CreateLocal, UpdateRefused, OpenWrite,
          ReceiveFile, ServeLocalFile, NoLocalFile, ReplicasAnswered,
          FctpConnect, FctpRequest, CopyArrives, CopyFails, ServeCopy, SendData
<1> QED
      BY <1>2, <1>3, <1>4, <1>5

\* The server that the directory names for a file has it, or is making it, or
\* ended since (create_file and write_file in src/fsservd.c).
THEOREM EntryHasFileHolds == Spec => []EntryHasFile
<1> DEFINE Entries == \A path \in Paths : storer[path] # NIL => HasFile(storer[path], path)
<1>1. Init => Entries
      BY DEF Init
<1>2. SessionInv /\ Entries /\ [Next]_vars => Entries'
      <2> SUFFICES ASSUME SessionInv, Entries, [Next]_vars, NEW path \in Paths,
      storer'[path] # NIL
                   PROVE  HasFile(storer[path], path)'
          OBVIOUS
      <2>0. storer[path] \in Servers \cup {NIL}
            BY DEF SessionInv, TypeOK, DirTypes
      <2>1. ASSUME NEW s \in Servers,
                   User(s) \/ ClientStep(s) \/ ClientDies(s) \/ MainStep(s) \/ Restart(s)
                   \/ ServerDies(s) \/ FctpStep(s)
            PROVE  HasFile(storer[path], path)'
            <3>1. CASE storer'[path] = storer[path]
                  <4>1. HasFile(storer[path], path)
                        BY <3>1
                  <4>2. \A t \in Servers : t = storer[path] => HasFile(t, path)'
                        BY <2>1, <4>1, HasFileKept
                  <4> QED
                        BY <2>0, <3>1, <4>2
            <3>2. CASE storer'[path] = s /\ HasFile(s, path)'
                  BY <3>2
            <3> QED
                  BY <2>1, <3>1, <3>2, NewEntry
      <2>2. CASE DirectoryDies \/ UNCHANGED vars
            <3>1. UNCHANGED <<storer, files, pc, cmd, ended>>
                  BY <2>2 DEF DirectoryDies, vars, srvvars, clivars, locvars
            <3> QED
                  BY <3>1 DEF HasFile, Path
      <2> QED
            BY <2>1, <2>2 DEF Next, Failure
<1>3. Entries => EntryHasFile
      BY DEF EntryHasFile, HasFile
<1> QED
      BY <1>1, <1>2, <1>3, SessionsInStep, PTL DEF Spec
==============================================================================
