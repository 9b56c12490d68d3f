------------------------- MODULE FileServiceDataProofs -------------------------
(* The data connections: recvfile's counts are exact and the bytes arrive in    *)
(* the file, or on the terminal, that they are for.  Transfers between file     *)
(* servers: one is linked to at most one other, and the copy it gets is of the  *)
(* file it asked for.                                                           *)
EXTENDS FileServiceProofs

\* The byte that the text of the edit in progress repeats.
TextIn(s) == Text(cmd[s].path, cmd[s].no)

\* Bytes that are n times the same.
Repeats(bytes, n, text) == Len(bytes) = n /\ \A i \in 1..n : bytes[i] = text

\* The data connection to the server is empty but for the text of the edit the
\* server has not begun to receive.
Sent(s) ==
    /\ cmd[s].kind # "write" \/ cli[s] \in {"prompt", "writing"} \/ rsp[s] # NoResponse
           => up[s] = <<>>
    /\ cli[s] = "writing" => rsp[s] = NoResponse
    /\ cli[s] = "waiting" /\ cmd[s].kind = "write"
           /\ (asked[s] \/ pc[s] \in {"update", "writelocal"})
           => Repeats(up[s], cmd[s].len, TextIn(s))

\* While recvfile runs, the file starts with the part of the text received, and
\* the rest of the text is what is left.
Receiving(s) ==
    pc[s] = "recv" /\ cli[s] # "dead" =>
        /\ left[s] > 0 /\ pos[s] + left[s] = cmd[s].len
        /\ cli[s] = "writing" => pos[s] = 0
        /\ cli[s] = "waiting" => Repeats(up[s], left[s], TextIn(s))
        /\ \A i \in 1..pos[s] : data[s][Path(s)][i] = TextIn(s)

\* When the answer is OK, the file starts with the text.
Stored(s) ==
    rsp[s].kind = "OK" /\ cmd[s].kind = "write" =>
        /\ Path(s) \in Paths
        /\ cmd[s].len <= Len(data[s][Path(s)])
        /\ \A i \in 1..cmd[s].len : data[s][Path(s)][i] = TextIn(s)

\* The way of an edit, on a server that refused none.
Upward(s) ==
    /\ cmd[s].kind = "write" => cmd[s].len > 0
    /\ s \notin refused => Sent(s) /\ Receiving(s) /\ Stored(s)

\* What the terminal shows of a "cat", with what is on its way, is the file.
Shown(s, n) ==
    /\ Path(s) = Slash => n > 0
    /\ Path(s) # Slash =>
           \/ pc[s] # "senddata" /\ out[s] \o down[s] = DataOf(s) /\ n = Len(down[s])
           \/ pc[s] = "senddata" /\ out[s] = <<>>
           \/ pc[s] = "down" /\ n > Len(down[s])

\* The way of a "cat".
Output(s) ==
    /\ cli[s] = "receiving" => Shown(s, left[s])
    /\ rsp[s].kind = "DATAOUT" => Shown(s, rsp[s].size) /\ out[s] = <<>>
    /\ cmd[s].kind = "read" /\ cli[s] = "waiting" => out[s] = <<>>
    /\ cli[s] = "prompt" /\ cmd[s].kind = "read" => out[s] = DataOf(s)

\* The inductive invariant: the data connections and the files agree.
DataInv == SessionInv /\ \A s \in Servers : Upward(s) /\ Output(s)

\* A refusal is not forgotten.
LEMMA RefusedGrows ==
    ASSUME TypeOK, NEW s \in Servers,
           User(s) \/ ClientStep(s) \/ ClientDies(s) \/ MainStep(s) \/ Restart(s)
           \/ ServerDies(s) \/ FctpStep(s)
    PROVE  refused \subseteq refused'
<1> USE DEF obsvars
<1>1. ASSUME Ends(s) PROVE refused \subseteq refused'
      BY <1>1 DEF Ends
<1>2. CASE User(s) \/ ClientStep(s) \/ ClientDies(s) \/ Restart(s)
      BY <1>2
      DEF User, NewClient, ListDir, ClientQuit, NewFile, ReadFile, EditFile, SendCommand,
         ClientStep, WriteData, ReceiveResponse, ReceiveSize, ReceiveData, ResponseLost,
         ClientDies,
         Restart
<1>3. CASE ServerDies(s) \/ FctpStep(s)
      BY <1>1, <1>3 DEF ServerDies, FctpStep, FctpOpen, FctpSend, FctpErrorSent, FctpDoubleFree,
         FctpNoRequest, Exits
<1>4. CASE MainStep(s)
      BY <1>1, <1>4
      DEF MainStep, BrokenPipe, FctpUnreachable, OpenFails, Exits,
          ClientLeft, ServeQuit, AskDirectory, DirectoryGone, ListAnswered,
          CreateRefused, CreateListed, CreateLocal, UpdateAnswered, UpdateRefused,
          OpenWrite, ReceiveFile, ServeLocalFile, NoLocalFile, ReplicasAnswered,
          FctpConnect, FctpRequest, CopyArrives, CopyFails, ServeCopy, SendData
<1> QED
      BY <1>2, <1>3, <1>4

\* A step of another session keeps the way of an edit.
LEMMA SameUpward ==
    ASSUME NEW t \in Servers, SameSession(t), Upward(t), refused \subseteq refused'
    PROVE  Upward(t)'
BY DEF SameSession, Upward, Sent, Receiving, Stored, Repeats, TextIn, Path

\* A step of another session keeps the way of a "cat".
LEMMA SameOutput ==
    ASSUME NEW t \in Servers, SameSession(t), Output(t)
    PROVE  Output(t)'
BY DEF SameSession, Output, Shown, DataOf, Path

\* A text consists of its bytes.
LEMMA RepeatsTextOf ==
    ASSUME NEW c \in Commands
    PROVE  Repeats(TextOf(c), c.len, Text(c.path, c.no))
BY DEF Repeats, TextOf, Commands

\* A part of a text, and what is left of it, consist of its bytes.
LEMMA RepeatsRest ==
    ASSUME NEW bytes \in Bytes, NEW n \in Nat, NEW text, Repeats(bytes, n, text),
           NEW k \in ReadAmounts(bytes)
    PROVE  /\ k <= n /\ Repeats(From(bytes, k), n - k, text)
           /\ Repeats(SubSeq(bytes, 1, k), k, text)
BY DEF Repeats, From, ReadAmounts, Bytes

\* Writing on where the last write() ended prolongs the text at the start of the
\* file.
LEMMA WrittenText ==
    ASSUME NEW old \in Bytes, NEW at \in Nat, NEW new \in Bytes, at <= Len(old),
           NEW text, NEW k \in Nat, Repeats(new, k, text), \A i \in 1..at : old[i] = text
    PROVE  /\ at + k <= Len(WriteBytes(old, at, new))
           /\ \A i \in 1..(at + k) : WriteBytes(old, at, new)[i] = text
<1>1. Len(old) \in Nat /\ Len(new) = k
      BY DEF Repeats, Bytes
<1>2. at + k <= Len(WriteBytes(old, at, new))
      BY <1>1, WriteBytesType
<1>3. ASSUME NEW i \in 1..(at + k) PROVE WriteBytes(old, at, new)[i] = text
      <2>1. WriteBytes(old, at,
      new)[i] = IF i \in (at + 1)..(at + k) THEN new[i - at] ELSE old[i]
            BY <1>1 DEF WriteBytes, Overwritten
      <2>2. CASE i <= at
            BY <2>1, <2>2
      <2>3. CASE i > at
            BY <2>1, <2>3 DEF Repeats
      <2> QED
            BY <2>2, <2>3
<1> QED
      BY <1>2, <1>3

\* The steps of users and clients keep the way of an edit.
LEMMA ClientUpward ==
    ASSUME SessionInv, NEW s \in Servers, Upward(s),
           User(s) \/ ClientStep(s) \/ ClientDies(s)
    PROVE  Upward(s)'
<1> USE DEF Upward, Path
<1>0. TypeOK /\ Session(s) /\ Locally(s)
      BY LocallyTyped DEF SessionInv
<1>1. CASE NewClient(s)
      <2>1. /\ pc'[s] = "serve" /\ cli'[s] = "prompt" /\ rsp'[s] = NoResponse
            /\ up'[s] = <<>> /\ cmd'[s] = NoCommand
            BY <1>0, <1>1 DEF NewClient, NewSession, Goto, TypeOK, CliTypes, NetTypes, SrvTypes
      <2> QED
            BY <2>1 DEF Sent, Receiving, Stored, NoResponse, Response, NoCommand, Command
<1>2. ASSUME NEW c \in Commands, NEW state \in {"waiting", "writing"}, SendCommand(s, c, state),
             c.kind = "write" <=> state = "writing", c.kind = "write" => c.len > 0
      PROVE  Upward(s)'
      <2>1. /\ cli[s] = "prompt" /\ cli'[s] = state /\ asked'[s] /\ cmd'[s] = c
            /\ UNCHANGED <<pc, rsp, up, left, pos, data, refused>>
            BY <1>0, <1>2 DEF SendCommand, TypeOK, CliTypes, NetTypes, netvars, srvvars, locvars
      <2>2. rsp[s] = NoResponse /\ pc[s] \in {"serve", "down"}
            BY <1>0, <2>1 DEF Session, AtPrompt
      <2>3. s \notin refused => up[s] = <<>>
            BY <2>1 DEF Sent
      <2> QED
            BY <1>2, <2>1, <2>2, <2>3 DEF Sent, Receiving, Stored, NoResponse, Response
<1>3. CASE User(s)
      <2>1. CASE ListDir(s) \/ ClientQuit(s)
            BY <1>2, <2>1, CommandIsCommand, ConstantFacts, ValueFacts
            DEF ListDir, ClientQuit, Command
      <2>2. ASSUME NEW path \in Entered[s] PROVE path \in Paths \cup {Slash}
            BY EnteredAssumption
      <2>3. ASSUME NEW path \in Entered[s], NewFile(s, path) \/ ReadFile(s, path)
            PROVE  Upward(s)'
            <3>1. LastSaved(path) \in SavedTexts
                  BY <1>0, <2>2, ValueFacts DEF LastSaved, TypeOK, ObsTypes
            <3> QED
                  BY <1>2, <2>2, <2>3, <3>1, CommandIsCommand, ConstantFacts, ValueFacts
                  DEF NewFile, ReadFile, Command
      <2>4. ASSUME NEW path \in Entered[s], NEW len \in 1..MaxText, EditFile(s, path, len)
            PROVE  Upward(s)'
            <3>1. ncmds + 1 \in 0..MaxCommands /\ len \in 0..MaxText /\ len > 0
                  BY <1>0, <2>4, ConstantFacts DEF EditFile, SendCommand, TypeOK, ObsTypes
            <3> DEFINE c == Command("write", path, ncmds + 1, len, NoText)
            <3>2. c \in Commands /\ c.kind = "write" /\ c.len > 0
                  BY <2>2, <3>1, CommandIsCommand, ValueFacts DEF Command
            <3>3. SendCommand(s, c, "writing")
                  BY <2>4 DEF EditFile
            <3> HIDE DEF c
            <3> QED
                  BY <1>2, <3>2, <3>3
      <2> QED
            BY <1>1, <1>3, <2>1, <2>3, <2>4 DEF User
<1>4. CASE WriteData(s)
      <2>1. /\ cli[s] = "writing" /\ cli'[s] = "waiting"
            /\ up'[s] = up[s] \o TextOf(cmd[s])
            /\ UNCHANGED <<cmd, asked, rsp, left, pc, pos, data, refused>>
            BY <1>0, <1>4
            DEF WriteData, DataSent, TypeOK, CliTypes, NetTypes, srvvars, locvars, obsvars
      <2>2. cmd[s] \in Commands /\ cmd[s].kind = "write"
            BY <1>0, <2>1 DEF Locally, Session, Writing
      <2>3. s \notin refused => up[s] = <<>> /\ rsp[s] = NoResponse
            BY <2>1 DEF Sent
      <2>4. s \notin refused => up'[s] = TextOf(cmd[s])
            <3>1. TextOf(cmd[s]) \in Seq(Texts)
                  BY <2>2, TextType DEF Bytes
            <3> QED
                  BY <2>1, <2>3, <3>1, ConcatEmptySeq
      <2>5. s \notin refused => Repeats(up'[s], cmd[s].len, TextIn(s))
            BY <2>2, <2>4, RepeatsTextOf DEF TextIn
      <2>6. TextIn(s)' = TextIn(s)
            BY <2>1 DEF TextIn
      <2>7. s \notin refused => Sent(s)'
            BY <2>1, <2>2, <2>3, <2>5, <2>6 DEF Sent
      <2>8. s \notin refused /\ pc[s] = "recv" => pos[s] = 0 /\ left[s] = cmd[s].len
            BY <1>0, <2>1 DEF Receiving, Locally
      <2>9. s \notin refused => Receiving(s)'
            BY <1>0, <2>1, <2>5, <2>6, <2>8 DEF Receiving, Locally
      <2>10. s \notin refused => Stored(s)'
            BY <2>1, <2>3 DEF Stored, NoResponse, Response
      <2> QED
            BY <2>1, <2>7, <2>9, <2>10
<1>5. CASE ReceiveResponse(s)
      <2>1. /\ rsp[s] # NoResponse /\ rsp'[s] = NoResponse /\ cmd'[s] = NoCommand
            /\ cli'[s] \in {"none", "prompt"}
            /\ UNCHANGED <<asked, up, left, pc, pos, data, refused>>
            BY <1>0, <1>5 DEF ReceiveResponse, TypeOK, CliTypes, NetTypes, srvvars, locvars,
                NoResponse, Response
      <2>2. pc[s] # "recv"
            BY <1>0, <2>1 DEF Session, Answering
      <2> QED
            BY <2>1, <2>2 DEF Sent, Receiving, Stored, NoResponse, Response, NoCommand, Command
<1>6. CASE ReceiveSize(s)
      <2>1. /\ rsp[s].kind = "DATAOUT" /\ rsp'[s] = NoResponse /\ rsp[s] # NoResponse
            /\ cli'[s] \in {"receiving", "prompt"}
            /\ UNCHANGED <<asked, up, cmd, pc, pos, data, refused>>
            BY <1>0, <1>6 DEF ReceiveSize, TypeOK, CliTypes, NetTypes, srvvars, locvars,
                obsvars, NoResponse, Response
      <2>2. pc[s] # "recv" /\ cmd[s].kind = "read"
            BY <1>0, <2>1 DEF Session, Answering
      <2> QED
            BY <2>1, <2>2 DEF Sent, Receiving, Stored, NoResponse, Response
<1>7. CASE ReceiveData(s)
      <2>1. /\ cli[s] = "receiving" /\ cli'[s] \in {"receiving", "prompt"}
            /\ UNCHANGED <<asked, rsp, up, cmd, pc, pos, data, refused>>
            BY <1>0, <1>7 DEF ReceiveData, TypeOK, CliTypes, srvvars, locvars, obsvars
      <2>2. pc[s] # "recv" /\ cmd[s].kind = "read"
            BY <1>0, <2>1 DEF Session, InReceiving
      <2> QED
            BY <2>1, <2>2 DEF Sent, Receiving, Stored
<1>8. CASE ResponseLost(s)
      <2>1. /\ cli[s] = "waiting" /\ pc[s] = "down" /\ cli'[s] = "lost"
            /\ UNCHANGED <<asked, rsp, up, cmd, pc, pos, data, refused>>
            BY <1>0, <1>8 DEF ResponseLost, TypeOK, CliTypes, netvars, srvvars, locvars, obsvars
      <2> QED
            BY <2>1 DEF Sent, Receiving, Stored, TextIn
<1>9. CASE ClientDies(s)
      <2>1. /\ cli'[s] = "dead" /\ rsp'[s] = NoResponse
            /\ UNCHANGED <<asked, up, cmd, pc, pos, data, refused>>
            BY <1>0, <1>9 DEF ClientDies, TypeOK, CliTypes, NetTypes, srvvars, locvars
      <2> QED
            BY <2>1 DEF Sent, Receiving, Stored, NoResponse, Response
<1> QED
      BY <1>3, <1>4, <1>5, <1>6, <1>7, <1>8, <1>9 DEF ClientStep

\* The end of the server keeps the way of an edit.
LEMMA EndsUpward ==
    ASSUME TypeOK, NEW s \in Servers, Upward(s), Ends(s)
    PROVE  Upward(s)'
<1>1. /\ pc'[s] = "down"
      /\ UNCHANGED <<cmd, cli, asked, rsp, up, data, refused>>
      BY DEF Ends, TypeOK, SrvTypes, clivars, netvars, locvars
<1> QED
      BY <1>1 DEF Upward, Sent, Receiving, Stored, Repeats, TextIn, Path

\* A round of recvfile in write_file keeps the way of an edit: it ends exactly when
\* the whole text is in the file.
LEMMA ReceiveUpward ==
    ASSUME SessionInv, NEW s \in Servers, Upward(s), ReceiveFile(s)
    PROVE  Upward(s)'
<1>0. TypeOK /\ Session(s) /\ Locally(s)
      BY LocallyTyped DEF SessionInv
<1>1. PICK k \in ReadAmounts(up[s]) :
          /\ data' = [data EXCEPT ![s][Path(s)] =
                          WriteBytes(@, pos[s], SubSeq(up[s], 1, k))]
          /\ up' = [up EXCEPT ![s] = From(@, k)]
          /\ pos' = [pos EXCEPT ![s] = IF RecvDone(s, k) THEN 0 ELSE @ + k]
          /\ left' = [left EXCEPT ![s] = @ - k]
          /\ IF RecvDone(s, k)
             THEN /\ pc' = [pc EXCEPT ![s] = "serve"]
                  /\ Respond(s, Response("OK", 0))
             ELSE UNCHANGED <<pc, rsp>>
      BY DEF ReceiveFile
<1> DEFINE old == data[s][Path(s)]
           new == SubSeq(up[s], 1, k)
<1>2. /\ pc[s] = "recv"
      /\ UNCHANGED <<cmd, cli, asked, refused>>
      BY DEF ReceiveFile, clivars, obsvars
<1>3. /\ rsp[s] = NoResponse /\ ~asked[s] /\ cmd[s].kind = "write"
      /\ cli[s] \in {"writing", "waiting", "dead"}
      /\ Path(s) \in Paths /\ pos[s] <= Len(old)
      BY <1>0, <1>2 DEF Session, InHandler, KindAt, Handling, AtPath
<1>4. /\ old \in Bytes /\ new \in Bytes /\ Len(new) = k /\ k \in Nat \ {0}
      /\ up[s] \in Bytes /\ pos[s] \in Nat /\ left[s] \in Int /\ cmd[s].len \in Nat
      BY <1>0, <1>3, ReceivedType DEF TypeOK, LocTypes, Locally, Commands
<1>5. /\ data'[s][Path(s)] = WriteBytes(old, pos[s], new)
      /\ up'[s] = From(up[s], k) /\ left'[s] = left[s] - k
      /\ Path(s)' = Path(s) /\ TextIn(s)' = TextIn(s)
      BY <1>0, <1>1, <1>2, <1>3 DEF TypeOK, LocTypes, NetTypes, Path, TextIn
<1>6. /\ left[s] = k => /\ pc'[s] = "serve"
                        /\ cli[s] = "waiting" => rsp'[s] = Response("OK", 0)
                        /\ cli[s] = "dead" => rsp'[s] = NoResponse
      /\ left[s] # k => pc'[s] = pc[s] /\ rsp'[s] = rsp[s] /\ pos'[s] = pos[s] + k
      BY <1>0, <1>1 DEF RecvDone, Respond, TypeOK, SrvTypes, NetTypes
<1>7. CASE s \in refused
      BY <1>2, <1>7 DEF Upward
<1>8. CASE s \notin refused /\ cli[s] = "dead"
      BY <1>2, <1>3, <1>6, <1>8
      DEF Upward, Sent, Receiving, Stored, NoResponse, Response
<1>9. CASE s \notin refused /\ cli[s] # "dead"
      <2>1. Sent(s) /\ Receiving(s)
            BY <1>9 DEF Upward
      <2>2. up[s] # <<>>
            BY <1>4 DEF ReadAmounts, Bytes
      <2>3. cli[s] = "waiting"
            BY <1>3, <1>9, <2>1, <2>2 DEF Sent
      <2>4. /\ left[s] > 0 /\ pos[s] + left[s] = cmd[s].len
            /\ Repeats(up[s], left[s], TextIn(s))
            /\ \A i \in 1..pos[s] : old[i] = TextIn(s)
            BY <1>2, <2>1, <2>3 DEF Receiving
      <2>5. /\ k <= left[s] /\ Repeats(up'[s], left[s] - k, TextIn(s))
            /\ Repeats(new, k, TextIn(s))
            BY <1>4, <1>5, <2>4, RepeatsRest
      <2> HIDE DEF old, new
      <2>6. /\ pos[s] + k <= Len(data'[s][Path(s)])
            /\ \A i \in 1..(pos[s] + k) : data'[s][Path(s)][i] = TextIn(s)
            <3>1. /\ pos[s] + k <= Len(WriteBytes(old, pos[s], new))
                  /\ \A i \in 1..(pos[s] + k) : WriteBytes(old, pos[s], new)[i] = TextIn(s)
                  <4>1. /\ old \in Bytes /\ new \in Bytes /\ pos[s] \in Nat /\ k \in Nat
                        /\ pos[s] <= Len(old)
                        BY <1>3, <1>4 DEF old
                  <4> QED
                        BY <2>4, <2>5, <4>1, WrittenText
            <3> QED
                  BY <1>5, <3>1
      <2>7. CASE left[s] = k
            <3>1. up'[s] = <<>>
                  <4>1. up'[s] \in Bytes
                        BY <1>4, <1>5, ReceivedType
                  <4> QED
                        BY <1>4, <2>5, <2>7, <4>1 DEF Repeats, Bytes
            <3>2. pos[s] + k = cmd[s].len
                  BY <2>4, <2>7
            <3>3. Stored(s)'
                  BY <1>3, <1>5, <2>6, <3>2, <1>2 DEF Stored, Path
            <3>4. Sent(s)' /\ Receiving(s)'
                  BY <1>2, <1>3, <1>6, <2>3, <2>7, <3>1 DEF Sent, Receiving
            <3> QED
                  BY <1>2, <3>3, <3>4 DEF Upward
      <2>8. CASE left[s] # k
            <3>1. Receiving(s)'
                  BY <1>2, <1>4, <1>5, <1>6, <2>3, <2>4, <2>5, <2>6, <2>8 DEF Receiving
            <3>2. Sent(s)' /\ Stored(s)'
                  BY <1>2, <1>3, <1>6, <2>3, <2>8 DEF Sent, Stored, NoResponse, Response
            <3> QED
                  BY <1>2, <3>1, <3>2 DEF Upward
      <2> QED
            BY <2>7, <2>8
<1> QED
      BY <1>7, <1>8, <1>9

\* A step of the server that is not about an edit keeps the way of an edit.
LEMMA NotAnEdit ==
    ASSUME NEW s \in Servers, Upward(s), refused \subseteq refused',
           cmd[s].kind # "write", cli[s] # "writing", pc'[s] # "recv",
           UNCHANGED <<cmd[s], cli[s], up[s]>>
    PROVE  Upward(s)'
BY DEF Upward, Sent, Receiving, Stored

\* Every step of the main thread keeps the way of an edit.
LEMMA MainUpward ==
    ASSUME SessionInv, NEW s \in Servers, Upward(s), MainStep(s)
    PROVE  Upward(s)'
<1>0. TypeOK /\ Session(s) /\ Locally(s) /\ refused \subseteq refused'
      BY LocallyTyped, RefusedGrows DEF SessionInv
<1>a. cli[s] = "writing" => cmd[s].kind = "write"
      BY <1>0 DEF Session, Writing
<1>b. ASSUME pc[s] \in Handling
      PROVE  rsp[s] = NoResponse /\ ~asked[s] /\ cmd[s].kind = KindAt(s)
             /\ cli[s] \in {"writing", "waiting", "dead"}
      BY <1>0, <1>b DEF Session, InHandler
<1>1. CASE ClientLeft(s)
      <2>1. /\ cli[s] = "dead" /\ pc'[s] = "accept"
            /\ UNCHANGED <<cmd, cli, asked, rsp, up, data, refused>>
            BY <1>0, <1>1
            DEF ClientLeft, Goto, TypeOK, SrvTypes, clivars, netvars, locvars, obsvars
      <2> QED
            BY <2>1 DEF Upward, Sent, Receiving, Stored, TextIn, Path
<1>2. CASE ServeQuit(s) \/ NoLocalFile(s)
      <2>1. /\ cmd[s].kind # "write" /\ pc'[s] # "recv"
            /\ UNCHANGED <<cmd, cli, up>>
            BY <1>0, <1>2 DEF ServeQuit, NoLocalFile, Take, Goto, TypeOK, SrvTypes, clivars
      <2> QED
            BY <1>0, <1>a, <2>1, NotAnEdit
<1>3. CASE AskDirectory(s)
      <2>1. /\ asked[s]
            /\ cmd[s].kind = "write" => pc'[s] = "update"
            /\ pc'[s] # "recv"
            /\ UNCHANGED <<cmd, cli, rsp, up, data, refused>>
            BY <1>0, <1>3
            DEF AskDirectory, Take, Goto, TypeOK, SrvTypes, clivars, locvars, obsvars
      <2>2. rsp[s] = NoResponse
            BY <1>0, <2>1 DEF Session, AskedWhen
      <2>3. CASE cmd[s].kind # "write"
            BY <1>0, <1>a, <2>1, <2>3, NotAnEdit
      <2>4. CASE cmd[s].kind = "write"
            BY <2>1, <2>2, <2>4
            DEF Upward, Sent, Receiving, Stored, Repeats, TextIn, Path, NoResponse, Response
      <2> QED
            BY <2>3, <2>4
<1>4. CASE DirectoryGone(s)
      <2>1. /\ pc[s] \in AtDirectory /\ pc'[s] \in {"serve", "reopen"}
            /\ UNCHANGED <<cmd, cli, asked, rsp, up, data, refused>>
            BY <1>0, <1>4
            DEF DirectoryGone, TypeOK, SrvTypes, clivars, netvars, locvars, obsvars
      <2>2. rsp[s] = NoResponse /\ ~asked[s]
            BY <1>b, <2>1 DEF Handling
      <2> QED
            BY <2>1, <2>2
            DEF Upward, Sent, Receiving, Stored, TextIn, Path, NoResponse, Response
<1>5. CASE BrokenPipe(s) \/ FctpUnreachable(s) \/ OpenFails(s)
      <2>1. Ends(s)
            BY <1>5 DEF BrokenPipe, FctpUnreachable, OpenFails, Exits
      <2>2. Upward(s)'
            BY <1>0, <2>1, EndsUpward
      <2> QED
            BY <2>2
<1>6. CASE ListAnswered(s) \/ CreateRefused(s) \/ CreateListed(s) \/ CreateLocal(s)
      <2>1. /\ pc[s] \in {"list", "create", "createlocal"} /\ pc'[s] # "recv"
            /\ UNCHANGED <<cmd, cli, up>>
            BY <1>0, <1>6
            DEF ListAnswered, CreateRefused, CreateListed, CreateLocal, Goto, TypeOK,
                             SrvTypes, clivars, netvars
      <2>2. cmd[s].kind # "write"
            BY <1>b, <2>1 DEF Handling, AtDirectory, KindAt
      <2> QED
            BY <1>0, <1>a, <2>1, <2>2, NotAnEdit
<1>7. CASE UpdateAnswered(s)
      <2>1. /\ pc[s] = "update" /\ pc'[s] = "writelocal"
            /\ UNCHANGED <<cmd, cli, asked, rsp, up, data, refused>>
            BY <1>0, <1>7
            DEF UpdateAnswered, Goto, TypeOK, SrvTypes, clivars, netvars, locvars, obsvars
      <2> QED
            BY <2>1 DEF Upward, Sent, Receiving, Stored, Repeats, TextIn, Path
<1>8. CASE UpdateRefused(s)
      BY <1>8 DEF UpdateRefused, Upward, clivars
<1>9. CASE OpenWrite(s)
      <2>1. /\ pc[s] = "writelocal" /\ pc'[s] = "recv" /\ pos'[s] = 0 /\ left'[s] = cmd[s].len
            /\ UNCHANGED <<cmd, cli, asked, rsp, up, data, refused>>
            BY <1>0, <1>9 DEF OpenWrite, Goto, TypeOK, SrvTypes, NetTypes, clivars, obsvars
      <2>2. rsp[s] = NoResponse /\ ~asked[s] /\ cmd[s].kind = "write" /\ cmd[s] \in Commands
            BY <1>0, <1>b, <2>1 DEF Handling, KindAt, Locally
      <2>3. cmd[s].len \in Nat \ {0}
            BY <2>2 DEF Upward, Commands
      <2>4. TextIn(s)' = TextIn(s)
            BY <2>1 DEF TextIn
      <2>5. s \notin refused => Receiving(s)'
            <3>1. s \notin refused /\ cli[s] = "waiting" => Repeats(up'[s], cmd[s].len, TextIn(s))
                  BY <2>1, <2>2 DEF Upward, Sent
            <3>2. cli'[s] \in {"writing", "waiting", "dead"}
                  BY <1>b, <2>1 DEF Handling
            <3> HIDE DEF Repeats, TextIn
            <3> QED
                  BY <2>1, <2>3, <2>4, <3>1, <3>2 DEF Receiving
      <2>6. s \notin refused => Sent(s)' /\ Stored(s)'
            BY <2>1, <2>2 DEF Upward, Sent, Stored, NoResponse, Response
      <2> QED
            BY <2>1, <2>3, <2>5, <2>6 DEF Upward
<1>10. CASE ReceiveFile(s)
      BY <1>10, ReceiveUpward
<1>11. CASE ServeLocalFile(s) \/ ServeCopy(s) \/ ReplicasAnswered(s) \/ SendData(s)
      <2>1. /\ cmd[s].kind = "read" \/ pc[s] \in {"reopen", "replicas", "senddata"}
            /\ pc'[s] # "recv"
            /\ UNCHANGED <<cmd, cli, up>>
            BY <1>0, <1>11
            DEF ServeLocalFile, ServeCopy, ReplicasAnswered, SendData, AnswerSize,
                              Goto, TypeOK, SrvTypes, clivars, netvars
      <2>2. cmd[s].kind # "write"
            BY <1>0, <1>b, <2>1 DEF Handling, AtDirectory, KindAt, Session, Sending
      <2> QED
            BY <1>0, <1>a, <2>1, <2>2, NotAnEdit
<1>12. CASE FctpConnect(s) \/ FctpRequest(s) \/ CopyArrives(s) \/ CopyFails(s)
      <2>1. /\ pc[s] \in {"connect", "request", "fetch"} /\ pc'[s] # "recv"
            /\ UNCHANGED <<cmd, cli, up>>
            BY <1>0, <1>12 DEF FctpConnect, FctpRequest, CopyArrives, CopyFails, Goto, TypeOK,
                              SrvTypes, clivars, netvars
      <2>2. cmd[s].kind # "write"
            BY <1>b, <2>1 DEF Handling, KindAt
      <2> QED
            BY <1>0, <1>a, <2>1, <2>2, NotAnEdit
<1> QED
      BY <1>1, <1>2, <1>3, <1>4, <1>5, <1>6, <1>7, <1>8, <1>9, <1>10, <1>11, <1>12 DEF MainStep

\* Outside a "cat" that is shown, no step without an announcement matters to it.
LEMMA NotShowing ==
    ASSUME NEW s \in Servers, Output(s), cli[s] \notin {"receiving", "prompt"},
           UNCHANGED <<cli[s], cmd[s], out[s]>>, rsp'[s].kind # "DATAOUT"
    PROVE  Output(s)'
BY DEF Output

\* A read() moves bytes from what is on its way to what was shown.
LEMMA MovesOn ==
    ASSUME NEW a \in Bytes, NEW b \in Bytes, NEW k \in ReadAmounts(b)
    PROVE  (a \o SubSeq(b, 1, k)) \o From(b, k) = a \o b
<1>1. /\ a \in Seq(Texts) /\ b \in Seq(Texts)
      /\ SubSeq(b, 1, k) \in Seq(Texts) /\ From(b, k) \in Seq(Texts)
      BY ReceivedType DEF Bytes
<1>2. k \in (1 - 1)..Len(b) /\ 1 \in 1..Len(b) + 1 /\ Len(b) \in k..Len(b)
      BY <1>1 DEF ReadAmounts
<1>3. SubSeq(b, 1, k) \o From(b, k) = SubSeq(b, 1, Len(b))
      BY <1>1, <1>2, ConcatAdjacentSubSeq, Zenon DEF From
<1>4. SubSeq(b, 1, Len(b)) = b
      BY <1>1, SubSeqFull
<1>5. (a \o SubSeq(b, 1, k)) \o From(b, k) = a \o (SubSeq(b, 1, k) \o From(b, k))
      <2>1. ASSUME NEW x \in Seq(Texts), NEW y \in Seq(Texts), NEW z \in Seq(Texts)
            PROVE  (x \o y) \o z = x \o (y \o z)
            BY ConcatAssociative
      <2> QED
            BY <1>1, <2>1, Zenon
<1> QED
      BY <1>3, <1>4, <1>5, Zenon

\* The steps of users and clients keep the way of a "cat".
LEMMA ClientOutput ==
    ASSUME SessionInv, NEW s \in Servers, Output(s),
           User(s) \/ ClientStep(s) \/ ClientDies(s)
    PROVE  Output(s)'
<1>0. TypeOK /\ Session(s) /\ Locally(s)
      BY LocallyTyped DEF SessionInv
<1>1. CASE NewClient(s)
      <2>1. cli'[s] = "prompt" /\ rsp'[s] = NoResponse /\ cmd'[s] = NoCommand
            BY <1>0, <1>1 DEF NewClient, NewSession, TypeOK, CliTypes, NetTypes
      <2> QED
            BY <2>1 DEF Output, NoResponse, Response, NoCommand, Command
<1>2. ASSUME NEW c, NEW state \in {"waiting", "writing"}, SendCommand(s, c, state)
      PROVE  Output(s)'
      <2>1. cli[s] = "prompt" /\ cli'[s] = state /\ out'[s] = <<>> /\ UNCHANGED rsp
            BY <1>0, <1>2 DEF SendCommand, TypeOK, CliTypes
      <2>2. rsp[s] = NoResponse
            BY <1>0, <2>1 DEF Session, AtPrompt
      <2> QED
            BY <2>1, <2>2 DEF Output, NoResponse, Response
<1>3. CASE User(s)
      BY <1>1, <1>2, <1>3 DEF User, ListDir, ClientQuit, NewFile, ReadFile, EditFile
<1>4. CASE WriteData(s)
      <2>1. cli[s] = "writing" /\ cli'[s] = "waiting" /\ UNCHANGED <<cmd, out, rsp>>
            BY <1>0, <1>4 DEF WriteData, TypeOK, CliTypes
      <2>2. cmd[s].kind = "write"
            BY <1>0, <2>1 DEF Session, Writing
      <2>3. rsp[s].kind # "DATAOUT"
            BY <1>0, <2>2 DEF Session, Answering
      <2> QED
            BY <2>1, <2>2, <2>3 DEF Output
<1>5. CASE ReceiveResponse(s)
      <2>1. cli'[s] \in {"none", "prompt"} /\ rsp'[s] = NoResponse /\ cmd'[s] = NoCommand
            BY <1>0, <1>5 DEF ReceiveResponse, TypeOK, CliTypes, NetTypes
      <2> QED
            BY <2>1 DEF Output, NoResponse, Response, NoCommand, Command
<1>6. CASE ReceiveSize(s)
      <2>1. /\ rsp[s].kind = "DATAOUT"
            /\ cli'[s] = IF rsp[s].size = 0 THEN "prompt" ELSE "receiving"
            /\ rsp'[s] = NoResponse /\ left'[s] = rsp[s].size
            /\ UNCHANGED <<cmd, out, down, pc, data>>
            BY <1>0, <1>6 DEF ReceiveSize, TypeOK, CliTypes, NetTypes, srvvars, locvars
      <2>2. Shown(s, rsp[s].size) /\ out[s] = <<>> /\ Announced(s, rsp[s].size)
            BY <1>0, <2>1 DEF Output, Session, Downward
      <2>3. Path(s)' = Path(s) /\ DataOf(s)' = DataOf(s)
            BY <2>1 DEF Path, DataOf
      <2>4. CASE rsp[s].size = 0
            <3>1. Path(s) # Slash /\ down[s] = <<>> /\ pc[s] # "senddata"
                  BY <1>0, <2>2, <2>4 DEF Shown, Announced, Locally, Bytes
            <3>2. out[s] \o down[s] = DataOf(s)
                  BY <2>2, <2>4, <3>1 DEF Shown
            <3>3. out[s] \o down[s] = out[s]
                  BY <1>0, <3>1, ConcatEmptySeq DEF Locally, Bytes
            <3> QED
                  BY <2>1, <2>3, <2>4, <3>2, <3>3 DEF Output, NoResponse, Response
      <2>5. CASE rsp[s].size # 0
            BY <2>1, <2>2, <2>3, <2>5 DEF Output, Shown, NoResponse, Response
      <2> QED
            BY <2>4, <2>5
<1>7. CASE ReceiveData(s)
      <2>1. PICK k \in ReadAmounts(down[s]) :
                /\ out' = [out EXCEPT ![s] = @ \o SubSeq(down[s], 1, k)]
                /\ down' = [down EXCEPT ![s] = From(@, k)]
                /\ left' = [left EXCEPT ![s] = @ - k]
                /\ cli' = [cli EXCEPT ![s] = IF RecvDone(s, k) THEN "prompt" ELSE "receiving"]
            BY <1>7 DEF ReceiveData
      <2>2. /\ down'[s] = From(down[s], k) /\ Len(down'[s]) = Len(down[s]) - k
            /\ down'[s] \in Bytes /\ out'[s] \in Bytes
            /\ k \in Nat \ {0} /\ Len(down[s]) \in Nat
            <3>1. down[s] \in Bytes /\ out[s] \in Bytes
                  BY <1>0 DEF Locally
            <3>2. /\ down'[s] = From(down[s], k) /\ Len(down'[s]) = Len(down[s]) - k
                  /\ down'[s] \in Bytes /\ k \in Nat \ {0}
                  BY <1>0, <2>1, <3>1, ReceivedType DEF TypeOK, NetTypes
            <3>3. out'[s] \in Bytes
                  BY <1>0, <1>7, ClientTypes, LocallyTyped DEF TypeOK, CliTypes, ClientStep
            <3> QED
                  BY <3>1, <3>2, <3>3 DEF Bytes
      <2>3. /\ left'[s] = left[s] - k
            /\ cli'[s] = IF left[s] = k THEN "prompt" ELSE "receiving"
            /\ out'[s] = out[s] \o SubSeq(down[s], 1, k)
            /\ cli[s] = "receiving"
            /\ UNCHANGED <<rsp, cmd, pc, data>>
            BY <1>0, <1>7, <2>1
            DEF ReceiveData, RecvDone, TypeOK, CliTypes, NetTypes, srvvars, locvars
      <2>4. out'[s] \o down'[s] = out[s] \o down[s]
            <3>1. out[s] \in Bytes /\ down[s] \in Bytes
                  BY <1>0 DEF Locally
            <3>2. (out[s] \o SubSeq(down[s], 1, k)) \o From(down[s], k) = out[s] \o down[s]
                  BY <2>1, <3>1, MovesOn
            <3> QED
                  BY <2>2, <2>3, <3>2
      <2>5. /\ Shown(s, left[s]) /\ Announced(s, left[s]) /\ rsp[s] = NoResponse
            /\ left[s] \in Int
            BY <1>0, <2>3 DEF Output, Session, Downward, InReceiving, Locally
      <2>6. Path(s) # Slash /\ pc[s] # "senddata"
            BY <2>2, <2>5 DEF Announced, ReadAmounts
      <2>7. \/ out[s] \o down[s] = DataOf(s) /\ left[s] = Len(down[s])
            \/ pc[s] = "down" /\ left[s] > Len(down[s])
            BY <2>5, <2>6 DEF Shown
      <2>8. Path(s)' = Path(s) /\ DataOf(s)' = DataOf(s)
            BY <2>3 DEF Path, DataOf
      <2>9. k <= Len(down[s])
            BY <2>1 DEF ReadAmounts
      <2>10. CASE left[s] = k
            <3>1. down'[s] = <<>>
                  <4>1. left[s] = Len(down[s])
                        <5>1. ~(left[s] > Len(down[s]))
                              BY <2>2, <2>9, <2>10
                        <5> QED
                              BY <2>7, <5>1
                  <4>2. Len(down'[s]) = 0
                        BY <2>2, <2>10, <4>1
                  <4> QED
                        BY <2>2, <4>2 DEF Bytes
            <3>2. out'[s] \o down'[s] = out'[s]
                  BY <2>2, <3>1, ConcatEmptySeq DEF Bytes
            <3>3. out'[s] = DataOf(s)
                  BY <2>2, <2>4, <2>7, <2>9, <2>10, <3>2
            <3> QED
                  BY <2>3, <2>5, <2>8, <2>10, <3>3 DEF Output, NoResponse, Response
      <2>11. CASE left[s] # k
            <3>2. \/ out'[s] \o down'[s] = DataOf(s) /\ left'[s] = Len(down'[s])
                  \/ pc[s] = "down" /\ left'[s] > Len(down'[s])
                  <4>1. left[s] = Len(down[s]) => left'[s] = Len(down'[s])
                        BY <2>2, <2>3
                  <4>2. left[s] > Len(down[s]) => left'[s] > Len(down'[s])
                        <5>1. left[s] \in Int /\ Len(down[s]) \in Int /\ k \in Int
                              BY <2>2, <2>5
                        <5> QED
                              BY <2>2, <2>3, <5>1
                  <4> QED
                        BY <2>4, <2>7, <4>1, <4>2
            <3>1. Shown(s, left[s])'
                  BY <2>3, <2>6, <2>8, <3>2 DEF Shown
            <3> QED
                  BY <2>3, <2>5, <2>11, <3>1 DEF Output, NoResponse, Response
      <2> QED
            BY <2>10, <2>11
<1>8. CASE ResponseLost(s)
      <2>1. cli'[s] = "lost" /\ rsp[s] = NoResponse /\ UNCHANGED rsp
            BY <1>0, <1>8 DEF ResponseLost, TypeOK, CliTypes, netvars
      <2> QED
            BY <2>1 DEF Output, NoResponse, Response
<1>9. CASE ClientDies(s)
      <2>1. cli'[s] = "dead" /\ rsp'[s] = NoResponse
            BY <1>0, <1>9 DEF ClientDies, TypeOK, CliTypes, NetTypes
      <2> QED
            BY <2>1 DEF Output, NoResponse, Response
<1> QED
      BY <1>3, <1>4, <1>5, <1>6, <1>7, <1>8, <1>9 DEF ClientStep

\* The end of the server keeps the way of a "cat".
LEMMA EndsOutput ==
    ASSUME SessionInv, NEW s \in Servers, Output(s), Ends(s)
    PROVE  Output(s)'
<1>0. TypeOK /\ Session(s) /\ Locally(s)
      BY LocallyTyped DEF SessionInv
<1>1. /\ pc'[s] = "down"
      /\ UNCHANGED <<cmd, cli, out, rsp, down, left, data>>
      BY <1>0 DEF Ends, TypeOK, SrvTypes, clivars, netvars, locvars
<1>2. Path(s)' = Path(s) /\ DataOf(s)' = DataOf(s)
      BY <1>1 DEF Path, DataOf
<1>3. ASSUME NEW n \in Nat, Shown(s, n), Announced(s, n)
      PROVE  /\ Path(s) = Slash => n > 0
             /\ Path(s) # Slash => \/ out[s] \o down[s] = DataOf(s) /\ n = Len(down[s])
                                   \/ n > Len(down[s])
      <2>1. pc[s] = "senddata" => n > Len(down[s])
            BY <1>3 DEF Announced
      <2> QED
            BY <1>3, <2>1 DEF Shown
<1>4. cli[s] = "receiving" => Shown(s, left[s])'
      <2>1. ASSUME cli[s] = "receiving"
            PROVE  left[s] \in Nat /\ Shown(s, left[s]) /\ Announced(s, left[s])
            BY <1>0, <2>1 DEF Output, Session, Downward, Locally
      <2> QED
            BY <1>1, <1>2, <1>3, <2>1 DEF Shown
<1>5. rsp[s].kind = "DATAOUT" => Shown(s, rsp[s].size)'
      <2>1. ASSUME rsp[s].kind = "DATAOUT"
            PROVE  /\ rsp[s].size \in Nat
                   /\ Shown(s, rsp[s].size) /\ Announced(s, rsp[s].size)
            BY <1>0, <2>1 DEF Output, Session, Downward, Locally, Responses
      <2> QED
            BY <1>1, <1>2, <1>3, <2>1 DEF Shown
<1> QED
      BY <1>1, <1>2, <1>4, <1>5 DEF Output

\* Every step of the main thread keeps the way of a "cat".
LEMMA MainOutput ==
    ASSUME SessionInv, NEW s \in Servers, Output(s), MainStep(s)
    PROVE  Output(s)'
<1>0. TypeOK /\ Session(s) /\ Locally(s)
      BY LocallyTyped DEF SessionInv
<1>a. Path(s) \in Paths \cup {Slash}
      BY <1>0 DEF Path, TypeOK, CliTypes, Commands
<1>b. ASSUME pc[s] \in Handling
      PROVE  rsp[s] = NoResponse /\ cmd[s].kind = KindAt(s)
             /\ cli[s] \in {"writing", "waiting", "dead"}
      BY <1>0, <1>b DEF Session, InHandler
<1>1. CASE ClientLeft(s)
      <2>1. cli[s] = "dead" /\ UNCHANGED <<cmd, cli, out, rsp>>
            BY <1>1 DEF ClientLeft, clivars, netvars
      <2>2. rsp[s] = NoResponse
            BY <1>0, <2>1 DEF Session, Answering
      <2> QED
            BY <2>1, <2>2, NotShowing DEF NoResponse, Response
<1>2. CASE ServeQuit(s) \/ AskDirectory(s) \/ NoLocalFile(s)
      <2>1. /\ asked[s] /\ UNCHANGED <<cmd, cli, out>>
            /\ rsp'[s] \in {rsp[s], NoResponse, Response("OK", 0)}
            BY <1>0, <1>2 DEF ServeQuit, AskDirectory, NoLocalFile, Take, Respond, clivars,
                             TypeOK, NetTypes
      <2>2. rsp[s] = NoResponse /\ cli[s] \in {"writing", "waiting", "dead", "lost"}
            BY <1>0, <2>1 DEF Session, AskedWhen
      <2> QED
            BY <2>1, <2>2, NotShowing DEF NoResponse, Response
<1>3. CASE BrokenPipe(s) \/ FctpUnreachable(s) \/ OpenFails(s)
      <2>1. Ends(s)
            BY <1>3 DEF BrokenPipe, FctpUnreachable, OpenFails, Exits
      <2>2. Output(s)'
            BY <2>1, EndsOutput
      <2> QED
            BY <2>2
<1>4. CASE ListAnswered(s) \/ CreateRefused(s) \/ CreateListed(s) \/ CreateLocal(s)
           \/ UpdateAnswered(s) \/ UpdateRefused(s) \/ OpenWrite(s) \/ DirectoryGone(s)
      <2>1. /\ pc[s] \in Handling /\ UNCHANGED <<cmd, cli, out>>
            BY <1>4 DEF ListAnswered, CreateRefused, CreateListed, CreateLocal, UpdateAnswered,
                        UpdateRefused, OpenWrite, DirectoryGone, Goto, clivars, Handling,
                        AtDirectory
      <2>2. rsp'[s] \in {rsp[s], NoResponse, Response("ERROR", 0), Response("FILEINFO", 0)}
            BY <1>0, <1>4
            DEF ListAnswered, CreateRefused, CreateListed, CreateLocal, UpdateAnswered,
                        UpdateRefused, OpenWrite, DirectoryGone, Respond, netvars, TypeOK,
                        NetTypes
      <2> QED
            BY <1>b, <2>1, <2>2, NotShowing DEF NoResponse, Response
<1>5. CASE ReceiveFile(s)
      <2>1. /\ pc[s] \in Handling /\ UNCHANGED <<cmd, cli, out>>
            /\ rsp'[s] \in {rsp[s], NoResponse, Response("OK", 0)}
            BY <1>0, <1>5 DEF ReceiveFile, Respond, clivars, Handling, TypeOK, NetTypes
      <2> QED
            BY <1>b, <2>1, NotShowing DEF NoResponse, Response
<1>6. CASE ReplicasAnswered(s) \/ FctpConnect(s) \/ FctpRequest(s) \/ CopyArrives(s) \/ CopyFails(s)
      <2>1. pc[s] \in Handling /\ UNCHANGED <<cmd, cli, out, rsp>>
            BY <1>6
            DEF ReplicasAnswered, FctpConnect, FctpRequest, CopyArrives, CopyFails, Goto,
                        clivars, netvars, Handling, AtDirectory
      <2> QED
            BY <1>b, <2>1, NotShowing DEF NoResponse, Response
<1>7. CASE ServeLocalFile(s) \/ ServeCopy(s)
      <2>1. /\ pc[s] = "reopen" \/ asked[s]
            /\ cmd[s].kind = "read" \/ pc[s] = "reopen"
            /\ pc'[s] = IF Size(s, Path(s)) = 0 THEN "serve" ELSE "senddata"
            /\ rsp'[s] = IF cli[s] = "dead" THEN NoResponse
                         ELSE Response("DATAOUT", Size(s, Path(s)))
            /\ UNCHANGED <<cli, cmd, out, down, data>>
            BY <1>0, <1>7 DEF ServeLocalFile, ServeCopy, AnswerSize, Respond, Goto,
                         TypeOK, NetTypes, SrvTypes, clivars, locvars
      <2>2. rsp[s] = NoResponse /\ cli[s] \in {"writing", "waiting", "dead", "lost"}
            BY <1>0, <1>b, <2>1 DEF Session, AskedWhen, Handling
      <2>3. cmd[s].kind = "read" /\ cli[s] # "writing"
            BY <1>0, <1>b, <2>1 DEF Session, Writing, Handling, KindAt, AtDirectory
      <2>4. CASE cli[s] = "dead"
            BY <2>1, <2>4, NotShowing DEF NoResponse, Response
      <2>5. CASE cli[s] = "lost"
            BY <1>0, <1>7, <2>5
            DEF Session, LostWhen, ServeLocalFile, ServeCopy, AnswerSize, Goto
      <2>6. CASE cli[s] = "waiting"
            <3>1. out[s] = <<>> /\ down[s] = <<>>
                  BY <1>0, <2>2, <2>3, <2>6 DEF Output, Session, Downward, NoResponse, Response
            <3>2. DataOf(s)' = DataOf(s) /\ Path(s)' = Path(s)
                  BY <2>1 DEF DataOf, Path
            <3>3. Path(s) = Slash => Size(s, Path(s)) > 0
                  BY DEF Size, DirSize
            <3>4. Path(s) # Slash /\ Size(s, Path(s)) = 0 => DataOf(s) = <<>>
                  BY <1>0, <1>a DEF Size, DataOf, TypeOK, LocTypes, Bytes
            <3>5. <<>> \o <<>> = <<>> /\ Len(<<>>) = 0
                  OBVIOUS
            <3> DEFINE size == Size(s, Path(s))
            <3>6. /\ rsp'[s].kind = "DATAOUT" /\ rsp'[s].size = size
                  /\ size = 0 => pc'[s] = "serve"
                  /\ size # 0 => pc'[s] = "senddata"
                  BY <2>1, <2>6 DEF Response
            <3> HIDE DEF size
            <3>7. Shown(s, rsp[s].size)'
                  BY <2>1, <3>1, <3>2, <3>3, <3>4, <3>5, <3>6 DEF Shown, size
            <3> QED
                  BY <2>1, <2>6, <3>1, <3>7 DEF Output
      <2> QED
            BY <2>2, <2>3, <2>4, <2>5, <2>6
<1>8. CASE SendData(s)
      <2>1. /\ pc[s] = "senddata" /\ pc'[s] = "serve"
            /\ UNCHANGED <<cli, cmd, out, rsp, left, data>>
            /\ down'[s] = IF cli[s] = "dead" \/ Path(s) = Slash THEN down[s]
                          ELSE down[s] \o DataOf(s)
            BY <1>0, <1>8 DEF SendData, Goto, TypeOK, NetTypes, SrvTypes, clivars, locvars
      <2>2. Path(s) # Slash => DataOf(s) \in Seq(Texts)
            BY <1>0, <1>a DEF DataOf, TypeOK, LocTypes, Bytes
      <2>3. Path(s)' = Path(s) /\ DataOf(s)' = DataOf(s)
            BY <2>1 DEF Path, DataOf
      <2>4. CASE cli[s] = "dead"
            <3>1. rsp[s] = NoResponse
                  BY <1>0, <2>4 DEF Session, Answering
            <3> QED
                  BY <2>1, <2>4, <3>1, NotShowing DEF NoResponse, Response
      <2>5. ASSUME cli[s] # "dead", NEW n, Shown(s, n), Announced(s, n)
            PROVE  /\ Path(s) = Slash => n > 0
                   /\ Path(s) # Slash => out[s] \o down'[s] = DataOf(s) /\ n = Len(down'[s])
            <3>1. Path(s) = Slash => n > 0
                  BY <2>5 DEF Shown
            <3>2. ASSUME Path(s) # Slash
                  PROVE  out[s] \o down'[s] = DataOf(s) /\ n = Len(down'[s])
                  <4>1. down[s] = <<>> /\ out[s] = <<>> /\ n = Len(DataOf(s))
                        BY <2>1, <2>5, <3>2 DEF Shown, Announced
                  <4>2. down'[s] = DataOf(s)
                        BY <2>1, <2>2, <2>5, <3>2, <4>1, ConcatEmptySeq
                  <4> QED
                        BY <2>2, <3>2, <4>1, <4>2, ConcatEmptySeq
            <3> QED
                  BY <3>1, <3>2
      <2>6. CASE cli[s] = "receiving"
            <3>1. Shown(s, left[s]) /\ Announced(s, left[s]) /\ rsp[s] = NoResponse
                  BY <1>0, <2>6 DEF Output, Session, Downward, InReceiving
            <3>2. Shown(s, left[s])'
                  BY <2>1, <2>3, <2>5, <2>6, <3>1 DEF Shown
            <3> QED
                  BY <2>1, <2>6, <3>1, <3>2 DEF Output, NoResponse, Response
      <2>7. CASE cli[s] = "waiting" /\ rsp[s].kind = "DATAOUT"
            <3>1. Shown(s, rsp[s].size) /\ Announced(s, rsp[s].size) /\ out[s] = <<>>
                  BY <1>0, <2>7 DEF Output, Session, Downward
            <3>2. Shown(s, rsp[s].size)'
                  BY <2>1, <2>3, <2>5, <2>7, <3>1 DEF Shown
            <3> QED
                  BY <2>1, <2>7, <3>1, <3>2 DEF Output
      <2> QED
            BY <1>0, <2>1, <2>4, <2>6, <2>7 DEF Session, Sending
<1> QED
      BY <1>1, <1>2, <1>3, <1>4, <1>5, <1>6, <1>7, <1>8 DEF MainStep

\* A restart, a kill and the steps of the FCTP thread keep both ways.
LEMMA ServerData ==
    ASSUME SessionInv, NEW s \in Servers, Upward(s), Output(s),
           Restart(s) \/ ServerDies(s) \/ FctpStep(s)
    PROVE  Upward(s)' /\ Output(s)'
<1>0. TypeOK
      BY DEF SessionInv
<1>1. CASE Restart(s)
      <2>1. /\ pc'[s] = "accept" /\ cli'[s] = "none" /\ rsp'[s] = NoResponse
            /\ up'[s] = <<>> /\ cmd'[s] = NoCommand
            BY <1>0, <1>1 DEF Restart, NewSession, Goto, TypeOK, CliTypes, NetTypes, SrvTypes
      <2> QED
            BY <2>1 DEF Upward, Sent, Receiving, Stored, Output, NoResponse, Response,
                NoCommand, Command
<1>2. CASE ServerDies(s) \/ FctpDoubleFree(s) \/ FctpNoRequest(s)
      <2>1. Ends(s)
            BY <1>2 DEF ServerDies, FctpDoubleFree, FctpNoRequest, Exits
      <2> QED
            BY <1>0, <2>1, EndsUpward, EndsOutput
<1>3. CASE FctpOpen(s) \/ FctpSend(s) \/ FctpErrorSent(s)
      <2>1. SameSession(s) /\ refused \subseteq refused'
            BY <1>3
            DEF FctpOpen, FctpSend, FctpErrorSent, SameSession, clivars, netvars, srvvars,
                        locvars, obsvars
      <2> QED
            BY <2>1, SameUpward, SameOutput
<1> QED
      BY <1>1, <1>2, <1>3 DEF FctpStep

\* In every reachable state the counts, the bytes on their way and the files agree
\* (recvfile in src/util.c and its callers).
THEOREM DataInvariant == Spec => []DataInv
<1>1. Init => DataInv
      <2> SUFFICES ASSUME Init PROVE DataInv
          OBVIOUS
      <2>1. SessionInv
            BY SessionInit
      <2>2. ASSUME NEW s \in Servers PROVE Upward(s) /\ Output(s)
            BY DEF Init, Upward, Sent, Receiving, Stored, Output, NoResponse, Response,
                NoCommand, Command
      <2> QED
            BY <2>1, <2>2 DEF DataInv
<1>2. DataInv /\ [Next]_vars => DataInv'
      <2> SUFFICES ASSUME DataInv, [Next]_vars PROVE DataInv'
          OBVIOUS
      <2>0. SessionInv /\ TypeOK /\ SessionInv' /\ \A t \in Servers : Upward(t) /\ Output(t)
            BY SessionStep DEF DataInv, SessionInv
      <2>1. ASSUME NEW s \in Servers,
                   User(s) \/ ClientStep(s) \/ ClientDies(s) \/ MainStep(s) \/ Restart(s)
                   \/ ServerDies(s) \/ FctpStep(s)
            PROVE  DataInv'
            <3>1. refused \subseteq refused'
                  BY <2>0, <2>1, RefusedGrows
            <3>2. Upward(s)' /\ Output(s)'
                  <4>1. CASE User(s) \/ ClientStep(s) \/ ClientDies(s)
                        BY <2>0, <4>1, ClientUpward, ClientOutput
                  <4>2. CASE MainStep(s)
                        BY <2>0, <4>2, MainUpward, MainOutput
                  <4>3. CASE Restart(s) \/ ServerDies(s) \/ FctpStep(s)
                        BY <2>0, <4>3, ServerData
                  <4> QED
                        BY <2>1, <4>1, <4>2, <4>3
            <3>3. ASSUME NEW t \in Servers, t # s PROVE Upward(t)' /\ Output(t)'
                  <4>1. SameSession(t)
                        BY <2>0, <2>1, <3>3, OtherSessions
                  <4> QED
                        BY <2>0, <3>1, <4>1, SameUpward, SameOutput
            <3> QED
                  BY <2>0, <3>2, <3>3 DEF DataInv
      <2>2. CASE DirectoryDies \/ UNCHANGED vars
            <3>1. ASSUME NEW t \in Servers PROVE SameSession(t) /\ refused \subseteq refused'
                  BY <2>2
                  DEF DirectoryDies, vars, SameSession, clivars, netvars, srvvars, locvars
            <3> QED
                  BY <2>0, <3>1, SameUpward, SameOutput DEF DataInv
      <2> QED
            BY <2>1, <2>2 DEF Next, Failure
<1> QED
      BY <1>1, <1>2, PTL DEF Spec

\* On a server that refused no edit, recvfile's count is exact: it ends with the
\* text, and no byte is left behind (src/util.c, src/fsservd.c, src/fap.c).
THEOREM CountsExactHolds == Spec => []CountsExact
<1>1. DataInv => CountsExact
      <2> SUFFICES ASSUME DataInv, NEW s \in Servers \ refused, cli[s] # "dead", pc[s] # "down"
                   PROVE  /\ cli[s] = "prompt" => up[s] = <<>> /\ down[s] = <<>>
                          /\ pc[s] = "recv" =>
                                 left[s] = Len(up[s]) + (IF cli[s] = "writing" THEN cmd[s].len ELSE 0)
                          /\ cli[s] = "receiving" /\ Path(s) # Slash =>
                                 left[s] = Len(down[s]) + (IF pc[s] = "senddata" THEN Len(DataOf(s)) ELSE 0)
          BY DEF CountsExact
      <2>0. TypeOK /\ Session(s) /\ Locally(s) /\ Upward(s)
            BY LocallyTyped DEF DataInv, SessionInv
      <2>1. cli[s] = "prompt" => up[s] = <<>> /\ down[s] = <<>>
            BY <2>0 DEF Session, AtPrompt, Downward, Upward, Sent, NoResponse, Response
      <2>2. ASSUME pc[s] = "recv"
            PROVE  left[s] = Len(up[s]) + (IF cli[s] = "writing" THEN cmd[s].len ELSE 0)
            <3>1. cli[s] \in {"writing", "waiting"}
                  BY <2>0, <2>2 DEF Session, InHandler, Handling
            <3>2. CASE cli[s] = "writing"
                  BY <2>0, <2>2, <3>2 DEF Upward, Sent, Receiving, Locally
            <3>3. CASE cli[s] = "waiting"
                  BY <2>0, <2>2, <3>3 DEF Upward, Receiving, Repeats, Locally
            <3> QED
                  BY <3>1, <3>2, <3>3
      <2>3. ASSUME cli[s] = "receiving", Path(s) # Slash
            PROVE  left[s] = Len(down[s]) + (IF pc[s] = "senddata" THEN Len(DataOf(s)) ELSE 0)
            <3>1. Announced(s, left[s]) /\ pc[s] \in {"senddata", "serve"} /\ left[s] \in Int
                  BY <2>0, <2>3 DEF Session, Downward, InReceiving, Locally
            <3>2. CASE pc[s] = "senddata"
                  <4>1. Len(down[s]) = 0 /\ left[s] = Len(DataOf(s))
                        BY <2>3, <3>1, <3>2 DEF Announced
                  <4> QED
                        BY <3>1, <3>2, <4>1
            <3>3. CASE pc[s] = "serve"
                  <4>1. left[s] = Len(down[s])
                        BY <2>3, <3>1, <3>3 DEF Announced
                  <4> QED
                        BY <3>1, <3>3, <4>1
            <3> QED
                  BY <3>1, <3>2, <3>3
      <2> QED
            BY <2>1, <2>2, <2>3
<1> QED
      BY <1>1, DataInvariant, PTL

\* An edit that was answered OK is in the file (write_file in src/fsservd.c).
THEOREM SavedIsStoredHolds == Spec => []SavedIsStored
<1>1. DataInv => SavedIsStored
      <2> SUFFICES ASSUME DataInv, NEW s \in Servers \ refused,
                          rsp[s].kind = "OK", cmd[s].kind = "write"
                   PROVE  StartsWith(data[s][Path(s)], TextOf(cmd[s]))
          BY DEF SavedIsStored
      <2> DEFINE bytes == data[s][Path(s)]
                 text == TextOf(cmd[s])
      <2>0. TypeOK /\ Locally(s) /\ Upward(s)
            BY LocallyTyped DEF DataInv, SessionInv
      <2>1. /\ Path(s) \in Paths /\ cmd[s].len <= Len(bytes)
            /\ \A i \in 1..cmd[s].len : bytes[i] = TextIn(s)
            BY <2>0 DEF Upward, Stored
      <2>2. cmd[s].len \in Nat /\ text \in Seq(Texts) /\ Len(text) = cmd[s].len
            BY <2>0, TextType DEF Locally, Commands, Bytes
      <2>3. \A i \in 1..cmd[s].len : text[i] = TextIn(s)
            BY <2>0, RepeatsTextOf DEF Locally, Repeats, TextIn
      <2>4. bytes \in Seq(Texts)
            BY <2>0, <2>1 DEF TypeOK, LocTypes, Bytes
      <2> HIDE DEF bytes, text
      <2>5. /\ SubSeq(bytes, 1, Len(text)) \in Seq(Texts)
            /\ Len(SubSeq(bytes, 1, Len(text))) = Len(text)
            /\ \A i \in 1..Len(text) : SubSeq(bytes, 1, Len(text))[i] = bytes[i]
            BY <2>1, <2>2, <2>4
      <2>6. SubSeq(bytes, 1, Len(text)) = text
            BY <2>1, <2>2, <2>3, <2>5, SeqEqual
      <2>7. StartsWith(bytes, text)
            BY <2>1, <2>2, <2>6 DEF StartsWith
      <2> QED
            BY <2>7 DEF bytes, text
<1> QED
      BY <1>1, DataInvariant, PTL

\* A "cat" shows the file of the server it asks, whole (fap_read_file and
\* read_file).
THEOREM ReadIsFileHolds == Spec => []ReadIsFile
<1>1. DataInv => ReadIsFile
      BY DEF DataInv, Output, ReadIsFile
<1> QED
      BY <1>1, DataInvariant, PTL

\* recvfile waits for bytes that nobody will send only on a server that refused an
\* edit, or whose client died.
THEOREM StarvedOnlyByHolds == Spec => []StarvedOnlyBy
<1>1. DataInv => StarvedOnlyBy
      <2> SUFFICES ASSUME DataInv, NEW s \in Servers, Starved(s), s \notin refused,
      cli[s] # "dead"
                   PROVE  FALSE
          BY DEF StarvedOnlyBy
      <2>0. Session(s) /\ Locally(s) /\ Upward(s)
            BY LocallyTyped DEF DataInv, SessionInv
      <2>1. cli[s] = "waiting" /\ pc[s] = "recv" /\ up[s] = <<>>
            BY <2>0 DEF Starved, Session, InHandler, Handling
      <2>2. left[s] > 0 /\ Len(up[s]) = left[s]
            BY <2>0, <2>1 DEF Upward, Receiving, Repeats
      <2> QED
            BY <2>1, <2>2
<1> QED
      BY <1>1, DataInvariant, PTL

--------------------------------------------------------------------------------
(* Transfers between file servers: a file server is linked to at most one other *)
(* one, and the copy it gets is of the file it asked for.                      *)

\* The request of s that waits at t: the only one, at the peer, not answered.
Queued(t, s) ==
    \A i \in 1..Len(line[t]) : line[t][i].from = s =>
        /\ t = peer[s] /\ copy[s] = NoCopy /\ serving[t].from # s
        /\ \A j \in 1..Len(line[t]) : line[t][j].from = s => i = j
        /\ \/ pc[s] = "request" /\ line[t][i].path = NoPath
           \/ pc[s] = "fetch" /\ line[t][i].path = Path(s)

\* The request of s that t serves: from the peer's client, for the file it looks
\* for.
Served(t, s) ==
    serving[t].from = s =>
        /\ t = peer[s] /\ copy[s] = NoCopy
        /\ pc[s] = "fetch" /\ serving[t].path = Path(s)

\* A file arrives at a server that waits for it.
CopyWhen(s) == copy[s] # NoCopy => pc[s] = "fetch"

\* A file server has at most one connection to another, and at most one answer.
LinksInv == \A s \in Servers : CopyWhen(s) /\ \A t \in Servers : Queued(t, s) /\ Served(t, s)

\* No connection of s is at t.
Unlinked(t, s) ==
    serving[t].from # s /\ \A i \in 1..Len(line[t]) : line[t][i].from # s

\* A server that has its answer, asks nobody, or asks another one, is not linked.
LEMMA NotLinked ==
    ASSUME NEW t \in Servers, NEW s \in Servers, Queued(t, s), Served(t, s),
           pc[s] \notin {"request", "fetch"} \/ copy[s] # NoCopy \/ t # peer[s]
    PROVE  Unlinked(t, s)
BY DEF Queued, Served, Unlinked

\* A step that touches neither end of a link keeps it.
LEMMA LinkKept ==
    ASSUME NEW t \in Servers, NEW s \in Servers, Queued(t, s), Served(t, s),
           UNCHANGED <<line[t], serving[t]>>,
           pc[s] \in {"request", "fetch"} => UNCHANGED <<copy[s], peer[s], pc[s], cmd[s]>>
    PROVE  Queued(t, s)' /\ Served(t, s)'
<1>1. CASE Unlinked(t, s)
      <2>1. Unlinked(t, s)'
            BY <1>1 DEF Unlinked
      <2> QED
            BY <2>1 DEF Queued, Served, Unlinked
<1>2. CASE ~Unlinked(t, s)
      <2>1. pc[s] \in {"request", "fetch"}
            BY <1>2, NotLinked
      <2> QED
            BY <2>1 DEF Queued, Served, Path
<1> QED
      BY <1>1, <1>2

\* The end of a server cuts its links and keeps the others.
LEMMA EndsLinks ==
    ASSUME TypeOK, NEW a \in Servers, Ends(a), LinksInv,
           NEW t \in Servers, NEW s \in Servers
    PROVE  Queued(t, s)' /\ Served(t, s)'
<1> USE ConstantFacts DEF LinksInv
<1>0. /\ line[t] \in Seq(Conns) /\ Len(line[t]) \in Nat /\ serving[t] \in Conns
      /\ \A i \in 1..Len(line[t]) : line[t][i] \in Conns
      BY ElementOfSeq DEF TypeOK, FctpTypes
<1>1. CASE t = a
      <2>1. line'[t] = <<>> /\ serving'[t] = Idle
            BY <1>1 DEF Ends
      <2> QED
            BY <2>1 DEF Queued, Served, Idle
<1>2. CASE t # a
      <2>1. /\ line'[t] = [i \in 1..Len(line[t]) |-> LeftBy(line[t][i], a)]
            /\ serving'[t] = LeftBy(serving[t], a)
            BY <1>2 DEF Ends
      <2>2. Len(line'[t]) = Len(line[t])
            BY <1>0, <2>1
      <2>3. ASSUME NEW c \in Conns
            PROVE  /\ LeftBy(c, a).path = c.path
                   /\ LeftBy(c, a).from = IF c.from = a THEN NIL ELSE c.from
            BY DEF LeftBy, Conns
      <2>4. \A i \in 1..Len(line[t]) :
                /\ line'[t][i].path = line[t][i].path
                /\ line'[t][i].from = IF line[t][i].from = a THEN NIL ELSE line[t][i].from
            BY <1>0, <2>1, <2>3
      <2>5. /\ serving'[t].path = serving[t].path
            /\ serving'[t].from = IF serving[t].from = a THEN NIL ELSE serving[t].from
            BY <1>0, <2>1, <2>3
      <2>6. CASE s = a
            BY <2>2, <2>4, <2>5, <2>6 DEF Queued, Served
      <2>7. CASE s # a
            <3>1. UNCHANGED <<pc[s], peer[s], copy[s], cmd[s]>>
                  BY <2>7 DEF Ends, HangUp, clivars, TypeOK, SrvTypes, FctpTypes
            <3>2. \A i \in 1..Len(line[t]) : line'[t][i].from = s <=> line[t][i].from = s
                  BY <2>4, <2>7
            <3>3. serving'[t].from = s <=> serving[t].from = s
                  BY <2>5, <2>7
            <3>4. Queued(t, s) /\ Served(t, s)
                  OBVIOUS
            <3>5. Queued(t, s)'
                  BY <2>2, <2>4, <3>1, <3>2, <3>3, <3>4 DEF Queued, Path
            <3>6. Served(t, s)'
                  BY <2>5, <3>1, <3>3, <3>4 DEF Served, Path
            <3> QED
                  BY <3>5, <3>6
      <2> QED
            BY <2>6, <2>7
<1> QED
      BY <1>1, <1>2

\* A request that the FCTP thread takes from the queue stays linked.
LEMMA FctpOpenLinks ==
    ASSUME TypeOK, NEW a \in Servers, FctpOpen(a), LinksInv,
           NEW t \in Servers, NEW s \in Servers
    PROVE  Queued(t, s)' /\ Served(t, s)'
<1> USE ConstantFacts
<1>0. Queued(t, s) /\ Served(t, s)
      BY DEF LinksInv
<1>1. UNCHANGED <<pc, peer, cmd, copy>>
      BY DEF FctpOpen, srvvars, clivars
<1>2. CASE t # a
      <2>1. UNCHANGED <<line[t], serving[t]>>
            BY <1>2 DEF FctpOpen, TypeOK, FctpTypes
      <2> QED
            BY <1>0, <1>1, <2>1, LinkKept
<1>3. CASE t = a
      <2>1. /\ serving[t] = Idle /\ line[t] # <<>> /\ line[t] \in Seq(Conns)
            /\ Head(line[t]).path \in Paths
            /\ line'[t] = Tail(line[t])
            /\ serving'[t] = [Head(line[t]) EXCEPT !.size = Size(t, Head(line[t]).path)]
            BY <1>3 DEF FctpOpen, TypeOK, FctpTypes
      <2>2. /\ Head(line[t]) = line[t][1] /\ line[t][1] \in Conns /\ Len(line[t]) \in Nat \ {0}
            /\ Len(Tail(line[t])) = Len(line[t]) - 1
            /\ \A i \in 1..Len(Tail(line[t])) : Tail(line[t])[i] = line[t][i + 1]
            BY <2>1, HeadTailProperties
      <2>3. serving'[t].from = line[t][1].from /\ serving'[t].path = line[t][1].path
            BY <2>1, <2>2 DEF Conns
      <2>4. /\ Len(line'[t]) = Len(line[t]) - 1
            /\ \A i \in 1..Len(line'[t]) : line'[t][i] = line[t][i + 1] /\ i + 1 \in 1..Len(line[t])
            BY <2>1, <2>2
      <2>5. 1 \in 1..Len(line[t])
            BY <2>2
      <2>6. line[t][1].path # NoPath
            BY <2>1, <2>2, NoPathIsNoFile
      <2>7. CASE line[t][1].from = s
            <3>1. /\ t = peer[s] /\ copy[s] = NoCopy
                  /\ \A j \in 1..Len(line[t]) : line[t][j].from = s => 1 = j
                  /\ pc[s] = "fetch" /\ line[t][1].path = Path(s)
                  BY <1>0, <2>5, <2>6, <2>7 DEF Queued
            <3>2. ASSUME NEW i \in 1..Len(line'[t]) PROVE line'[t][i].from # s
                  <4>1. i \in Nat /\ i >= 1 /\ i + 1 # 1
                        BY <2>2, <2>4
                  <4> QED
                        BY <2>4, <3>1, <4>1
            <3> QED
                  BY <1>1, <2>3, <3>1, <3>2 DEF Queued, Served, Path
      <2>8. CASE line[t][1].from # s
            <3>1. ASSUME NEW i \in 1..Len(line'[t]), line'[t][i].from = s
                  PROVE  /\ t = peer[s] /\ copy[s] = NoCopy
                         /\ \A j \in 1..Len(line'[t]) : line'[t][j].from = s => i = j
                         /\ \/ pc[s] = "request" /\ line'[t][i].path = NoPath
                            \/ pc[s] = "fetch" /\ line'[t][i].path = Path(s)
                  <4>1. line[t][i + 1].from = s /\ i + 1 \in 1..Len(line[t])
                        BY <2>4, <3>1
                  <4>2. /\ t = peer[s] /\ copy[s] = NoCopy
                        /\ \A j \in 1..Len(line[t]) : line[t][j].from = s => i + 1 = j
                        /\ \/ pc[s] = "request" /\ line[t][i + 1].path = NoPath
                           \/ pc[s] = "fetch" /\ line[t][i + 1].path = Path(s)
                        BY <1>0, <4>1 DEF Queued
                  <4>3. ASSUME NEW j \in 1..Len(line'[t]), line'[t][j].from = s PROVE i = j
                        <5>1. i + 1 = j + 1
                              BY <2>4, <4>2, <4>3
                        <5>2. i \in Int /\ j \in Int
                              BY <2>2, <2>4
                        <5> QED
                              BY <5>1, <5>2
                  <4> QED
                        BY <2>4, <4>2, <4>3
            <3> QED
                  BY <1>1, <2>3, <2>8, <3>1 DEF Queued, Served, Path
      <2> QED
            BY <2>7, <2>8
<1> QED
      BY <1>2, <1>3

\* An answer with the file ends the link it goes out on, and keeps the others.
LEMMA FctpSendLinks ==
    ASSUME TypeOK, NEW a \in Servers, FctpSend(a), LinksInv,
           NEW t \in Servers, NEW s \in Servers
    PROVE  Queued(t, s)' /\ Served(t, s)'
<1> USE ConstantFacts
<1>0. Queued(t, s) /\ Served(t, s) /\ Served(a, s) /\ Queued(a, s)
      BY DEF LinksInv
<1>1. UNCHANGED <<pc, peer, cmd, line>>
      BY DEF FctpSend, srvvars, clivars
<1>2. serving' = [serving EXCEPT ![a] = Idle] /\ serving \in [Servers -> Conns]
      BY DEF FctpSend, TypeOK, FctpTypes
<1>3. CASE serving[a].from = s
      <2>1. t # a => Unlinked(t, s)
            BY <1>0, <1>3, NotLinked DEF Served
      <2>2. \A i \in 1..Len(line[a]) : line[a][i].from # s
            BY <1>0, <1>3 DEF Queued
      <2>3. Unlinked(t, s)'
            BY <1>1, <1>2, <2>1, <2>2 DEF Unlinked, Idle
      <2> QED
            BY <2>3 DEF Unlinked, Queued, Served
<1>4. CASE serving[a].from # s
      <2>1. copy'[s] = copy[s]
            BY <1>4 DEF FctpSend, Answered, TypeOK, FctpTypes
      <2>2. CASE t # a
            BY <1>0, <1>1, <1>2, <2>1, <2>2, LinkKept
      <2>3. CASE t = a
            BY <1>0, <1>1, <1>2, <2>1, <2>3 DEF Queued, Served, Path, Idle
      <2> QED
            BY <2>2, <2>3
<1> QED
      BY <1>3, <1>4

\* An error ends the link it goes out on, and keeps the others.
LEMMA FctpErrorLinks ==
    ASSUME TypeOK, NEW a \in Servers, FctpErrorSent(a), LinksInv,
           NEW t \in Servers, NEW s \in Servers
    PROVE  Queued(t, s)' /\ Served(t, s)'
<1> USE ConstantFacts
<1>0. Queued(t, s) /\ Served(t, s) /\ Served(a, s) /\ Queued(a, s)
      BY DEF LinksInv
<1>1. UNCHANGED <<pc, peer, cmd, serving>>
      BY DEF FctpErrorSent, srvvars, clivars
<1>2. /\ line' = [line EXCEPT ![a] = Tail(@)] /\ line \in [Servers -> Seq(Conns)]
      /\ line[a] # <<>> /\ serving[a] = Idle /\ Head(line[a]).path \in Paths
      /\ copy' = Answered(Head(line[a]), FctpError)
      BY DEF FctpErrorSent, FctpMissing, TypeOK, FctpTypes
<1>3. /\ Head(line[a]) = line[a][1] /\ line[a][1] \in Conns /\ Len(line[a]) \in Nat \ {0}
      /\ Len(Tail(line[a])) = Len(line[a]) - 1
      /\ \A i \in 1..Len(Tail(line[a])) : Tail(line[a])[i] = line[a][i + 1]
      BY <1>2, HeadTailProperties
<1>4. /\ Len(line'[a]) = Len(line[a]) - 1
      /\ \A i \in 1..Len(line'[a]) : line'[a][i] = line[a][i + 1] /\ i + 1 \in 1..Len(line[a])
      BY <1>2, <1>3
<1>5. 1 \in 1..Len(line[a]) /\ line[a][1].path # NoPath
      BY <1>2, <1>3, NoPathIsNoFile
<1>6. CASE line[a][1].from = s
      <2>1. /\ a = peer[s]
            /\ \A j \in 1..Len(line[a]) : line[a][j].from = s => 1 = j
            BY <1>0, <1>5, <1>6 DEF Queued
      <2>2. \A i \in 1..Len(line'[a]) : line'[a][i].from # s
            BY <1>3, <1>4, <2>1
      <2>3. t # a => Unlinked(t, s)
            BY <1>0, <2>1, NotLinked
      <2>4. Unlinked(t, s)'
            BY <1>1, <1>2, <2>2, <2>3 DEF Unlinked, Idle
      <2> QED
            BY <2>4 DEF Unlinked, Queued, Served
<1>7. CASE line[a][1].from # s
      <2>1. copy'[s] = copy[s]
            BY <1>2, <1>3, <1>7 DEF Answered, TypeOK, FctpTypes
      <2>2. CASE t # a
            BY <1>0, <1>1, <1>2, <2>1, <2>2, LinkKept
      <2>3. CASE t = a
            <3>1. ASSUME NEW i \in 1..Len(line'[t]), line'[t][i].from = s
                  PROVE  /\ t = peer[s] /\ copy[s] = NoCopy /\ serving[t].from # s
                         /\ \A j \in 1..Len(line'[t]) : line'[t][j].from = s => i = j
                         /\ \/ pc[s] = "request" /\ line'[t][i].path = NoPath
                            \/ pc[s] = "fetch" /\ line'[t][i].path = Path(s)
                  <4>1. line[t][i + 1].from = s /\ i + 1 \in 1..Len(line[t])
                        BY <1>4, <2>3, <3>1
                  <4>2. /\ t = peer[s] /\ copy[s] = NoCopy /\ serving[t].from # s
                        /\ \A j \in 1..Len(line[t]) : line[t][j].from = s => i + 1 = j
                        /\ \/ pc[s] = "request" /\ line[t][i + 1].path = NoPath
                           \/ pc[s] = "fetch" /\ line[t][i + 1].path = Path(s)
                        BY <1>0, <4>1 DEF Queued
                  <4>3. ASSUME NEW j \in 1..Len(line'[t]), line'[t][j].from = s PROVE i = j
                        <5>0. j \in 1..Len(line'[a])
                              BY <2>3, <4>3
                        <5>1. i + 1 = j + 1
                              BY <1>4, <2>3, <4>2, <4>3, <5>0
                        <5>2. i \in Int /\ j \in Int
                              BY <1>3, <1>4, <2>3
                        <5> QED
                              BY <5>1, <5>2
                  <4> QED
                        BY <1>4, <2>3, <4>2, <4>3
            <3> QED
                  BY <1>0, <1>1, <2>1, <3>1 DEF Queued, Served, Path
      <2> QED
            BY <2>2, <2>3
<1> QED
      BY <1>6, <1>7

\* A new connection is the only one of its server.
LEMMA ConnectLinks ==
    ASSUME SessionInv, NEW a \in Servers, FctpConnect(a), LinksInv,
           NEW t \in Servers, NEW s \in Servers
    PROVE  Queued(t, s)' /\ Served(t, s)'
<1>0. Queued(t, s) /\ Served(t, s) /\ CopyWhen(a) /\ TypeOK /\ peer[a] \in Servers
      BY DEF LinksInv, SessionInv, Session, AtPath, FctpConnect, Goto
<1>1. /\ UNCHANGED <<peer, cmd, serving, copy>> /\ pc[a] = "connect"
      /\ pc' = [pc EXCEPT ![a] = "request"]
      /\ line' = [line EXCEPT ![peer[a]] = Append(@, Conn(a, NoPath))]
      BY DEF FctpConnect, Goto, clivars
<1>2. pc \in [Servers -> AtDirectory \cup
                   {"accept", "serve", "createlocal", "writelocal", "recv", "senddata",
                    "connect", "request", "fetch", "reopen", "down"}]
      /\ line \in [Servers -> Seq(Conns)]
      BY <1>0 DEF TypeOK, SrvTypes, FctpTypes
<1>3. CASE t # peer[a]
      <2>1. UNCHANGED line[t]
            BY <1>0, <1>1, <1>2, <1>3
      <2>2. s = a => Unlinked(t, s)
            BY <1>0, <1>1, NotLinked
      <2>3. s # a => pc'[s] = pc[s]
            BY <1>1, <1>2
      <2> QED
            BY <1>0, <1>1, <2>1, <2>2, <2>3, LinkKept
<1>4. CASE t = peer[a]
      <2>1. /\ line[t] \in Seq(Conns) /\ Len(line[t]) \in Nat
            /\ line'[t] = Append(line[t], Conn(a, NoPath))
            BY <1>0, <1>1, <1>2, <1>4
      <2>2. /\ Len(line'[t]) = Len(line[t]) + 1
            /\ \A i \in 1..Len(line[t]) : line'[t][i] = line[t][i]
            /\ line'[t][Len(line[t]) + 1] = Conn(a, NoPath)
            BY <2>1
      <2>3. CASE s = a
            <3>1. Unlinked(t, s) /\ copy[s] = NoCopy
                  BY <1>0, <1>1, <2>3, NotLinked DEF CopyWhen
            <3>2. \A i \in 1..Len(line'[t]) : line'[t][i].from = s => i = Len(line[t]) + 1
                  BY <2>1, <2>2, <3>1 DEF Unlinked
            <3>3. pc'[s] = "request" /\ line'[t][Len(line[t]) + 1].path = NoPath
                  BY <1>1, <1>2, <2>2, <2>3 DEF Conn
            <3>4. Queued(t, s)'
                  BY <1>1, <1>4, <2>3, <3>1, <3>2, <3>3 DEF Queued, Unlinked
            <3> QED
                  BY <1>1, <3>1, <3>4 DEF Served, Unlinked
      <2>4. CASE s # a
            <3>1. pc'[s] = pc[s]
                  BY <1>1, <1>2, <2>4
            <3>2. \A i \in 1..Len(line'[t]) : line'[t][i].from = s => i \in 1..Len(line[t])
                  BY <2>1, <2>2, <2>4 DEF Conn
            <3> QED
                  BY <1>0, <1>1, <2>1, <2>2, <3>1, <3>2 DEF Queued, Served, Path
      <2> QED
            BY <2>3, <2>4
<1> QED
      BY <1>3, <1>4

\* A request goes out on the connection of its server.
LEMMA RequestLinks ==
    ASSUME SessionInv, NEW a \in Servers, FctpRequest(a), LinksInv,
           NEW t \in Servers, NEW s \in Servers
    PROVE  Queued(t, s)' /\ Served(t, s)'
<1>0. Queued(t, s) /\ Served(t, s) /\ TypeOK /\ peer[a] \in Servers
      BY DEF LinksInv, SessionInv, Session, AtPath, FctpRequest, Goto
<1> DEFINE new == [i \in 1..Len(line[peer[a]]) |->
                       IF line[peer[a]][i].from = a THEN Conn(a, Path(a)) ELSE line[peer[a]][i]]
<1>1. /\ UNCHANGED <<peer, cmd, serving, copy>> /\ pc[a] = "request"
      /\ pc' = [pc EXCEPT ![a] = "fetch"]
      /\ line' = [line EXCEPT ![peer[a]] = new]
      BY DEF FctpRequest, Goto, clivars
<1>2. line \in [Servers -> Seq(Conns)]
      BY <1>0 DEF TypeOK, FctpTypes
<1>3. s # a => pc'[s] = pc[s]
      BY <1>0, <1>1 DEF TypeOK, SrvTypes
<1>4. pc'[a] = "fetch"
      BY <1>0, <1>1 DEF TypeOK, SrvTypes
<1>5. CASE t # peer[a]
      <2>1. UNCHANGED line[t]
            BY <1>0, <1>1, <1>2, <1>5
      <2>2. s = a => Unlinked(t, s)
            BY <1>0, <1>5, NotLinked
      <2>3. s = a => Unlinked(t, s)'
            BY <1>1, <2>1, <2>2 DEF Unlinked
      <2>4. s = a => Queued(t, s)' /\ Served(t, s)'
            BY <2>3 DEF Unlinked, Queued, Served
      <2> QED
            BY <1>0, <1>1, <1>3, <2>1, <2>4, LinkKept
<1>6. CASE t = peer[a]
      <2>1. Len(line[t]) \in Nat /\ line'[t] = new
            <3> HIDE DEF new
            <3> QED
                  BY <1>0, <1>1, <1>2, <1>6
      <2>2. /\ Len(line'[t]) = Len(line[t])
            /\ \A i \in 1..Len(line[t]) :
                   line'[t][i] = IF line[t][i].from = a THEN Conn(a, Path(a)) ELSE line[t][i]
            BY <1>6, <2>1
      <2> HIDE DEF new
      <2>3. \A i \in 1..Len(line[t]) :
                /\ line'[t][i].from = line[t][i].from
                /\ line'[t][i].path = IF line[t][i].from = a THEN Path(a) ELSE line[t][i].path
            BY <2>2 DEF Conn
      <2>4. CASE s = a
            <3>1. Queued(t, s)'
                  BY <1>0, <1>1, <1>4, <2>2, <2>3, <2>4 DEF Queued, Path
            <3>2. Served(t, s)'
                  BY <1>0, <1>1, <2>4 DEF Served
            <3> QED
                  BY <3>1, <3>2
      <2>5. CASE s # a
            BY <1>0, <1>1, <1>3, <2>2, <2>3, <2>5 DEF Queued, Served, Path
      <2> QED
            BY <2>4, <2>5
<1> QED
      BY <1>5, <1>6

\* The answer that is taken was the last thing to come.
LEMMA TakenLinks ==
    ASSUME SessionInv, NEW a \in Servers, CopyArrives(a) \/ CopyFails(a), LinksInv,
           NEW t \in Servers, NEW s \in Servers
    PROVE  Queued(t, s)' /\ Served(t, s)'
<1>0. Queued(t, s) /\ Served(t, s) /\ TypeOK /\ peer[a] \in Servers
      BY DEF LinksInv, SessionInv, Session, AtPath, CopyArrives, CopyFails, Goto
<1>1. /\ UNCHANGED <<cmd, line, serving>>
      /\ copy' = [copy EXCEPT ![a] = NoCopy] /\ peer' = [peer EXCEPT ![a] = NIL]
      /\ pc' = [pc EXCEPT ![a] = "reopen"]
      /\ copy[a] # NoCopy \/ ~Connected(a)
      BY DEF CopyArrives, CopyFails, HangUp, Goto, clivars, NoCopy
<1>2. CASE s = a
      <2>1. Unlinked(t, s)
            <3>1. CASE copy[a] # NoCopy
                  BY <1>0, <1>2, <3>1, NotLinked
            <3>2. CASE ~Connected(a)
                  <4>1. CASE t = peer[a]
                        BY <1>2, <3>2, <4>1 DEF Connected, Unlinked
                  <4>2. CASE t # peer[a]
                        BY <1>0, <1>2, <4>2, NotLinked
                  <4> QED
                        BY <4>1, <4>2
            <3> QED
                  BY <1>1, <3>1, <3>2
      <2>2. Unlinked(t, s)'
            BY <1>1, <2>1 DEF Unlinked
      <2> QED
            BY <2>2 DEF Unlinked, Queued, Served
<1>3. CASE s # a
      <2>1. UNCHANGED <<copy[s], peer[s], pc[s]>>
            BY <1>0, <1>1, <1>3 DEF TypeOK, SrvTypes, FctpTypes
      <2> QED
            BY <1>0, <1>1, <2>1, LinkKept
<1> QED
      BY <1>2, <1>3

\* The steps of the main thread that use a link.
Linking(a) ==
    FctpConnect(a) \/ FctpRequest(a) \/ CopyArrives(a) \/ CopyFails(a)

\* The steps by which a server ends.
Ending(a) ==
    \/ ServerDies(a) \/ BrokenPipe(a) \/ FctpUnreachable(a) \/ OpenFails(a)
    \/ FctpDoubleFree(a) \/ FctpNoRequest(a)

\* A server ends in the same way whatever the reason.
LEMMA EndingEnds ==
    ASSUME NEW a \in Servers, Ending(a)
    PROVE  Ends(a)
BY DEF Ending, ServerDies, BrokenPipe, FctpUnreachable, OpenFails, FctpDoubleFree,
    FctpNoRequest, Exits

\* The other steps leave the links alone.
LEMMA QuietSteps ==
    ASSUME SessionInv, NEW a \in Servers, ~Linking(a), ~Ending(a),
           User(a) \/ ClientStep(a) \/ ClientDies(a) \/ MainStep(a) \/ Restart(a)
    PROVE  /\ UNCHANGED <<line, serving, copy>>
           /\ pc[a] \in {"request", "fetch"} => UNCHANGED <<peer[a], pc[a], cmd[a]>>
<1>0. TypeOK /\ Session(a)
      BY DEF SessionInv
<1>1. pc[a] \in {"request", "fetch"} =>
          cli[a] \in {"writing", "waiting", "dead"} /\ rsp[a] = NoResponse /\ ~asked[a]
      BY <1>0 DEF Session, InHandler, Handling
<1>2. CASE User(a) \/ ClientStep(a) \/ ClientDies(a) \/ Restart(a)
      <2>1. UNCHANGED fctpvars
            BY <1>2
            DEF User, NewClient, ListDir, ClientQuit, NewFile, ReadFile, EditFile, SendCommand,
               ClientStep, WriteData, ReceiveResponse, ReceiveSize, ReceiveData, ResponseLost,
               ClientDies,
               Restart
      <2>2. CASE WriteData(a) \/ ResponseLost(a) \/ ClientDies(a)
            BY <2>1, <2>2 DEF WriteData, ResponseLost, ClientDies, srvvars, fctpvars
      <2>3. CASE ReceiveResponse(a) \/ ReceiveSize(a) \/ ReceiveData(a)
            BY <1>1, <2>1, <2>3
            DEF ReceiveResponse, ReceiveSize, ReceiveData, NoResponse, Response, fctpvars
      <2>4. CASE User(a) \/ Restart(a)
            BY <1>1, <2>1, <2>4
            DEF User, NewClient, ListDir, ClientQuit, NewFile, ReadFile, EditFile, SendCommand,
                Restart, Goto, fctpvars
      <2> QED
            BY <1>2, <2>2, <2>3, <2>4 DEF ClientStep
<1>3. CASE MainStep(a)
      <2>1. UNCHANGED fctpvars
            BY <1>3
            DEF MainStep, Linking, Ending, ClientLeft, ServeQuit, AskDirectory, DirectoryGone,
                ListAnswered, CreateRefused, CreateListed, CreateLocal, UpdateAnswered,
                UpdateRefused,
                OpenWrite, ReceiveFile, ServeLocalFile, NoLocalFile, ReplicasAnswered,
                ServeCopy, SendData
      <2>2. pc[a] \notin {"request", "fetch"}
            BY <1>1, <1>3
            DEF MainStep, Linking, Ending, ClientLeft, ServeQuit, AskDirectory, Take,
                DirectoryGone,
                ListAnswered, CreateRefused, CreateListed, CreateLocal, UpdateAnswered,
                UpdateRefused,
                OpenWrite, ReceiveFile, ServeLocalFile, NoLocalFile, ReplicasAnswered,
                ServeCopy,
                SendData, AnswerSize, Goto, AtDirectory
      <2> QED
            BY <2>1, <2>2 DEF fctpvars
<1> QED
      BY <1>2, <1>3

\* Every step keeps the links.
LEMMA LinksStep ==
    ASSUME SessionInv, LinksInv, NEW a \in Servers,
           User(a) \/ ClientStep(a) \/ ClientDies(a) \/ MainStep(a) \/ Restart(a)
           \/ ServerDies(a) \/ FctpStep(a)
    PROVE  LinksInv'
<1>0. TypeOK
      BY DEF SessionInv
<1>1. CASE ~Linking(a) /\ ~Ending(a)
           /\ (User(a) \/ ClientStep(a) \/ ClientDies(a) \/ MainStep(a) \/ Restart(a))
      <2>1. /\ UNCHANGED <<line, serving, copy>>
            /\ pc[a] \in {"request", "fetch"} => UNCHANGED <<peer[a], pc[a], cmd[a]>>
            BY <1>1, QuietSteps
      <2>2. ASSUME NEW s \in Servers, s # a
            PROVE  UNCHANGED <<peer[s], pc[s], cmd[s]>>
            <3>1. SameSession(s)
                  BY <1>0, <1>1, <2>2, OtherSessions
            <3> QED
                  BY <3>1 DEF SameSession
      <2>3. ASSUME NEW s \in Servers
            PROVE  CopyWhen(s)' /\ \A t \in Servers : Queued(t, s)' /\ Served(t, s)'
            <3>1. pc[s] \in {"request", "fetch"} => UNCHANGED <<peer[s], pc[s], cmd[s]>>
                  BY <2>1, <2>2
            <3>2. CopyWhen(s)'
                  BY <2>1, <3>1 DEF LinksInv, CopyWhen
            <3> QED
                  BY <2>1, <3>1, <3>2, LinkKept DEF LinksInv
      <2> QED
            BY <2>3 DEF LinksInv
<1>2. CASE Linking(a)
      <2>1. ASSUME NEW t \in Servers, NEW s \in Servers PROVE Queued(t, s)' /\ Served(t, s)'
            BY <1>2, ConnectLinks, RequestLinks, TakenLinks DEF Linking
      <2>2. ASSUME NEW s \in Servers PROVE CopyWhen(s)'
            <3>1. CopyWhen(s)
                  BY DEF LinksInv
            <3>2. CASE FctpConnect(a) \/ FctpRequest(a)
                  BY <1>0, <3>1, <3>2
                  DEF FctpConnect, FctpRequest, Goto, CopyWhen, TypeOK, SrvTypes
            <3>3. CASE CopyArrives(a) \/ CopyFails(a)
                  BY <1>0, <3>1, <3>3
                  DEF CopyArrives, CopyFails, HangUp, Goto, CopyWhen, TypeOK, SrvTypes,
                      FctpTypes
            <3> QED
                  BY <1>2, <3>2, <3>3 DEF Linking
      <2> QED
            BY <2>1, <2>2 DEF LinksInv
<1>3. CASE Ending(a)
      <2>1. Ends(a)
            BY <1>3, EndingEnds
      <2>2. ASSUME NEW t \in Servers, NEW s \in Servers PROVE Queued(t, s)' /\ Served(t, s)'
            BY <1>0, <2>1, EndsLinks
      <2>3. ASSUME NEW s \in Servers PROVE CopyWhen(s)'
            BY <1>0, <2>1 DEF Ends, HangUp, LinksInv, CopyWhen, TypeOK, SrvTypes, FctpTypes
      <2> QED
            BY <2>2, <2>3 DEF LinksInv
<1>4. CASE FctpOpen(a)
      <2>1. ASSUME NEW t \in Servers, NEW s \in Servers PROVE Queued(t, s)' /\ Served(t, s)'
            BY <1>0, <1>4, FctpOpenLinks
      <2>2. ASSUME NEW s \in Servers PROVE CopyWhen(s)'
            BY <1>4 DEF FctpOpen, srvvars, LinksInv, CopyWhen
      <2> QED
            BY <2>1, <2>2 DEF LinksInv
<1>5. CASE FctpSend(a)
      <2>1. ASSUME NEW t \in Servers, NEW s \in Servers PROVE Queued(t, s)' /\ Served(t, s)'
            BY <1>0, <1>5, FctpSendLinks
      <2>2. ASSUME NEW s \in Servers PROVE CopyWhen(s)'
            <3>1. UNCHANGED pc
                  BY <1>5 DEF FctpSend, srvvars
            <3>2. CASE serving[a].from = s
                  BY <3>1, <3>2 DEF LinksInv, Served, CopyWhen
            <3>3. CASE serving[a].from # s
                  <4>1. copy'[s] = copy[s]
                        BY <1>0, <1>5, <3>3 DEF FctpSend, Answered, TypeOK, FctpTypes
                  <4> QED
                        BY <3>1, <4>1 DEF LinksInv, CopyWhen
            <3> QED
                  BY <3>2, <3>3
      <2> QED
            BY <2>1, <2>2 DEF LinksInv
<1>6. CASE FctpErrorSent(a)
      <2>1. ASSUME NEW t \in Servers, NEW s \in Servers PROVE Queued(t, s)' /\ Served(t, s)'
            BY <1>0, <1>6, FctpErrorLinks
      <2>2. ASSUME NEW s \in Servers PROVE CopyWhen(s)'
            <3>1. UNCHANGED pc
                  BY <1>6 DEF FctpErrorSent, srvvars
            <3>2. /\ Head(line[a]) = line[a][1] /\ 1 \in 1..Len(line[a])
                  /\ line[a][1].path # NoPath
                  <4>1. line[a] # <<>> /\ line[a] \in Seq(Conns) /\ Head(line[a]).path \in Paths
                        BY <1>0, <1>6 DEF FctpErrorSent, FctpMissing, TypeOK, FctpTypes
                  <4>2. Head(line[a]) = line[a][1] /\ 1 \in 1..Len(line[a])
                        BY <4>1
                  <4> QED
                        BY <4>1, <4>2, NoPathIsNoFile
            <3>3. CASE line[a][1].from = s
                  BY <3>1, <3>2, <3>3 DEF LinksInv, Queued, CopyWhen
            <3>4. CASE line[a][1].from # s
                  <4>1. copy'[s] = copy[s]
                        BY <1>0, <1>6, <3>2, <3>4 DEF FctpErrorSent, Answered, TypeOK, FctpTypes
                  <4> QED
                        BY <3>1, <4>1 DEF LinksInv, CopyWhen
            <3> QED
                  BY <3>3, <3>4
      <2> QED
            BY <2>1, <2>2 DEF LinksInv
<1> QED
      BY <1>1, <1>2, <1>3, <1>4, <1>5, <1>6 DEF FctpStep, Ending, Linking

-----------------------------------------------------------------------------

\* The bytes come from edits of one file.
AllFrom(bytes, path) == \A i \in 1..Len(bytes) : bytes[i].path = path

\* The bytes on their way to a server, in a copy, and in each file are of one file.
UpPath(s)   == AllFrom(up[s], Path(s))
CopyPath(s) == copy[s].kind = "FCTP_OK" => AllFrom(copy[s].data, Path(s))
DataPath(s) == \A path \in Paths : AllFrom(data[s][path], path)

\* That holds on all servers, as long as none refused an edit.
BytesInv == refused = {} => \A s \in Servers : UpPath(s) /\ CopyPath(s) /\ DataPath(s)

\* The inductive invariant of transfers.
CopyInv == DataInv /\ LinksInv /\ BytesInv

\* A part of such bytes comes from edits of that file,
LEMMA ReceivedFrom ==
    ASSUME NEW bytes \in Bytes, NEW k \in ReadAmounts(bytes), NEW path, AllFrom(bytes, path)
    PROVE  AllFrom(SubSeq(bytes, 1, k), path) /\ AllFrom(From(bytes, k), path)
BY DEF AllFrom, From, ReadAmounts, Bytes

\* The start of such bytes comes from edits of that file.
LEMMA UptoFrom ==
    ASSUME NEW bytes \in Bytes, NEW n \in Nat, NEW path, AllFrom(bytes, path)
    PROVE  AllFrom(Upto(bytes, n), path)
BY DEF AllFrom, Upto, Bytes

\* write() of such bytes into a file of such bytes makes a file of such bytes.
LEMMA WrittenFrom ==
    ASSUME NEW old \in Bytes, NEW at \in Nat, NEW new \in Bytes, at <= Len(old),
           NEW path, AllFrom(old, path), AllFrom(new, path)
    PROVE  AllFrom(WriteBytes(old, at, new), path)
<1>1. Len(old) \in Nat /\ Len(new) \in Nat
      BY DEF Bytes
<1>2. Len(WriteBytes(old, at,
new)) = IF at + Len(new) > Len(old) THEN at + Len(new) ELSE Len(old)
      BY WriteBytesType
<1>3. ASSUME NEW i \in 1..Len(WriteBytes(old, at, new))
      PROVE  WriteBytes(old, at, new)[i].path = path
      <2>1. /\ i \in Nat /\ 1 <= i
            /\ i <= IF at + Len(new) > Len(old) THEN at + Len(new) ELSE Len(old)
            BY <1>1, <1>2
      <2>2. WriteBytes(old, at, new)[i] =
                IF i \in (at + 1)..(at + Len(new)) THEN new[i - at] ELSE old[i]
            BY <1>1, <2>1 DEF WriteBytes, Overwritten
      <2>3. CASE i \in (at + 1)..(at + Len(new))
            <3>1. i - at \in 1..Len(new)
                  BY <1>1, <2>1, <2>3
            <3> QED
                  BY <2>2, <2>3, <3>1 DEF AllFrom
      <2>4. CASE i \notin (at + 1)..(at + Len(new))
            <3>1. i \in 1..Len(old)
                  BY <1>1, <2>1, <2>4
            <3> QED
                  BY <2>2, <2>4, <3>1 DEF AllFrom
      <2> QED
            BY <2>3, <2>4
<1> QED
      BY <1>3 DEF AllFrom

\* No step brings bytes of another file into the data connection,
LEMMA UpStep ==
    ASSUME DataInv, refused = {}, NEW a \in Servers, UpPath(a),
           User(a) \/ ClientStep(a) \/ ClientDies(a) \/ MainStep(a) \/ Restart(a)
           \/ ServerDies(a) \/ FctpStep(a)
    PROVE  UpPath(a)'
<1>0. TypeOK /\ Session(a) /\ Locally(a) /\ Upward(a) /\ Sent(a)
      BY LocallyTyped DEF DataInv, SessionInv, Upward
<1>1. ASSUME up'[a] = <<>> PROVE UpPath(a)'
      BY <1>1 DEF UpPath, AllFrom
<1>2. ASSUME UNCHANGED <<cmd, up>> PROVE UpPath(a)'
      BY <1>2 DEF UpPath, Path
<1>3. CASE NewClient(a) \/ Restart(a)
      BY <1>0, <1>1, <1>3 DEF NewClient, Restart, NewSession, TypeOK, NetTypes
<1>4. ASSUME NEW c, NEW state, SendCommand(a, c, state) PROVE UpPath(a)'
      BY <1>0, <1>1, <1>4 DEF SendCommand, Sent
<1>5. CASE User(a)
      BY <1>3, <1>4, <1>5 DEF User, ListDir, ClientQuit, NewFile, ReadFile, EditFile
<1>6. CASE WriteData(a)
      <2>1. cli[a] = "writing" /\ up'[a] = up[a] \o TextOf(cmd[a]) /\ cmd' = cmd
            BY <1>0, <1>6 DEF WriteData, DataSent, TypeOK, NetTypes
      <2>2. up[a] = <<>> /\ TextOf(cmd[a]) \in Seq(Texts)
            BY <1>0, <2>1, TextType DEF Sent, Locally, Bytes
      <2>3. up'[a] = TextOf(cmd[a])
            BY <2>1, <2>2, ConcatEmptySeq
      <2>4. Repeats(TextOf(cmd[a]), cmd[a].len, Text(cmd[a].path, cmd[a].no))
            BY <1>0, RepeatsTextOf DEF Locally
      <2> QED
            BY <2>1, <2>3, <2>4 DEF UpPath, AllFrom, Repeats, Text, Path
<1>7. CASE ReceiveResponse(a)
      <2>1. up[a] = <<>> /\ up' = up
            BY <1>0, <1>7 DEF ReceiveResponse, Sent, NoResponse, Response
      <2> QED
            BY <1>1, <2>1
<1>8. CASE ReceiveSize(a) \/ ReceiveData(a) \/ ResponseLost(a) \/ ClientDies(a)
      BY <1>2, <1>8 DEF ReceiveSize, ReceiveData, ResponseLost, ClientDies, netvars
<1>9. CASE ReceiveFile(a)
      <2>1. PICK k \in ReadAmounts(up[a]) : up' = [up EXCEPT ![a] = From(@, k)]
            BY <1>9 DEF ReceiveFile
      <2>2. up'[a] = From(up[a], k) /\ Path(a)' = Path(a)
            BY <1>0, <1>9, <2>1 DEF ReceiveFile, TypeOK, NetTypes, clivars, Path
      <2> QED
            BY <1>0, <2>2, ReceivedFrom DEF UpPath, Locally
<1>10. ASSUME Ends(a) PROVE UpPath(a)'
      BY <1>2, <1>10 DEF Ends, clivars, netvars
<1>11. CASE ServerDies(a) \/ FctpStep(a)
      BY <1>2, <1>10, <1>11
      DEF ServerDies, FctpStep, FctpOpen, FctpSend, FctpErrorSent, FctpDoubleFree,
          FctpNoRequest, Exits, clivars, netvars
<1>12. CASE MainStep(a)
      BY <1>2, <1>9, <1>10, <1>12
      DEF MainStep, BrokenPipe, FctpUnreachable, OpenFails, Exits, clivars, netvars,
          ClientLeft, ServeQuit, AskDirectory, DirectoryGone, ListAnswered,
          CreateRefused, CreateListed, CreateLocal, UpdateAnswered, UpdateRefused,
          OpenWrite, ServeLocalFile, NoLocalFile, ReplicasAnswered,
          FctpConnect, FctpRequest, CopyArrives, CopyFails, ServeCopy, SendData
<1> QED
      BY <1>3, <1>5, <1>6, <1>7, <1>8, <1>11, <1>12 DEF ClientStep

\* No step brings bytes of another file into a copy.
LEMMA CopyStep ==
    ASSUME SessionInv, LinksInv, NEW a \in Servers, DataPath(a), NEW s \in Servers, CopyPath(s),
           User(a) \/ ClientStep(a) \/ ClientDies(a) \/ MainStep(a) \/ Restart(a)
           \/ ServerDies(a) \/ FctpStep(a)
    PROVE  CopyPath(s)'
<1>0. TypeOK /\ ServingPath(a) /\ Served(a, s) /\ CopyWhen(s)
      BY DEF SessionInv, LinksInv
<1>1. ASSUME UNCHANGED cmd, copy'[s] = copy[s] \/ copy'[s].kind # "FCTP_OK" PROVE CopyPath(s)'
      BY <1>1 DEF CopyPath, Path
<1>2. CASE FctpSend(a)
      <2> DEFINE c == serving[a]
      <2>1. /\ c # Idle /\ UNCHANGED cmd
            /\ copy' = IF c.from = NIL THEN copy
                       ELSE [copy EXCEPT ![c.from] = FctpOk(Upto(data[a][c.path], c.size))]
            BY <1>2 DEF FctpSend, Answered, clivars
      <2>2. CASE c.from # s
            <3>1. copy'[s] = copy[s]
                  BY <1>0, <2>1, <2>2 DEF TypeOK, FctpTypes
            <3> QED
                  BY <1>1, <2>1, <3>1
      <2>3. CASE c.from = s
            <3>1. c.path \in Paths /\ c.path = Path(s) /\ c.size \in Nat
                  BY <1>0, <2>1, <2>3 DEF ServingPath, Served, TypeOK, FctpTypes, Conns
            <3>2. data[a][c.path] \in Bytes /\ AllFrom(data[a][c.path], c.path)
                  BY <1>0, <3>1 DEF TypeOK, LocTypes, DataPath
            <3>3. copy'[s] = FctpOk(Upto(data[a][c.path], c.size))
                  BY <1>0, <2>1, <2>3, ConstantFacts DEF TypeOK, FctpTypes
            <3>4. copy'[s].data = Upto(data[a][c.path], c.size)
                  BY <3>3 DEF FctpOk
            <3>5. AllFrom(copy'[s].data, Path(s))
                  BY <3>1, <3>2, <3>4, UptoFrom
            <3> QED
                  BY <2>1, <3>5 DEF CopyPath, Path
      <2> QED
            BY <2>2, <2>3
<1>3. CASE FctpErrorSent(a)
      <2>1. UNCHANGED cmd /\ copy' = Answered(Head(line[a]), FctpError)
            BY <1>3 DEF FctpErrorSent, clivars
      <2>2. copy'[s] = copy[s] \/ copy'[s] = FctpError
            BY <1>0, <2>1 DEF Answered, TypeOK, FctpTypes
      <2>3. FctpError.kind # "FCTP_OK"
            BY DEF FctpError
      <2> QED
            BY <1>1, <2>1, <2>2, <2>3
<1>4. CASE Ending(a) \/ Linking(a)
      <2>1. UNCHANGED cmd /\ (copy' = copy \/ copy' = [copy EXCEPT ![a] = NoCopy])
            BY <1>4, EndingEnds
            DEF Ends, Linking, FctpConnect, FctpRequest, CopyArrives, CopyFails, HangUp, clivars
      <2>2. copy'[s] = copy[s] \/ copy'[s] = NoCopy
            BY <1>0, <2>1 DEF TypeOK, FctpTypes
      <2>3. NoCopy.kind # "FCTP_OK"
            BY DEF NoCopy
      <2> QED
            BY <1>1, <2>1, <2>2, <2>3
<1>5. CASE FctpOpen(a)
      BY <1>1, <1>5 DEF FctpOpen, clivars
<1>6. CASE /\ ~Linking(a) /\ ~Ending(a)
           /\ User(a) \/ ClientStep(a) \/ ClientDies(a) \/ MainStep(a) \/ Restart(a)
      <2>1. copy' = copy /\ (pc[a] = "fetch" => cmd'[a] = cmd[a])
            BY <1>6, QuietSteps
      <2>2. CASE s # a
            <3>1. SameSession(s)
                  BY <1>0, <1>6, <2>2, OtherSessions
            <3> QED
                  BY <2>1, <3>1 DEF CopyPath, Path, SameSession
      <2>3. CASE s = a /\ pc[s] = "fetch"
            BY <2>1, <2>3 DEF CopyPath, Path
      <2>4. CASE pc[s] # "fetch"
            BY <1>0, <2>1, <2>4 DEF CopyPath, CopyWhen, NoCopy
      <2> QED
            BY <2>2, <2>3, <2>4
<1> QED
      BY <1>2, <1>3, <1>4, <1>5, <1>6 DEF FctpStep, Ending

\* No step brings bytes of another file into a file.
LEMMA DataStep ==
    ASSUME SessionInv, NEW a \in Servers, DataPath(a), UpPath(a), CopyPath(a),
           User(a) \/ ClientStep(a) \/ ClientDies(a) \/ MainStep(a) \/ Restart(a)
           \/ ServerDies(a) \/ FctpStep(a)
    PROVE  DataPath(a)'
<1>0. TypeOK /\ Session(a) /\ Locally(a)
      BY LocallyTyped DEF SessionInv
<1>1. ASSUME UNCHANGED data PROVE DataPath(a)'
      BY <1>1 DEF DataPath
<1>2. ASSUME NEW new \in Bytes, NEW at \in Nat, Path(a) \in Paths,
             at <= Len(data[a][Path(a)]), AllFrom(new, Path(a)),
             data' = [data EXCEPT ![a][Path(a)] = WriteBytes(@, at, new)]
      PROVE  DataPath(a)'
      <2>1. data[a][Path(a)] \in Bytes /\ AllFrom(data[a][Path(a)], Path(a))
            BY <1>0, <1>2 DEF TypeOK, LocTypes, DataPath
      <2>2. AllFrom(WriteBytes(data[a][Path(a)], at, new), Path(a))
            BY <1>2, <2>1, WrittenFrom
      <2>3. \A path \in Paths :
                data'[a][path] = IF path = Path(a) THEN WriteBytes(data[a][Path(a)], at, new)
                                 ELSE data[a][path]
            BY <1>0, <1>2 DEF TypeOK, LocTypes
      <2> QED
            BY <2>2, <2>3 DEF DataPath
<1>3. CASE ReceiveFile(a)
      <2>1. PICK k \in ReadAmounts(up[a]) :
                data' = [data EXCEPT ![a][Path(a)] =
                             WriteBytes(@, pos[a], SubSeq(up[a], 1, k))]
            BY <1>3 DEF ReceiveFile
      <2>2. Path(a) \in Paths /\ pos[a] <= Len(data[a][Path(a)])
            BY <1>0, <1>3 DEF ReceiveFile, Session, AtPath
      <2>3. SubSeq(up[a], 1, k) \in Bytes /\ AllFrom(SubSeq(up[a], 1, k), Path(a)) /\ pos[a] \in Nat
            BY <1>0, ReceivedType, ReceivedFrom DEF Locally, UpPath
      <2> QED
            BY <1>2, <2>1, <2>2, <2>3
<1>4. CASE CopyArrives(a)
      <2>1. /\ copy[a].kind = "FCTP_OK" /\ pc[a] = "fetch"
            /\ data' = [data EXCEPT ![a][Path(a)] = WriteBytes(@, 0, copy[a].data)]
            BY <1>4 DEF CopyArrives, Goto
      <2>2. Path(a) \in Paths
            BY <1>0, <2>1 DEF Session, AtPath
      <2>3. copy[a].data \in Bytes /\ data[a][Path(a)] \in Bytes
            BY <1>0, <2>2 DEF TypeOK, FctpTypes, LocTypes, Copies
      <2>4. 0 \in Nat /\ 0 <= Len(data[a][Path(a)])
            BY <2>3 DEF Bytes
      <2>5. AllFrom(copy[a].data, Path(a))
            BY <2>1 DEF CopyPath
      <2> QED
            BY <1>2, <2>1, <2>2, <2>3, <2>4, <2>5
<1>5. ASSUME Ends(a) PROVE UNCHANGED data
      BY <1>5 DEF Ends, locvars
<1>6. CASE User(a) \/ ClientStep(a) \/ ClientDies(a) \/ Restart(a) \/ ServerDies(a) \/ FctpStep(a)
      BY <1>1, <1>5, <1>6
      DEF User, NewClient, ListDir, ClientQuit, NewFile, ReadFile, EditFile, SendCommand,
          ClientStep, WriteData, ReceiveResponse, ReceiveSize, ReceiveData, ResponseLost,
          ClientDies,
          Restart, ServerDies, FctpStep, FctpOpen, FctpSend, FctpErrorSent, FctpDoubleFree,
          FctpNoRequest, Exits, locvars
<1>7. CASE MainStep(a) /\ ~(ReceiveFile(a) \/ CopyArrives(a))
      BY <1>1, <1>5, <1>7
      DEF MainStep, BrokenPipe, FctpUnreachable, OpenFails, Exits, locvars,
          ClientLeft, ServeQuit, AskDirectory, DirectoryGone, ListAnswered,
          CreateRefused, CreateListed, CreateLocal, UpdateAnswered, UpdateRefused,
          OpenWrite, ServeLocalFile, NoLocalFile, ReplicasAnswered,
          FctpConnect, FctpRequest, CopyFails, ServeCopy, SendData
<1> QED
      BY <1>3, <1>4, <1>6, <1>7

\* Links, copies and files stay consistent: a copy on its way to a server is of the
\* file that server asked for (src/fctp.c and ask_file in src/fsservd.c).
THEOREM CopyInvariant == Spec => []CopyInv
<1>1. Init => LinksInv /\ BytesInv
      <2> SUFFICES ASSUME Init PROVE LinksInv /\ BytesInv
          OBVIOUS
      <2>1. LinksInv
            BY ConstantFacts DEF Init, LinksInv, CopyWhen, Queued, Served, Idle
      <2>2. BytesInv
            BY DEF Init, BytesInv, UpPath, CopyPath, DataPath, AllFrom, NoCopy
      <2> QED
            BY <2>1, <2>2
<1>2. DataInv /\ LinksInv /\ BytesInv /\ [Next]_vars => LinksInv' /\ BytesInv'
      <2> SUFFICES ASSUME DataInv, LinksInv, BytesInv, [Next]_vars PROVE LinksInv' /\ BytesInv'
          OBVIOUS
      <2>0. SessionInv /\ TypeOK
            BY DEF DataInv, SessionInv
      <2>1. ASSUME NEW a \in Servers,
                   User(a) \/ ClientStep(a) \/ ClientDies(a) \/ MainStep(a) \/ Restart(a)
                   \/ ServerDies(a) \/ FctpStep(a)
            PROVE  LinksInv' /\ BytesInv'
            <3>1. LinksInv'
                  BY <2>0, <2>1, LinksStep
            <3>2. ASSUME refused' = {}, NEW s \in Servers
                  PROVE  UpPath(s)' /\ CopyPath(s)' /\ DataPath(s)'
                  <4>1. refused = {}
                        BY <2>0, <2>1, <3>2, RefusedGrows
                  <4>2. /\ UpPath(a) /\ CopyPath(a) /\ DataPath(a)
                        /\ UpPath(s) /\ CopyPath(s) /\ DataPath(s)
                        BY <4>1 DEF BytesInv
                  <4>3. CopyPath(s)'
                        BY <2>0, <2>1, <4>2, CopyStep
                  <4>4. CASE s = a
                        BY <2>0, <2>1, <4>1, <4>2, <4>3, <4>4, UpStep, DataStep
                  <4>5. CASE s # a
                        <5>1. SameSession(s)
                              BY <2>0, <2>1, <4>5, OtherSessions
                        <5> QED
                              BY <4>2, <4>3, <5>1 DEF SameSession, UpPath, DataPath, Path
                  <4> QED
                        BY <4>4, <4>5
            <3> QED
                  BY <3>1, <3>2 DEF BytesInv
      <2>2. CASE DirectoryDies \/ UNCHANGED vars
            <3>1. UNCHANGED <<line, serving, copy, peer, pc, cmd, up, data, refused>>
                  BY <2>2 DEF DirectoryDies, vars, clivars, netvars, srvvars, locvars, fctpvars
            <3>2. LinksInv'
                  BY <3>1 DEF LinksInv, CopyWhen, Queued, Served, Path
            <3>3. BytesInv'
                  BY <3>1 DEF BytesInv, UpPath, CopyPath, DataPath, Path
            <3> QED
                  BY <3>2, <3>3
      <2> QED
            BY <2>1, <2>2 DEF Next, Failure
<1> QED
      BY <1>1, <1>2, DataInvariant, PTL DEF Spec, CopyInv

\* As long as no server refused an edit, a file holds bytes of edits of that file
\* only, copies on other servers included (write_file, ask_file, src/fctp.c).
THEOREM NoForeignBytesHolds == Spec => []NoForeignBytes
<1>1. CopyInv => NoForeignBytes
      BY DEF CopyInv, BytesInv, DataPath, AllFrom, NoForeignBytes
<1> QED
      BY <1>1, CopyInvariant, PTL
================================================================================
