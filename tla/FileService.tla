----------------------------- MODULE FileService -----------------------------
(* The file commands: what "ls", "touch", "edit" and "cat" do in the client   *)
(* (src/fscli.c, src/fap.c), in the file servers (src/fsservd.c) and between  *)
(* file servers (src/fctp.c), down to the bytes of the data connections and   *)
(* of the files the servers keep.                                             *)
(*                                                                            *)
(* A file server has two threads: the main thread, which serves one client    *)
(* at a time, and the FCTP thread, which hands files to other file servers.   *)
(* The variables of a session are indexed by the server the session is with.  *)
(* The directory server answers each request in one step here; module         *)
(* Directory has its threads.  How a session is opened is in FapSession.      *)
EXTENDS Integers, Sequences

CONSTANTS
    MaxServers,     \* the number of file servers
    Paths,          \* the files users name
    Slash,          \* "/", the path of a command whose file name is empty
    Entered,        \* the paths users enter at each server
    RecvBufSize,    \* RECVBUFSIZE; no text is longer (MAX_LINE)
    Backlog,        \* how many connections listen() lets wait
    MaxText,        \* bound: the longest text entered in an edit
    MaxCommands,    \* bound: commands over the whole behaviour
    Update,         \* what an UPDATE request can come to, see UpdateRoot
    MaxDeaths,      \* bound: processes killed over the whole behaviour
    MayDie          \* which processes

ASSUME ServersAssumption == MaxServers \in Nat
ASSUME SlashIsNoFile == Slash \notin Paths
ASSUME TextAssumption ==
    /\ MaxText \in Nat \ {0}
    /\ RecvBufSize \in Nat
    /\ RecvBufSize >= MaxText
    /\ MaxCommands \in Nat
ASSUME BacklogAssumption == Backlog \in Nat \ {0}
ASSUME UpdateAssumption == Update \subseteq {"root", "path", "refused"}
ASSUME MaxDeathsAssumption == MaxDeaths \in Nat
ASSUME MayDieAssumption == MayDie \subseteq {"client", "server", "directory"}

Servers == 1..MaxServers
ASSUME EnteredAssumption == Entered \in [Servers -> SUBSET (Paths \cup {Slash})]

NIL     == 0
DirSize == 1        \* st_size of a directory: more than nothing

VARIABLES
    \* the directory server
    storer,         \* of each file: node->fileserv, or NIL when not listed
    rootstorer,     \* fileserv of the root
    dirlocked,      \* whether a CREATE left dirlock locked
    dirup,
    \* the clients
    cli,
    cmd,            \* the command in progress, or the last one
    out,            \* what "cat" has written to the terminal
    \* the two connections of a session
    asked,          \* the server has not read the client's message
    rsp,            \* the message the client has not read
    up,             \* bytes on the data connection to the server
    down,           \* bytes on the data connection to the client
    left,           \* recvfile: left, at whichever end is in it
    \* the main thread of a file server
    pc,
    pos,            \* the offset of the local file written next
    peer,           \* the file server it connected to
    files,          \* the names in its data location,
    data,           \* the content of those files
    sealed,         \* and those that it may not open again
    \* the FCTP threads and their connections
    line,           \* the connections not accepted yet
    serving,        \* the request being served
    copy,           \* the answer a file server has not read
    \* what the users did and were told
    ncmds,          \* commands so far; an edit's text is known by its number
    ndeaths,        \* processes killed so far
    saved,          \* of each file, the last text whose edit was answered OK
    refused,        \* servers that refused an edit
    ended           \* servers that ended

dirvars  == <<storer, rootstorer, dirlocked, dirup>>
clivars  == <<cli, cmd, out>>
netvars  == <<asked, rsp, up, down, left>>
srvvars  == <<pc, pos, peer>>
locvars  == <<files, data, sealed>>
fctpvars == <<line, serving, copy>>
obsvars  == <<ncmds, ndeaths, saved, refused, ended>>
vars     == <<storer, rootstorer, dirlocked, dirup, cli, cmd, out, asked, rsp, up,
              down, left, pc, pos, peer, files, data, sealed, line, serving,
              copy, ncmds, ndeaths, saved, refused, ended>>

-----------------------------------------------------------------------------
(* Messages and bytes.  A byte is known by the text it comes from.           *)

Texts == [path : Paths \cup {Slash}, no : 0..MaxCommands]
Text(path, no) == [path |-> path, no |-> no]
NoText == [text |-> Text(Slash, 0), len |-> 0]

Command(kind, path, no, len, seen) ==
    [kind |-> kind, path |-> path, no |-> no, len |-> len, seen |-> seen]
NoCommand == Command("none", Slash, 0, 0, NoText)

Response(kind, size) == [kind |-> kind, size |-> size]
NoResponse == Response("NONE", 0)

Conn(from, path) == [from |-> from, path |-> path, size |-> 0]
NoPath == "none"
ASSUME NoPathIsNoFile == NoPath \notin Paths
Idle   == [from |-> NIL, path |-> NoPath, size |-> NIL]

NoCopy    == [kind |-> "NONE", data |-> <<>>]
FctpError == [kind |-> "FCTP_ERROR", data |-> <<>>]
FctpOk(d) == [kind |-> "FCTP_OK", data |-> d]

Active == {"prompt", "writing", "waiting", "receiving"}
AtDirectory == {"list", "create", "update", "replicas"}

Init ==
    /\ storer = [p \in Paths |-> NIL]
    /\ rootstorer = NIL
    /\ dirlocked = FALSE
    /\ dirup = TRUE
    /\ cli = [s \in Servers |-> "none"]
    /\ cmd = [s \in Servers |-> NoCommand]
    /\ out = [s \in Servers |-> <<>>]
    /\ asked = [s \in Servers |-> FALSE]
    /\ rsp = [s \in Servers |-> NoResponse]
    /\ up = [s \in Servers |-> <<>>]
    /\ down = [s \in Servers |-> <<>>]
    /\ left = [s \in Servers |-> 0]
    /\ pc = [s \in Servers |-> "accept"]
    /\ pos = [s \in Servers |-> 0]
    /\ peer = [s \in Servers |-> NIL]
    /\ files = [s \in Servers |-> {}]
    /\ data = [s \in Servers |-> [p \in Paths |-> <<>>]]
    /\ sealed = [s \in Servers |-> {}]
    /\ line = [s \in Servers |-> <<>>]
    /\ serving = [s \in Servers |-> Idle]
    /\ copy = [s \in Servers |-> NoCopy]
    /\ ncmds = 0
    /\ ndeaths = 0
    /\ saved = [p \in Paths |-> NoText]
    /\ refused = {}
    /\ ended = {}

Goto(s, from, to) == pc[s] = from /\ pc' = [pc EXCEPT ![s] = to]

-----------------------------------------------------------------------------
(* The clients: the shell's commands and the library calls behind them.      *)

\* A session ends, and with it what was in its connections.
NewSession(s, state) ==
    /\ cli' = [cli EXCEPT ![s] = state]
    /\ cmd' = [cmd EXCEPT ![s] = NoCommand]
    /\ asked' = [asked EXCEPT ![s] = FALSE]
    /\ rsp' = [rsp EXCEPT ![s] = NoResponse]
    /\ up' = [up EXCEPT ![s] = <<>>]
    /\ down' = [down EXCEPT ![s] = <<>>]
    /\ left' = [left EXCEPT ![s] = 0]
    /\ out' = [out EXCEPT ![s] = <<>>]

\* The server accepts the next client.
NewClient(s) ==
    /\ cli[s] \notin Active
    /\ Goto(s, "accept", "serve")
    /\ NewSession(s, "prompt")
    /\ UNCHANGED <<dirvars, pos, peer, locvars, fctpvars, obsvars>>

\* What the user enters is sent at once.  A command to a server that has
\* ended fails, and is left out.
SendCommand(s, c, state) ==
    /\ cli[s] = "prompt"
    /\ pc[s] # "down"
    /\ cli' = [cli EXCEPT ![s] = state]
    /\ cmd' = [cmd EXCEPT ![s] = c]
    /\ asked' = [asked EXCEPT ![s] = TRUE]
    /\ out' = [out EXCEPT ![s] = <<>>]
    /\ ncmds < MaxCommands
    /\ ncmds' = ncmds + 1
    /\ UNCHANGED <<dirvars, rsp, up, down, left, srvvars, locvars, fctpvars,
                   ndeaths, saved, refused, ended>>

ListDir(s) == SendCommand(s, Command("list", Slash, 0, 0, NoText), "waiting")

NewFile(s, path) == SendCommand(s, Command("create", path, 0, 0, NoText), "waiting")

LastSaved(path) == IF path = Slash THEN NoText ELSE saved[path]

ReadFile(s, path) ==
    SendCommand(s, Command("read", path, 0, 0, LastSaved(path)), "waiting")

EditFile(s, path, len) ==
    SendCommand(s, Command("write", path, ncmds + 1, len, NoText), "writing")

ClientQuit(s) == SendCommand(s, Command("quit", Slash, 0, 0, NoText), "waiting")

\* Faulty: the line end that closes the text is not sent.
TextCut(c) == [i \in 1..(c.len - 1) |-> Text(c.path, c.no)]

\* The text of an edit, as it goes out and as it should be in the file.
TextOf(c) == [i \in 1..c.len |-> Text(c.path, c.no)]
DataSent(c) == TextOf(c)

\* fap_write_file sends the text after the command, on the data connection,
\* without waiting for an answer.
WriteData(s) ==
    /\ cli[s] = "writing"
    /\ cli' = [cli EXCEPT ![s] = "waiting"]
    /\ up' = [up EXCEPT ![s] = @ \o DataSent(cmd[s])]
    /\ UNCHANGED <<dirvars, cmd, out, asked, rsp, down, left, srvvars, locvars,
                   fctpvars, obsvars>>

\* The answer to any command but "cat".
ReceiveResponse(s) ==
    /\ cli[s] = "waiting"
    /\ rsp[s].kind \in {"FILEINFO", "OK", "ERROR"}
    /\ cli' = [cli EXCEPT ![s] = IF cmd[s].kind = "quit" THEN "none" ELSE "prompt"]
    /\ cmd' = [cmd EXCEPT ![s] = NoCommand]
    /\ rsp' = [rsp EXCEPT ![s] = NoResponse]
    /\ saved' = IF rsp[s].kind = "OK" /\ cmd[s].path \in Paths
                THEN [saved EXCEPT ![cmd[s].path] =
                          [text |-> Text(cmd[s].path, cmd[s].no), len |-> cmd[s].len]]
                ELSE saved
    /\ UNCHANGED <<dirvars, out, asked, up, down, left, srvvars, locvars,
                   fctpvars, ncmds, ndeaths, refused, ended>>

\* The answer to "cat" tells how much data follows.
ReceiveSize(s) ==
    /\ cli[s] = "waiting"
    /\ rsp[s].kind = "DATAOUT"
    /\ cli' = [cli EXCEPT ![s] = IF rsp[s].size = 0 THEN "prompt" ELSE "receiving"]
    /\ left' = [left EXCEPT ![s] = rsp[s].size]
    /\ rsp' = [rsp EXCEPT ![s] = NoResponse]
    /\ UNCHANGED <<dirvars, cmd, out, asked, up, down, srvvars, locvars, fctpvars,
                   obsvars>>

\* What one read() of recvfile may return: a part of what has arrived, and
\* no more than the buffer holds, however much of the file is left.
ReadAmounts(bytes) == {k \in 1..Len(bytes) : k <= RecvBufSize}
From(bytes, k) == SubSeq(bytes, k + 1, Len(bytes))

\* Faulty: recvfile ends as soon as something was received.
RecvDoneAtOnce(s, k) == TRUE

\* It ends when exactly nothing is left.
RecvDone(s, k) == left[s] = k

\* One round of recvfile in "cat".
ReceiveData(s) ==
    /\ cli[s] = "receiving"
    /\ \E k \in ReadAmounts(down[s]) :
           /\ out' = [out EXCEPT ![s] = @ \o SubSeq(down[s], 1, k)]
           /\ down' = [down EXCEPT ![s] = From(@, k)]
           /\ left' = [left EXCEPT ![s] = @ - k]
           /\ cli' = [cli EXCEPT ![s] = IF RecvDone(s, k) THEN "prompt" ELSE "receiving"]
    /\ UNCHANGED <<dirvars, cmd, asked, rsp, up, srvvars, locvars, fctpvars, obsvars>>

\* The end of the stream instead of an answer: the command is over, and so
\* is the session.
ResponseLost(s) ==
    /\ cli[s] = "waiting"
    /\ pc[s] = "down"
    /\ rsp[s] = NoResponse
    /\ cli' = [cli EXCEPT ![s] = "lost"]
    /\ UNCHANGED <<dirvars, cmd, out, netvars, srvvars, locvars, fctpvars, obsvars>>

Killed(kind) ==
    /\ kind \in MayDie
    /\ ndeaths < MaxDeaths
    /\ ndeaths' = ndeaths + 1

\* A client is killed.  What it has sent stays readable.
ClientDies(s) ==
    /\ Killed("client")
    /\ cli[s] \in Active
    /\ cli' = [cli EXCEPT ![s] = "dead"]
    /\ rsp' = [rsp EXCEPT ![s] = NoResponse]
    /\ down' = [down EXCEPT ![s] = <<>>]
    /\ UNCHANGED <<dirvars, cmd, out, asked, up, left, srvvars, locvars, fctpvars,
                   ncmds, saved, refused, ended>>

-----------------------------------------------------------------------------
(* The main thread of a file server.                                         *)

\* fsmsg_send to the client; for a client that is gone the message is lost.
Respond(s, m) == rsp' = [rsp EXCEPT ![s] = IF cli[s] = "dead" THEN NoResponse ELSE m]

\* The connection to another file server is closed.
HangUp(s) == copy' = [copy EXCEPT ![s] = NoCopy] /\ peer' = [peer EXCEPT ![s] = NIL]

LeftBy(c, s) == IF c.from = s THEN [c EXCEPT !.from = NIL] ELSE c

\* The process ends: exit(1) in syscallerr, a signal or abort().  Its files
\* stay, its connections close.
Ends(s) ==
    /\ pc' = [pc EXCEPT ![s] = "down"]
    /\ line' = [t \in Servers |-> IF t = s THEN <<>>
                                  ELSE [i \in 1..Len(line[t]) |-> LeftBy(line[t][i], s)]]
    /\ serving' = [t \in Servers |-> IF t = s THEN Idle ELSE LeftBy(serving[t], s)]
    /\ HangUp(s)
    /\ pos' = [pos EXCEPT ![s] = 0]
    /\ ended' = ended \cup {s}
    /\ UNCHANGED <<dirvars, clivars, netvars, locvars, ncmds, saved, refused>>

Exits(s) == Ends(s) /\ UNCHANGED ndeaths

ServerDies(s) == Killed("server") /\ pc[s] # "down" /\ Ends(s)

\* The server is started again: it registers with the directory and accepts.
\* The client of its last run is not followed any further.
Restart(s) ==
    /\ dirup
    /\ Goto(s, "down", "accept")
    /\ NewSession(s, "none")
    /\ UNCHANGED <<dirvars, pos, peer, locvars, fctpvars, obsvars>>

\* Faulty: serve_client reads on after the end of the stream.
ReadOn(s) ==
    /\ ~asked[s] /\ cli[s] = "dead" /\ pc[s] = "serve"
    /\ UNCHANGED vars

\* serve_client at the end of the stream.
ClientLeft(s) ==
    /\ ~asked[s]
    /\ cli[s] = "dead"
    /\ Goto(s, "serve", "accept")
    /\ UNCHANGED <<dirvars, clivars, netvars, pos, peer, locvars, fctpvars, obsvars>>

\* serve_client reads a message of the given kind.
Take(s, kind, to) ==
    /\ asked[s]
    /\ cmd[s].kind = kind
    /\ Goto(s, "serve", to)
    /\ asked' = [asked EXCEPT ![s] = FALSE]

ServeQuit(s) ==
    /\ Take(s, "quit", "accept")
    /\ Respond(s, Response("OK", 0))
    /\ UNCHANGED <<dirvars, clivars, up, down, left, pos, peer, locvars, fctpvars, obsvars>>

\* "ls", "touch" and "edit" start with a request to the directory.
AskDirectory(s) ==
    /\ \/ Take(s, "list", "list")
       \/ Take(s, "create", "create")
       \/ Take(s, "write", "update")
    /\ UNCHANGED <<dirvars, clivars, rsp, up, down, left, pos, peer, locvars,
                   fctpvars, obsvars>>

\* The directory is gone: its answer is the end of the stream.  The handlers
\* of list, create and write then return without an answer to the client,
\* ask_file without having fetched the file.
DirectoryGone(s) ==
    /\ ~dirup
    /\ pc[s] \in AtDirectory
    /\ pc' = [pc EXCEPT ![s] = IF @ = "replicas" THEN "reopen" ELSE "serve"]
    /\ UNCHANGED <<dirvars, clivars, netvars, pos, peer, locvars, fctpvars, obsvars>>

\* The next request after that is a write to a closed connection: SIGPIPE.
BrokenPipe(s) ==
    /\ ~dirup
    /\ pc[s] \in AtDirectory
    /\ Exits(s)

\* READ, CREATE and GET_REPLICAS wait for dirlock.
DirectoryAnswers == dirup /\ ~dirlocked

ListAnswered(s) ==
    /\ DirectoryAnswers
    /\ Goto(s, "list", "serve")
    /\ Respond(s, Response("FILEINFO", 0))
    /\ UNCHANGED <<dirvars, clivars, asked, up, down, left, pos, peer, locvars,
                   fctpvars, obsvars>>

Path(s) == cmd[s].path
Listed(path) == IF path = Slash THEN TRUE ELSE storer[path] # NIL

\* The path is taken: an error for the client, and the directory keeps its
\* lock (module Directory, CreateExists).
CreateRefused(s) ==
    /\ DirectoryAnswers
    /\ Listed(Path(s))
    /\ Goto(s, "create", "serve")
    /\ dirlocked' = TRUE
    /\ Respond(s, Response("ERROR", 0))
    /\ UNCHANGED <<storer, rootstorer, dirup, clivars, asked, up, down, left, pos,
                   peer, locvars, fctpvars, obsvars>>

\* The path is listed; the local file comes next.
CreateListed(s) ==
    /\ DirectoryAnswers
    /\ ~Listed(Path(s))
    /\ Goto(s, "create", "createlocal")
    /\ storer' = [storer EXCEPT ![Path(s)] = s]
    /\ UNCHANGED <<rootstorer, dirlocked, dirup, clivars, netvars, pos, peer,
                   locvars, fctpvars, obsvars>>

\* open() with O_CREAT makes a file that is not there, and keeps what is in
\* one that is.
OpenCreates(s, path) == files' = [files EXCEPT ![s] = @ \cup {path}]

\* Faulty: the answer goes out without the local file.
CreateLater(s) ==
    /\ Path(s) \notin sealed[s]
    /\ Goto(s, "createlocal", "serve")
    /\ Respond(s, Response("FILEINFO", 0))
    /\ UNCHANGED <<dirvars, clivars, asked, up, down, left, pos, peer, locvars,
                   fctpvars, obsvars>>


CreateLocal(s) ==
    /\ Path(s) \notin sealed[s]
    /\ Goto(s, "createlocal", "serve")
    /\ OpenCreates(s, Path(s))
    /\ Respond(s, Response("FILEINFO", 0))
    /\ UNCHANGED <<dirvars, clivars, asked, up, down, left, pos, peer, data, sealed,
                   fctpvars, obsvars>>

\* A local file that may not be opened, or the directory of all of them
\* opened for writing: syscallerr.
OpenFails(s) ==
    /\ \/ pc[s] \in {"createlocal", "writelocal"}
       \/ pc[s] = "serve" /\ asked[s] /\ cmd[s].kind = "read"
       \/ pc[s] = "reopen"
    /\ \/ Path(s) \in sealed[s]
       \/ pc[s] = "writelocal" /\ Path(s) = Slash
       \/ pc[s] = "reopen" /\ Path(s) \notin files[s]
    /\ Exits(s)

\* UPDATE unlocks dirlock whoever holds it.  The path of the request is read
\* from the wrong place (module Directory, UpdateTargets), so that the root
\* is updated, or the file, or nothing is found.
UpdateRoot(s) ==
    /\ "root" \in Update \/ ("path" \in Update /\ Path(s) = Slash)
    /\ rootstorer' = s
    /\ UNCHANGED storer

UpdatePath(s) ==
    /\ "path" \in Update
    /\ Path(s) # Slash
    /\ Listed(Path(s))
    /\ storer' = [storer EXCEPT ![Path(s)] = s]
    /\ UNCHANGED rootstorer

UpdateAnswered(s) ==
    /\ dirup
    /\ Goto(s, "update", "writelocal")
    /\ UpdateRoot(s) \/ UpdatePath(s)
    /\ dirlocked' = FALSE
    /\ UNCHANGED <<dirup, clivars, netvars, pos, peer, locvars, fctpvars, obsvars>>

\* Faulty: no "goto cleanup" after the error was sent.
WriteAnyway == "writelocal"

AfterRefusal == "serve"

\* The client is told that the edit failed.  The text it sends, or has sent,
\* stays in the data connection.
UpdateRefused(s) ==
    /\ dirup
    /\ Goto(s, "update", AfterRefusal)
    /\ "refused" \in Update \/ ("path" \in Update /\ ~Listed(Path(s)))
    /\ dirlocked' = FALSE
    /\ Respond(s, Response("ERROR", 0))
    /\ refused' = refused \cup {s}
    /\ UNCHANGED <<storer, rootstorer, dirup, clivars, asked, up, down, left, pos,
                   peer, locvars, fctpvars, ncmds, ndeaths, saved, ended>>

\* The local file is opened for writing from its start; it is not truncated.
OpenWrite(s) ==
    /\ Path(s) \notin sealed[s] \cup {Slash}
    /\ Goto(s, "writelocal", "recv")
    /\ OpenCreates(s, Path(s))
    /\ pos' = [pos EXCEPT ![s] = 0]
    /\ left' = [left EXCEPT ![s] = cmd[s].len]
    /\ UNCHANGED <<dirvars, clivars, asked, rsp, up, down, peer, data, sealed,
                   fctpvars, obsvars>>

\* write() at an offset.
Overwritten(old, at, new) ==
    [i \in 1..(IF at + Len(new) > Len(old) THEN at + Len(new) ELSE Len(old)) |->
         IF i \in (at + 1)..(at + Len(new)) THEN new[i - at] ELSE old[i]]

\* Faulty: every write() goes to the start of the file.
OverwrittenAtStart(old, at, new) == Overwritten(old, 0, new)

WriteBytes(old, at, new) == Overwritten(old, at, new)

\* One round of recvfile in write_file, and the answer when nothing is left.
\* With more in the buffer than was left it goes on reading.
ReceiveFile(s) ==
    /\ pc[s] = "recv"
    /\ \E k \in ReadAmounts(up[s]) :
           /\ data' = [data EXCEPT ![s][Path(s)] =
                           WriteBytes(@, pos[s], SubSeq(up[s], 1, k))]
           /\ up' = [up EXCEPT ![s] = From(@, k)]
           /\ pos' = [pos EXCEPT ![s] = IF RecvDone(s, k) THEN 0 ELSE @ + k]
           /\ left' = [left EXCEPT ![s] = @ - k]
           /\ IF RecvDone(s, k)
              THEN /\ pc' = [pc EXCEPT ![s] = "serve"]
                   /\ Respond(s, Response("OK", 0))
              ELSE UNCHANGED <<pc, rsp>>
    /\ UNCHANGED <<dirvars, clivars, asked, down, peer, files, sealed, fctpvars, obsvars>>

-----------------------------------------------------------------------------
(* "cat".                                                                    *)

\* Faulty: the size without the line end.
SizeCut(s, path) == IF path = Slash THEN DirSize ELSE Len(data[s][path]) - 1

\* open(O_RDONLY); the data location itself can be opened too.
CanOpen(s, path) == path = Slash \/ path \in files[s] \ sealed[s]

Size(s, path) == IF path = Slash THEN DirSize ELSE Len(data[s][path])

\* fstat, and the answer with the size.
AnswerSize(s, from) ==
    /\ CanOpen(s, Path(s))
    /\ Goto(s, from, IF Size(s, Path(s)) = 0 THEN "serve" ELSE "senddata")
    /\ Respond(s, Response("DATAOUT", Size(s, Path(s))))

ServeLocalFile(s) ==
    /\ asked[s]
    /\ cmd[s].kind = "read"
    /\ AnswerSize(s, "serve")
    /\ asked' = [asked EXCEPT ![s] = FALSE]
    /\ UNCHANGED <<dirvars, clivars, up, down, left, pos, peer, locvars, fctpvars, obsvars>>

\* ENOENT: look for another server that has the file.
NoLocalFile(s) ==
    /\ Path(s) \notin files[s] \cup {Slash}
    /\ Take(s, "read", "replicas")
    /\ UNCHANGED <<dirvars, clivars, rsp, up, down, left, pos, peer, locvars,
                   fctpvars, obsvars>>

DataOf(s) == data[s][Path(s)]

\* sendfile; from a directory it fails, which nobody notices.
SendData(s) ==
    /\ Goto(s, "senddata", "serve")
    /\ down' = IF cli[s] = "dead" \/ Path(s) = Slash THEN down
               ELSE [down EXCEPT ![s] = @ \o DataOf(s)]
    /\ UNCHANGED <<dirvars, clivars, asked, rsp, up, left, pos, peer, locvars,
                   fctpvars, obsvars>>

\* ask_file asks for the replicas of the empty path, the root: whatever file
\* it looks for, it is told the server that updated any file last, or none.
ReplicasAnswered(s) ==
    /\ DirectoryAnswers
    /\ Goto(s, "replicas", IF rootstorer = NIL THEN "reopen" ELSE "connect")
    /\ peer' = [peer EXCEPT ![s] = rootstorer]
    /\ UNCHANGED <<dirvars, clivars, netvars, pos, locvars, fctpvars, obsvars>>

\* fctp_connect,
FctpConnect(s) ==
    /\ Goto(s, "connect", "request")
    /\ pc[peer[s]] # "down"
    /\ Len(line[peer[s]]) < Backlog
    /\ line' = [line EXCEPT ![peer[s]] = Append(@, Conn(s, NoPath))]
    /\ UNCHANGED <<dirvars, clivars, netvars, pos, peer, locvars, serving, copy, obsvars>>

\* which fails when nobody listens: the message then goes to descriptor -1.
FctpUnreachable(s) ==
    /\ pc[s] = "connect"
    /\ pc[peer[s]] = "down"
    /\ Exits(s)

\* The request; a peer that ended meanwhile does not get it.
FctpRequest(s) ==
    /\ Goto(s, "request", "fetch")
    /\ line' = [line EXCEPT ![peer[s]] = [i \in 1..Len(@) |->
                    IF @[i].from = s THEN Conn(s, Path(s)) ELSE @[i]]]
    /\ UNCHANGED <<dirvars, clivars, netvars, pos, peer, locvars, serving, copy, obsvars>>

\* The file arrived.  The local copy is created without a mode: its
\* permissions are what happens to be in a register.
CopyArrives(s) ==
    /\ copy[s].kind = "FCTP_OK"
    /\ Goto(s, "fetch", "reopen")
    /\ OpenCreates(s, Path(s))
    /\ data' = [data EXCEPT ![s][Path(s)] = WriteBytes(@, 0, copy[s].data)]
    /\ \/ UNCHANGED sealed
       \/ sealed' = [sealed EXCEPT ![s] = @ \cup {Path(s)}]
    /\ HangUp(s)
    /\ UNCHANGED <<dirvars, clivars, netvars, pos, line, serving, obsvars>>

Connected(s) ==
    \/ serving[peer[s]].from = s
    \/ \E i \in 1..Len(line[peer[s]]) : line[peer[s]][i].from = s

\* An error, or the end of the stream from a peer that ended.
CopyFails(s) ==
    /\ Goto(s, "fetch", "reopen")
    /\ \/ copy[s].kind = "FCTP_ERROR"
       \/ copy[s] = NoCopy /\ ~Connected(s)
    /\ HangUp(s)
    /\ UNCHANGED <<dirvars, clivars, netvars, pos, locvars, line, serving, obsvars>>

\* The second open(); see OpenFails for a file that is still not there.
ServeCopy(s) ==
    /\ AnswerSize(s, "reopen")
    /\ UNCHANGED <<dirvars, clivars, asked, up, down, left, pos, peer, locvars,
                   fctpvars, obsvars>>

-----------------------------------------------------------------------------
(* The FCTP thread: fctp_server.                                             *)

\* accept takes the oldest connection, and fctp_server waits for its request.
\* Then the file is opened, and its size taken.
FctpOpen(t) ==
    LET c == Head(line[t]) IN
    /\ serving[t] = Idle
    /\ line[t] # <<>>
    /\ c.path \in Paths
    /\ CanOpen(t, c.path)
    /\ serving' = [serving EXCEPT ![t] = [c EXCEPT !.size = Size(t, c.path)]]
    /\ line' = [line EXCEPT ![t] = Tail(@)]
    /\ UNCHANGED <<dirvars, clivars, netvars, srvvars, locvars, copy, obsvars>>

Answered(c, m) == IF c.from = NIL THEN copy ELSE [copy EXCEPT ![c.from] = m]

\* read and send.  The main thread may have written to the file since.
Upto(bytes, n) == SubSeq(bytes, 1, IF n < Len(bytes) THEN n ELSE Len(bytes))

FctpSend(t) ==
    LET c == serving[t] IN
    /\ c # Idle
    /\ copy' = Answered(c, FctpOk(Upto(data[t][c.path], c.size)))
    /\ serving' = [serving EXCEPT ![t] = Idle]
    /\ UNCHANGED <<dirvars, clivars, netvars, srvvars, locvars, line, obsvars>>

\* The file is not there: the error goes out, and the request, which was
\* freed before, is freed again.  The allocator aborts the process,
FctpMissing(t) ==
    /\ serving[t] = Idle
    /\ line[t] # <<>>
    /\ Head(line[t]).path \in Paths
    /\ ~CanOpen(t, Head(line[t]).path)

FctpDoubleFree(t) == FctpMissing(t) /\ Exits(t)

\* or does not notice.
FctpErrorSent(t) ==
    /\ FctpMissing(t)
    /\ copy' = Answered(Head(line[t]), FctpError)
    /\ line' = [line EXCEPT ![t] = Tail(@)]
    /\ UNCHANGED <<dirvars, clivars, netvars, srvvars, locvars, serving, obsvars>>

\* The peer ended before its request: msg is NULL, and the debug output of
\* the default build reads msg->msg_type.
FctpNoRequest(t) ==
    /\ serving[t] = Idle
    /\ line[t] # <<>>
    /\ Head(line[t]) = Conn(NIL, NoPath)
    /\ Exits(t)

DirectoryDies ==
    /\ Killed("directory")
    /\ dirup
    /\ dirup' = FALSE
    /\ UNCHANGED <<storer, rootstorer, dirlocked, clivars, netvars, srvvars,
                   locvars, fctpvars, ncmds, saved, refused, ended>>

-----------------------------------------------------------------------------
ClientStep(s) ==
    \/ WriteData(s) \/ ReceiveResponse(s) \/ ReceiveSize(s) \/ ReceiveData(s)
    \/ ResponseLost(s)

User(s) ==
    \/ NewClient(s) \/ ListDir(s) \/ ClientQuit(s)
    \/ \E path \in Entered[s] :
           \/ NewFile(s, path) \/ ReadFile(s, path)
           \/ \E len \in 1..MaxText : EditFile(s, path, len)

MainStep(s) ==
    \/ ClientLeft(s) \/ ServeQuit(s) \/ AskDirectory(s)
    \/ DirectoryGone(s) \/ BrokenPipe(s)
    \/ ListAnswered(s)
    \/ CreateRefused(s) \/ CreateListed(s) \/ CreateLocal(s)
    \/ UpdateAnswered(s) \/ UpdateRefused(s) \/ OpenWrite(s) \/ ReceiveFile(s)
    \/ ServeLocalFile(s) \/ NoLocalFile(s) \/ ReplicasAnswered(s)
    \/ FctpConnect(s) \/ FctpUnreachable(s) \/ FctpRequest(s)
    \/ CopyArrives(s) \/ CopyFails(s) \/ ServeCopy(s) \/ OpenFails(s) \/ SendData(s)

FctpStep(t) ==
    FctpOpen(t) \/ FctpSend(t) \/ FctpErrorSent(t) \/ FctpDoubleFree(t) \/ FctpNoRequest(t)

Failure == DirectoryDies \/ \E s \in Servers : ClientDies(s) \/ ServerDies(s)

Next ==
    \/ \E s \in Servers :
           User(s) \/ ClientStep(s) \/ MainStep(s) \/ FctpStep(s) \/ Restart(s)
    \/ Failure

Spec == Init /\ [][Next]_vars

\* Both threads of a server run when they can, and so does a client in the
\* middle of a command.  Nobody has to enter a command, or to start a server.
Fairness ==
    \A s \in Servers :
        WF_vars(ClientStep(s)) /\ WF_vars(MainStep(s)) /\ WF_vars(FctpStep(s))

FairSpec == Spec /\ Fairness

-----------------------------------------------------------------------------
(* Properties.                                                               *)

Bytes == Seq(Texts)
Conns == [from : Servers \cup {NIL}, path : Paths \cup {Slash, NoPath}, size : Nat]
Copies == [kind : {"NONE", "FCTP_ERROR", "FCTP_OK"}, data : Bytes]
SavedTexts == [text : Texts, len : 0..MaxText]

Commands ==
    [kind : {"none", "list", "create", "write", "read", "quit"},
     path : Paths \cup {Slash}, no : 0..MaxCommands, len : 0..MaxText, seen : SavedTexts]
Responses == [kind : {"NONE", "FILEINFO", "OK", "ERROR", "DATAOUT"}, size : Nat]

DirTypes ==
    /\ storer \in [Paths -> Servers \cup {NIL}]
    /\ rootstorer \in Servers \cup {NIL}
    /\ dirlocked \in BOOLEAN
    /\ dirup \in BOOLEAN

CliTypes ==
    /\ cli \in [Servers -> Active \cup {"none", "lost", "dead"}]
    /\ cmd \in [Servers -> Commands]
    /\ out \in [Servers -> Bytes]

NetTypes ==
    /\ asked \in [Servers -> BOOLEAN]
    /\ rsp \in [Servers -> Responses]
    /\ up \in [Servers -> Bytes]
    /\ down \in [Servers -> Bytes]
    /\ left \in [Servers -> Int]

SrvTypes ==
    /\ pc \in [Servers -> AtDirectory \cup
                   {"accept", "serve", "createlocal", "writelocal", "recv", "senddata",
                    "connect", "request", "fetch", "reopen", "down"}]
    /\ pos \in [Servers -> Nat]
    /\ peer \in [Servers -> Servers \cup {NIL}]

LocTypes ==
    /\ files \in [Servers -> SUBSET Paths]
    /\ data \in [Servers -> [Paths -> Bytes]]
    /\ sealed \in [Servers -> SUBSET Paths]

FctpTypes ==
    /\ line \in [Servers -> Seq(Conns)]
    /\ serving \in [Servers -> Conns]
    /\ copy \in [Servers -> Copies]

ObsTypes ==
    /\ ncmds \in 0..MaxCommands
    /\ ndeaths \in 0..MaxDeaths
    /\ saved \in [Paths -> SavedTexts]
    /\ refused \subseteq Servers
    /\ ended \subseteq Servers

\* The type of every variable.
TypeOK ==
    /\ DirTypes /\ CliTypes /\ NetTypes /\ SrvTypes /\ LocTypes /\ FctpTypes /\ ObsTypes

\* A response goes to a client that waits for one or is about to, when the
\* server has read the command and is done with it, and it is a response to
\* that command: the session stays in step (serve_client and its handlers).
AnswersFit ==
    \A s \in Servers : rsp[s] # NoResponse =>
        /\ cli[s] \in {"writing", "waiting"}
        /\ ~asked[s]
        /\ pc[s] \in {"serve", "senddata", "accept", "down"}
        /\ cmd[s].kind \in CASE rsp[s].kind = "FILEINFO" -> {"list", "create"}
                             [] rsp[s].kind = "OK"       -> {"write", "quit"}
                             [] rsp[s].kind = "ERROR"    -> {"create", "write"}
                             [] rsp[s].kind = "DATAOUT"  -> {"read"}

\* recvfile knows the end of the data only by its count.  On a server that
\* never refused an edit the count is exact while the client lives: what is
\* left to read is what is under way, and at the prompt nothing is.
CountsExact ==
    \A s \in Servers \ refused : cli[s] # "dead" /\ pc[s] # "down" =>
        /\ cli[s] = "prompt" => up[s] = <<>> /\ down[s] = <<>>
        /\ pc[s] = "recv" =>
               left[s] = Len(up[s]) + (IF cli[s] = "writing" THEN cmd[s].len ELSE 0)
        /\ cli[s] = "receiving" /\ Path(s) # Slash =>
               left[s] = Len(down[s]) + (IF pc[s] = "senddata" THEN Len(DataOf(s)) ELSE 0)

\* When an edit is answered OK, the file of that server starts with the text,
\* unless an edit was refused before.
StartsWith(bytes, text) == Len(text) <= Len(bytes) /\ SubSeq(bytes, 1, Len(text)) = text

SavedIsStored ==
    \A s \in Servers \ refused :
        rsp[s].kind = "OK" /\ cmd[s].kind = "write" =>
            StartsWith(data[s][Path(s)], TextOf(cmd[s]))

\* A file holds bytes of edits of that file only, in copies too, as long as
\* no server refused an edit.
NoForeignBytes ==
    refused = {} =>
        \A s \in Servers, path \in Paths :
            \A i \in 1..Len(data[s][path]) : data[s][path][i].path = path

\* After a "cat" that ended the terminal shows the file of that server.
ReadIsFile ==
    \A s \in Servers :
        cli[s] = "prompt" /\ cmd[s].kind = "read" => out[s] = DataOf(s)

\* The server that the directory names for a file has it, or is just making
\* it, or ended since: the entry comes before the file.
EntryHasFile ==
    \A path \in Paths :
        LET s == storer[path] IN
        s # NIL => \/ path \in files[s]
                   \/ pc[s] \in {"createlocal", "writelocal"} /\ Path(s) = path
                   \/ s \in ended

\* recvfile on a server waits for bytes that nobody will send.
Starved(s) == pc[s] = "recv" /\ up[s] = <<>> /\ cli[s] # "writing"

\* That happens only to a server that refused an edit, or whose client died.
StarvedOnlyBy ==
    \A s \in Servers : Starved(s) => s \in refused \/ cli[s] = "dead"

\* A command ends, unless: the directory is locked for good; the server did
\* not answer because the directory is gone; bytes of a refused edit spoilt
\* the count of recvfile; the data of "cat" is missing because the server
\* ended, or because it is that of a directory.  Nothing else blocks.
Busy(s) == cli[s] \in {"writing", "waiting", "receiving"}
Unanswered(s) ==
    /\ ~dirup
    /\ cli[s] = "waiting" /\ pc[s] = "serve"
    /\ ~asked[s] /\ rsp[s] = NoResponse


\* A server whose client died accepts the next one or ends, unless it waits
\* for the directory, or in recvfile for the rest of the text.
ServerReleased ==
    \A s \in Servers :
        cli[s] = "dead" ~> \/ cli[s] # "dead"
                           \/ pc[s] \in {"accept", "down"}
                           \/ dirlocked /\ pc[s] \in AtDirectory
                           \/ Starved(s)

\* doc/desc/protocols.md, update: the directory tells "all other servers
\* storing the file" to invalidate it.  So a "cat" that no edit of the file
\* overlaps shows the text that was saved last.
ReadsLastSaved ==
    [][\A s \in Servers :
           LET path == Path(s) IN
           /\ cli[s] \in {"waiting", "receiving"} /\ cli'[s] = "prompt"
           /\ cmd[s].kind = "read"
           /\ path \in Paths
           /\ cmd[s].seen = saved[path]
           /\ \A t \in Servers : Busy(t) => cmd[t].kind # "write" \/ Path(t) # path
           => out'[s] = [i \in 1..saved[path].len |-> saved[path].text]]_vars
==============================================================================
