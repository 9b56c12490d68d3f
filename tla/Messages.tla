------------------------------- MODULE Messages -------------------------------
(* The messages the programs build (src/fap.c, src/dcp.c, src/fctp.c,         *)
(* src/fsservd.c, src/fsdird.c) and the two functions that check the sections *)
(* of a message (src/fap.c, src/dcp.c).  A message is its type and its        *)
(* sections; ids are left out.  A text is a sequence of characters.           *)
EXTENDS Naturals, Sequences, FiniteSetsExt

CONSTANTS
    Texts,          \* the texts that are not empty: host names, paths, contents
    MaxFiles        \* bound: how many files a listing has

ASSUME TextsAreNotEmpty == Texts \subseteq Seq(Nat) \ {<<>>}
ASSUME MaxFilesAssumption == MaxFiles \in Nat

Integer(n)  == [type |-> "INTEGER", value |-> n]
String(t)   == [type |-> "STRING", text |-> t]
Binary(t)   == [type |-> "BINARY", text |-> t]

\* The numbers of a file info section are 0 in all messages.
FileInfo(path, user) == [type |-> "FILEINFO", path |-> path, user |-> user]

Msg(type, sections) == [type |-> type, sections |-> sections]

\* enum fap_commands and enum fap_responses
CREATE == 1
READ   == 5
WRITE  == 6
LIST   == 10
OK       == 1
FILEINFO == 2
DATAOUT  == 3

\* Node names, and so the names in listings, may be empty: module DirTree.
NodeNames == Texts \cup {<<>>}
Listings  == UNION {[1..n -> {FileInfo(name, t) : name \in NodeNames, t \in Texts}] :
                        n \in 0..MaxFiles}

-----------------------------------------------------------------------------
(* What is sent.                                                             *)

FapOpen(host, user)  == Msg("HELLO", <<String(host), String(user)>>)
FapAccept(host)      == Msg("HELLO_RESPONSE", <<String(host), Integer(1)>>)
FapQuit              == Msg("QUIT", <<>>)
FapCreate(path)      == Msg("COMMAND", <<Integer(CREATE), String(path), Integer(1)>>)
FapWrite(path, data) == Msg("COMMAND", <<Integer(WRITE), String(path), Integer(Len(data))>>)
FapRead(path) ==
    Msg("COMMAND", <<Integer(READ), String(path), Integer(0), Integer(0)>>)
FapSendError(text)   == Msg("ERROR", <<Integer(2), String(text)>>)
FapSendOk            == Msg("RESPONSE", <<Integer(OK)>>)
DataOut(size)        == Msg("RESPONSE", <<Integer(DATAOUT), Integer(size)>>)
Listed(files) ==
    Msg("RESPONSE", <<Integer(FILEINFO), Integer(Len(files))>> \o files)

\* Faulty: the path before the number.
FapListPathFirst(path) == Msg("COMMAND", <<Integer(LIST), String(path), Integer(1)>>)

FapList(path) == Msg("COMMAND", <<Integer(LIST), Integer(1), String(path)>>)

FapMessages ==
    (UNION {{FapOpen(t, t), FapAccept(t), FapCreate(t), FapWrite(t, t), FapRead(t),
             FapList(t), DataOut(Len(t))} : t \in Texts})
    \cup {FapQuit, FapSendOk}
    \cup {FapSendError(t) : t \in NodeNames}
    \cup {Listed(files) : files \in Listings}

DcpOpen(host) == Msg("HELLO", <<String(host), Integer(0), Integer(0), Integer(0)>>)
DcpAccept     == Msg("HELLO_RESPONSE", <<Integer(1)>>)
DcpRead(path) == Msg("READ", <<Integer(1), String(path)>>)
DcpCreate(path, user)  == Msg("CREATE", <<FileInfo(path, user)>>)
DcpUpdate(path, user)  == Msg("UPDATE", <<FileInfo(path, user)>>)
DcpGetReplicas         == Msg("GET_REPLICAS", <<String(<<>>)>>)
DcpSendError(text)     == Msg("ERROR", <<Integer(1), String(text)>>)
DcpFileInfo(files)     == Msg("FILEINFO", <<Integer(Len(files))>> \o files)
DcpReplicaList(address) == Msg("REPLICA_STATUS", <<Integer(1), String(address)>>)

DcpMessages ==
    (UNION {{DcpOpen(t), DcpRead(t), DcpCreate(t, t), DcpUpdate(t, t),
             DcpSendError(t), DcpReplicaList(t)} : t \in Texts})
    \cup {DcpAccept, DcpGetReplicas}
    \cup {DcpFileInfo(files) : files \in Listings}

FctpGetFile(path)  == Msg("DOWNLOAD", <<String(path)>>)
FctpOk(data)       == Msg("OK", <<Binary(data)>>)
FctpSendError(text) == Msg("ERROR", <<Integer(1), String(text)>>)

\* A file may be empty.
FctpMessages ==
    (UNION {{FctpGetFile(t), FctpOk(t), FctpSendError(t)} : t \in Texts}) \cup {FctpOk(<<>>)}

Sent == [FAP |-> FapMessages, DCP |-> DcpMessages, FCTP |-> FctpMessages]

-----------------------------------------------------------------------------
(* What is accepted.                                                         *)

Times(n, type) == [i \in 1..n |-> type]

\* The integer in a section, if it is one; if not the test before has failed.
Number(m, i) ==
    IF i <= Len(m.sections) /\ m.sections[i].type = "INTEGER"
    THEN m.sections[i].value ELSE 0

\* fap_validate_sections: the sections a message of this type should have.
FapArguments(command) ==
    CASE command = CREATE -> <<"STRING", "INTEGER">>
      [] command = READ   -> <<"STRING", "INTEGER", "INTEGER">>
      [] command = WRITE  -> <<"STRING", "INTEGER">>
      [] command = LIST   -> <<"INTEGER", "STRING">>

FapResults(m) ==
    CASE Number(m, 1) = OK       -> <<>>
      [] Number(m, 1) = FILEINFO -> <<"INTEGER">> \o Times(Number(m, 2), "FILEINFO")
      [] Number(m, 1) = DATAOUT  -> <<"INTEGER">>

FapSections(m) ==
    CASE m.type = "HELLO"          -> <<"STRING", "STRING">>
      [] m.type = "HELLO_RESPONSE" -> <<"STRING", "INTEGER">>
      [] m.type = "QUIT"           -> <<>>
      [] m.type = "COMMAND"        -> <<"INTEGER">> \o FapArguments(Number(m, 1))
      [] m.type = "RESPONSE"       -> <<"INTEGER">> \o FapResults(m)
      [] m.type = "ERROR"          -> <<"INTEGER", "STRING">>

\* dcp_validate_sections.  It expects no sections in an error, which it is
\* never given: dcp_check_response comes first.
DcpSections(m) ==
    CASE m.type = "HELLO"          -> <<"STRING", "INTEGER", "INTEGER", "INTEGER">>
      [] m.type = "HELLO_RESPONSE" -> <<"INTEGER">>
      [] m.type = "CREATE"         -> <<"FILEINFO">>
      [] m.type = "READ"           -> <<"INTEGER", "STRING">>
      [] m.type = "UPDATE"         -> <<"FILEINFO">>
      [] m.type = "REPLICA_STATUS" -> <<"INTEGER">> \o Times(Number(m, 1), "STRING")
      [] m.type = "GET_REPLICAS"   -> <<"STRING">>
      [] m.type = "FILEINFO"       -> <<"INTEGER">> \o Times(Number(m, 1), "FILEINFO")
      [] m.type = "ERROR"          -> <<>>

\* The tests (TESTST) in turn, and then that no section is left.  A test
\* past the last section follows a null pointer.
Tested(m, expected) ==
    LET n   == Len(m.sections)
        bad == {i \in 1..Len(expected) : i > n \/ m.sections[i].type # expected[i]}
    IN  CASE bad = {}     -> IF n = Len(expected) THEN "VALID" ELSE "INVALID"
          [] bad # {}     -> IF Min(bad) > n THEN "CRASH" ELSE "INVALID"

ValidateSections(protocol, m) ==
    CASE protocol = "FAP" -> Tested(m, FapSections(m))
      [] protocol = "DCP" -> Tested(m, DcpSections(m))
==============================================================================
