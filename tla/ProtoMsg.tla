------------------------------- MODULE ProtoMsg -------------------------------
(* Messages on a connection, in one direction: fsmsg_send writes one with a   *)
(* single write(), fsmsg_from_socket reads it field by field with a read()    *)
(* for each, and TCP lets the bytes arrive in any portions (src/protomsg.c).  *)
(* A field of more than one byte has two here: enough for half of it to come. *)
EXTENDS Messages, SequencesExt

VARIABLES
    protocol,       \* of the connection
    flight,         \* the message that was sent and not yet received
    stream,         \* the fields that were written and not yet read
    ready,          \* how many of their bytes have arrived
    closed,         \* the sender is gone: nothing more arrives
    \* fsmsg_from_socket
    part,           \* the part of the message it is in
    vals,           \* the fields of that part read so far
    msg,            \* the message as far as it is complete
    how,            \* whether it still knows where in the stream it is
    received        \* the last message it returned, and the one that was sent

msgvars == <<protocol, flight, stream, ready, closed, part, vals, msg, how, received>>

-----------------------------------------------------------------------------
(* fsmsg_to_buffer                                                           *)

Field(width, val) == [width |-> width, val |-> val]

\* An empty text takes no bytes.
Text(t) ==
    <<Field(2, Len(t))>> \o (IF t = <<>> THEN <<>> ELSE <<Field(Len(t), t)>>)

\* Faulty: the type of a file takes more than the byte that is read for it.
FieldsOfWide(s) ==
    <<Field(2, s.type)>> \o
    CASE s.type = "INTEGER"              -> <<Field(2, s.value)>>
      [] s.type \in {"STRING", "BINARY"} -> Text(s.text)
      [] s.type = "FILEINFO" ->
             <<Field(2, 0)>> \o Text(s.path) \o Text(s.user)
             \o <<Field(2, 0), Field(2, 0), Field(2, 0)>>

FieldsOf(s) ==
    <<Field(2, s.type)>> \o
    CASE s.type = "INTEGER"              -> <<Field(2, s.value)>>
      [] s.type \in {"STRING", "BINARY"} -> Text(s.text)
      [] s.type = "FILEINFO" ->
             <<Field(1, 0)>> \o Text(s.path) \o Text(s.user)
             \o <<Field(2, 0), Field(2, 0), Field(2, 0)>>

\* The transaction id and the ids, which are more in FAP.
Ids == [i \in 1..(IF protocol = "FAP" THEN 4 ELSE 3) |-> Field(2, 0)]

Sections(m) ==
    FlattenSeq([i \in 1..Len(m.sections) |-> FieldsOf(m.sections[i])])

\* Faulty: nothing after the last section.
ToBufferNoEnd(m) == Ids \o <<Field(2, m.type)>> \o Sections(m)

ToBuffer(m) ==
    Ids \o <<Field(2, m.type)>> \o Sections(m) \o <<Field(2, "NONEXT")>>

Bytes(fields) ==
    LET upto[i \in 0..Len(fields)] ==
            IF i = 0 THEN 0 ELSE upto[i - 1] + fields[i].width
    IN  upto[Len(fields)]

NoMessage == Msg("NONE", <<>>)
NothingReceived == [sent |-> NoMessage, got |-> NoMessage]

MsgInit ==
    /\ protocol \in {"FAP", "DCP", "FCTP"}
    /\ flight = NoMessage
    /\ stream = <<>>
    /\ ready = 0
    /\ closed = FALSE
    /\ part = "header"
    /\ vals = <<>>
    /\ msg = NoMessage
    /\ how = "aligned"
    /\ received = NothingReceived

\* fsmsg_send.  All three protocols are made of requests and responses, so
\* there is one message at a time in a direction.
Send(m) ==
    /\ ~closed
    /\ how = "aligned"
    /\ flight = NoMessage
    /\ flight' = m
    /\ stream' = stream \o ToBuffer(m)
    /\ received' = NothingReceived
    /\ UNCHANGED <<protocol, ready, closed, part, vals, msg, how>>

\* One more byte arrives.
Arrive ==
    /\ ~closed
    /\ how = "aligned"
    /\ ready < Bytes(stream)
    /\ ready' = ready + 1
    /\ UNCHANGED <<protocol, flight, stream, closed, part, vals, msg, how, received>>

\* The sender ends, and what has not arrived is lost.
Close ==
    /\ ~closed
    /\ closed' = TRUE
    /\ UNCHANGED <<protocol, flight, stream, ready, part, vals, msg, how, received>>

-----------------------------------------------------------------------------
(* fsmsg_from_socket                                                         *)

\* The reads of each part of a message.
Reads ==
    CASE part = "header"               -> [i \in 1..(Len(Ids) + 1) |-> "number"]
      [] part = "next"                 -> <<"number">>
      [] part = "INTEGER"              -> <<"number">>
      [] part \in {"STRING", "BINARY"} -> <<"number", "text">>
      [] part = "FILEINFO"             -> <<"byte", "number", "text", "number", "text",
                                            "number", "number", "number">>

\* The bytes the next read() asks for.
Wanted ==
    LET r == Reads[Len(vals) + 1] IN
    CASE r = "byte"   -> 1
      [] r = "number" -> 2
      [] r = "text"   -> vals[Len(vals)]

\* Faulty: the two names of a file info section change places.
SectionSwapped(v) ==
    CASE part = "INTEGER"  -> Integer(v[1])
      [] part = "STRING"   -> String(v[2])
      [] part = "BINARY"   -> Binary(v[2])
      [] part = "FILEINFO" -> FileInfo(v[5], v[3])

Section(v) ==
    CASE part = "INTEGER"  -> Integer(v[1])
      [] part = "STRING"   -> String(v[2])
      [] part = "BINARY"   -> Binary(v[2])
      [] part = "FILEINFO" -> FileInfo(v[3], v[5])

\* The header was read, or what the next section is, or a section.
NextPart(v) ==
    CASE part = "header" ->
             /\ part' = "next"
             /\ msg' = Msg(v[Len(v)], <<>>)
             /\ UNCHANGED <<flight, received>>
      [] part = "next" /\ v[1] # "NONEXT" ->
             /\ part' = v[1]
             /\ UNCHANGED <<msg, flight, received>>
      [] part = "next" /\ v[1] = "NONEXT" ->
             /\ part' = "header"
             /\ msg' = NoMessage
             /\ received' = [sent |-> flight, got |-> msg]
             /\ flight' = NoMessage
      [] OTHER ->
             /\ part' = "next"
             /\ msg' = [msg EXCEPT !.sections = Append(@, Section(v))]
             /\ UNCHANGED <<flight, received>>

\* One more value is known.
Advance(v) ==
    IF Len(v) < Len(Reads)
    THEN vals' = v /\ UNCHANGED <<part, msg, flight, received>>
    ELSE vals' = <<>> /\ NextPart(v)

\* A read() that returns all it was asked for.
ReadField ==
    /\ how = "aligned"
    /\ Wanted > 0
    /\ ready >= Wanted
    /\ ready' = ready - Wanted
    /\ stream' = Tail(stream)
    /\ IF Head(stream).width = Wanted
       THEN Advance(Append(vals, Head(stream).val)) /\ UNCHANGED how
       ELSE how' = "astray" /\ UNCHANGED <<part, vals, msg, flight, received>>
    /\ UNCHANGED <<protocol, closed>>

\* The data of a string or binary section of length 0 is not read.
Skipped == part \in {"STRING", "BINARY"} /\ Wanted = 0

SkipText ==
    /\ how = "aligned"
    /\ Skipped
    /\ Advance(Append(vals, <<>>))
    /\ UNCHANGED <<protocol, stream, ready, closed, how>>

\* A read() that returns less is taken for one that returned all: a part of
\* the field is left undefined, and the next read takes the rest of it for
\* the next field.  What is read from then on is not followed.
ReadShort ==
    /\ how = "aligned"
    /\ 0 < ready /\ ready < Wanted
    /\ how' = "torn"
    /\ UNCHANGED <<protocol, flight, stream, ready, closed, part, vals, msg, received>>

\* A path or user name of length 0 is read, nothing is returned, and that
\* is taken for the end: the message is given up, the rest of it stays.
ReadNothing ==
    /\ how = "aligned"
    /\ Wanted = 0
    /\ ~Skipped
    /\ how' = "gaveup"
    /\ UNCHANGED <<protocol, flight, stream, ready, closed, part, vals, msg, received>>

\* The end of the stream: no message.
ReadEnd ==
    /\ how = "aligned"
    /\ Wanted > 0
    /\ closed
    /\ ready = 0
    /\ how' = "ended"
    /\ UNCHANGED <<protocol, flight, stream, ready, closed, part, vals, msg, received>>

Read == ReadField \/ SkipText \/ ReadShort \/ ReadNothing \/ ReadEnd

MsgNext == (\E m \in Sent[protocol] : Send(m)) \/ Arrive \/ Close \/ Read

\* Bytes arrive, and the reader reads on.
MsgFairness == WF_msgvars(Arrive) /\ WF_msgvars(Read)

MsgSpec == MsgInit /\ [][MsgNext]_msgvars /\ MsgFairness

-----------------------------------------------------------------------------
(* Properties.                                                               *)

\* fsmsg_from_socket returns the message that fsmsg_send was given, never one
\* of which only a part arrived, or one made of two.
ReceivedIsSent == received.got = received.sent

\* The reader loses its place only by a short read, and by an empty name in
\* the message it reads: writer and reader agree on every field.
EmptyName(m) ==
    \E i \in 1..Len(m.sections) :
        m.sections[i].type = "FILEINFO" /\ <<>> \in {m.sections[i].path, m.sections[i].user}

LostOnlyBy ==
    /\ how # "astray"
    /\ how = "gaveup" => EmptyName(flight)

\* Whatever is sent is received in the end, if no read falls short, no name
\* is empty and the sender lives.
Delivered ==
    flight # NoMessage ~> flight = NoMessage \/ closed \/ how \in {"torn", "gaveup"}

\* The functions that check the sections accept each message that is sent,
\* and follow no null pointer.  FCTP has none, and errors of the directory
\* are not shown to it.
Accepted ==
    protocol # "FCTP" /\ received # NothingReceived
    /\ ~(protocol = "DCP" /\ received.got.type = "ERROR")
        => ValidateSections(protocol, received.got) = "VALID"
==============================================================================
