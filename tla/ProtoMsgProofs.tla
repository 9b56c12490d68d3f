---------------------------- MODULE ProtoMsgProofs ----------------------------
(* What fsmsg_from_socket returns and where it stops, for every set of texts  *)
(* and every length of a listing: the proofs about the message codec.         *)
EXTENDS ProtoMsg, TablesProofs

-----------------------------------------------------------------------------
(* The messages that are sent.                                               *)

\* The sections of the messages.
AnyText == Seq(Nat)
AnySection ==
    {Integer(n) : n \in Nat} \cup {String(t) : t \in AnyText} \cup {Binary(t) : t \in AnyText}
    \cup {FileInfo(p, u) : p \in AnyText, u \in AnyText}

SectionTypes == {"INTEGER", "STRING", "BINARY", "FILEINFO"}
MessageTypes ==
    {"HELLO", "HELLO_RESPONSE", "QUIT", "COMMAND", "RESPONSE", "ERROR", "READ", "CREATE",
     "UPDATE", "GET_REPLICAS", "REPLICA_STATUS", "FILEINFO", "DOWNLOAD", "OK"}
AnyMessage == [type : MessageTypes, sections : Seq(AnySection)]

LEMMA SectionIs ==
    /\ \A n \in Nat : Integer(n) \in AnySection
    /\ \A t \in AnyText : String(t) \in AnySection /\ Binary(t) \in AnySection
    /\ \A p, u \in AnyText : FileInfo(p, u) \in AnySection
<1>1. \A n \in Nat : Integer(n) \in AnySection
      BY DEF AnySection
<1>2. \A t \in AnyText : String(t) \in AnySection /\ Binary(t) \in AnySection
      BY DEF AnySection
<1>3. \A p, u \in AnyText : FileInfo(p, u) \in AnySection
      BY DEF AnySection
<1> QED BY <1>1, <1>2, <1>3

LEMMA TextsAre ==
    /\ \A t \in Texts : t \in AnyText /\ Len(t) \in Nat /\ t # <<>>
    /\ \A t \in NodeNames : t \in AnyText
    /\ <<>> \in AnyText
<1>1. \A t \in Texts : t \in AnyText /\ t # <<>>
      BY TextsAreNotEmpty DEF AnyText
<1>2. \A t \in AnyText : Len(t) \in Nat
      BY DEF AnyText
<1>3. <<>> \in AnyText
      BY DEF AnyText
<1> QED BY <1>1, <1>2, <1>3 DEF NodeNames

LEMMA MessageIs ==
    ASSUME NEW type \in MessageTypes, NEW s \in Seq(AnySection)
    PROVE  Msg(type, s) \in AnyMessage
BY DEF Msg, AnyMessage

\* A listing is a sequence of file info sections.
LEMMA ListingIs ==
    ASSUME NEW files \in Listings
    PROVE  /\ files \in Seq(AnySection) /\ Len(files) \in Nat
           /\ \A i \in 1..Len(files) : files[i].type = "FILEINFO"
<1> DEFINE F == {FileInfo(name, t) : name \in NodeNames, t \in Texts}
<1>1. PICK n \in 0..MaxFiles : files \in [1..n -> F]
      BY DEF Listings
<1>2. n \in Nat
      BY MaxFilesAssumption
<1>3. \A f \in F : f \in AnySection /\ f.type = "FILEINFO"
      BY TextsAre, SectionIs DEF FileInfo
<1> HIDE DEF F
<1>4. files \in Seq(F) /\ Len(files) = n
      BY <1>1, <1>2
<1>5. files \in [1..n -> AnySection]
      BY <1>1, <1>3
<1>6. files \in Seq(AnySection)
      BY <1>2, <1>5
<1> QED BY <1>1, <1>2, <1>3, <1>4, <1>6

LEMMA Two ==
    ASSUME NEW a \in AnySection, NEW b \in AnySection, NEW files \in Seq(AnySection)
    PROVE  <<a>> \o files \in Seq(AnySection) /\ <<a, b>> \o files \in Seq(AnySection)
<1>1. <<a>> \in Seq(AnySection) /\ <<a, b>> \in Seq(AnySection)
      OBVIOUS
<1> QED BY <1>1, ConcatProperties

LEMMA Names ==
    /\ "HELLO" \in MessageTypes /\ "HELLO_RESPONSE" \in MessageTypes
    /\ "QUIT" \in MessageTypes /\ "COMMAND" \in MessageTypes /\ "RESPONSE" \in MessageTypes
    /\ "ERROR" \in MessageTypes /\ "READ" \in MessageTypes /\ "CREATE" \in MessageTypes
    /\ "UPDATE" \in MessageTypes /\ "GET_REPLICAS" \in MessageTypes
    /\ "REPLICA_STATUS" \in MessageTypes /\ "FILEINFO" \in MessageTypes
    /\ "DOWNLOAD" \in MessageTypes /\ "OK" \in MessageTypes
BY DEF MessageTypes

LEMMA Numbers ==
    /\ \A n \in Nat : Integer(n) \in AnySection
    /\ Integer(0) \in AnySection /\ Integer(1) \in AnySection /\ Integer(2) \in AnySection
    /\ Integer(CREATE) \in AnySection /\ Integer(READ) \in AnySection
    /\ Integer(WRITE) \in AnySection /\ Integer(LIST) \in AnySection
    /\ Integer(OK) \in AnySection /\ Integer(FILEINFO) \in AnySection
    /\ Integer(DATAOUT) \in AnySection
<1>1. /\ CREATE \in Nat /\ READ \in Nat /\ WRITE \in Nat /\ LIST \in Nat
      /\ OK \in Nat /\ FILEINFO \in Nat /\ DATAOUT \in Nat
      BY DEF CREATE, READ, WRITE, LIST, OK, FILEINFO, DATAOUT
<1>2. 0 \in Nat /\ 1 \in Nat /\ 2 \in Nat
      OBVIOUS
<1> QED BY <1>1, <1>2, SectionIs

LEMMA Lists ==
    /\ <<>> \in Seq(AnySection)
    /\ \A a \in AnySection : <<a>> \in Seq(AnySection)
    /\ \A a, b \in AnySection : <<a, b>> \in Seq(AnySection)
    /\ \A a, b, c \in AnySection : <<a, b, c>> \in Seq(AnySection)
    /\ \A a, b, c, d \in AnySection : <<a, b, c, d>> \in Seq(AnySection)
OBVIOUS

LEMMA FapTyped == FapMessages \subseteq AnyMessage
<1>1. ASSUME NEW t \in AnyText, Len(t) \in Nat
      PROVE  {FapOpen(t, t), FapAccept(t), FapCreate(t), FapWrite(t, t), FapRead(t),
              FapList(t), DataOut(Len(t)), FapSendError(t)} \subseteq AnyMessage
      <2>1. /\ String(t) \in AnySection /\ Integer(Len(t)) \in AnySection
            /\ Integer(0) \in AnySection /\ Integer(1) \in AnySection
            /\ Integer(2) \in AnySection
            /\ Integer(CREATE) \in AnySection /\ Integer(READ) \in AnySection
            /\ Integer(WRITE) \in AnySection /\ Integer(LIST) \in AnySection
            /\ Integer(DATAOUT) \in AnySection
            BY <1>1, Numbers, SectionIs
      <2>2. /\ FapOpen(t, t) \in AnyMessage /\ FapAccept(t) \in AnyMessage
            BY <2>1, Names, Lists, MessageIs DEF FapOpen, FapAccept
      <2>3. FapCreate(t) \in AnyMessage /\ FapWrite(t, t) \in AnyMessage
            BY <2>1, Names, Lists, MessageIs DEF FapCreate, FapWrite
      <2>4. FapRead(t) \in AnyMessage /\ FapList(t) \in AnyMessage
            BY <2>1, Names, Lists, MessageIs DEF FapRead, FapList
      <2>5. DataOut(Len(t)) \in AnyMessage /\ FapSendError(t) \in AnyMessage
            BY <2>1, Names, Lists, MessageIs DEF DataOut, FapSendError
      <2> QED BY <2>2, <2>3, <2>4, <2>5
<1>2. FapQuit \in AnyMessage /\ FapSendOk \in AnyMessage
      BY Names, Lists, MessageIs, Numbers DEF FapQuit, FapSendOk
<1>3. ASSUME NEW files \in Listings PROVE Listed(files) \in AnyMessage
      <2>1. <<Integer(FILEINFO), Integer(Len(files))>> \o files \in Seq(AnySection)
            BY Numbers, ListingIs, Two
      <2> QED BY <2>1, Names, Lists, MessageIs DEF Listed
<1>4. \A t \in NodeNames : FapSendError(t) \in AnyMessage
      BY <1>1, TextsAre DEF AnyText
<1> QED BY <1>1, <1>2, <1>3, <1>4, TextsAre DEF FapMessages

LEMMA DcpTyped == DcpMessages \subseteq AnyMessage
<1>1. ASSUME NEW t \in AnyText
      PROVE  {DcpOpen(t), DcpRead(t), DcpCreate(t, t), DcpUpdate(t, t), DcpSendError(t),
              DcpReplicaList(t)} \subseteq AnyMessage
      <2>1. /\ String(t) \in AnySection /\ FileInfo(t, t) \in AnySection
            /\ Integer(0) \in AnySection /\ Integer(1) \in AnySection
            BY Numbers, SectionIs
      <2>2. DcpOpen(t) \in AnyMessage /\ DcpRead(t) \in AnyMessage
            BY <2>1, Names, Lists, MessageIs DEF DcpOpen, DcpRead
      <2>3. DcpCreate(t, t) \in AnyMessage /\ DcpUpdate(t, t) \in AnyMessage
            BY <2>1, Names, Lists, MessageIs DEF DcpCreate, DcpUpdate
      <2>4. DcpSendError(t) \in AnyMessage /\ DcpReplicaList(t) \in AnyMessage
            BY <2>1, Names, Lists, MessageIs DEF DcpSendError, DcpReplicaList
      <2> QED BY <2>2, <2>3, <2>4
<1>2. DcpAccept \in AnyMessage /\ DcpGetReplicas \in AnyMessage
      <2>1. Integer(1) \in AnySection /\ String(<<>>) \in AnySection
            BY Numbers, TextsAre, SectionIs
      <2> QED BY <2>1, Names, Lists, MessageIs DEF DcpAccept, DcpGetReplicas
<1>3. ASSUME NEW files \in Listings PROVE DcpFileInfo(files) \in AnyMessage
      <2>1. <<Integer(Len(files))>> \o files \in Seq(AnySection)
            BY Numbers, ListingIs, Two
      <2> QED BY <2>1, Names, Lists, MessageIs DEF DcpFileInfo
<1> QED BY <1>1, <1>2, <1>3, TextsAre DEF DcpMessages

LEMMA FctpTyped == FctpMessages \subseteq AnyMessage
<1>1. ASSUME NEW t \in AnyText
      PROVE  {FctpGetFile(t), FctpOk(t), FctpSendError(t)} \subseteq AnyMessage
      <2>1. String(t) \in AnySection /\ Binary(t) \in AnySection /\ Integer(1) \in AnySection
            BY Numbers, SectionIs
      <2> QED BY <2>1, Names, Lists, MessageIs DEF FctpGetFile, FctpOk, FctpSendError
<1> QED BY <1>1, TextsAre DEF FctpMessages

LEMMA SentIs ==
    ASSUME NEW P \in {"FAP", "DCP", "FCTP"}, NEW m \in Sent[P]
    PROVE  m \in AnyMessage /\ m # NoMessage
<1>1. m \in AnyMessage
      BY FapTyped, DcpTyped, FctpTyped DEF Sent
<1>2. NoMessage.type \notin MessageTypes
      BY DEF NoMessage, Msg, MessageTypes
<1> QED BY <1>1, <1>2 DEF AnyMessage

-----------------------------------------------------------------------------
(* The functions that check the sections.                                    *)

Fits(m, expected) ==
    /\ Len(expected) = Len(m.sections)
    /\ \A i \in 1..Len(m.sections) : m.sections[i].type = expected[i]

LEMMA FitsValid ==
    ASSUME NEW m, NEW expected, Len(m.sections) \in Nat, Fits(m, expected)
    PROVE  Tested(m, expected) = "VALID"
<1> DEFINE n == Len(m.sections)
           bad == {i \in 1..Len(expected) : i > n \/ m.sections[i].type # expected[i]}
<1>1. bad = {}
      BY DEF Fits
<1>2. n = Len(expected)
      BY DEF Fits
<1> HIDE DEF bad, n
<1>3. Tested(m, expected) =
          CASE bad = {} -> IF n = Len(expected) THEN "VALID" ELSE "INVALID"
            [] bad # {} -> IF Min(bad) > n THEN "CRASH" ELSE "INVALID"
      BY DEF Tested, bad, n
<1> QED BY <1>1, <1>2, <1>3

LEMMA Parts ==
    /\ \A n : Integer(n).type = "INTEGER" /\ Integer(n).value = n
    /\ \A t : String(t).type = "STRING" /\ String(t).text = t
    /\ \A t : Binary(t).type = "BINARY" /\ Binary(t).text = t
    /\ \A p, u : /\ FileInfo(p, u).type = "FILEINFO"
                 /\ FileInfo(p, u).path = p /\ FileInfo(p, u).user = u
    /\ \A type, s : Msg(type, s).type = type /\ Msg(type, s).sections = s
BY DEF Integer, String, Binary, FileInfo, Msg

\* A listing behind one or two integers.
LEMMA ListingFits ==
    ASSUME NEW files \in Listings, NEW a, NEW b, NEW type
    PROVE  LET one == <<Integer(a)>> \o files
               two == <<Integer(a), Integer(b)>> \o files
               times == Times(Len(files), "FILEINFO")
           IN  /\ Fits(Msg(type, one), <<"INTEGER">> \o times)
               /\ Fits(Msg(type, two), <<"INTEGER">> \o (<<"INTEGER">> \o times))
               /\ 1 <= Len(one) /\ one[1] = Integer(a)
               /\ 1 <= Len(two) /\ 2 <= Len(two) /\ two[1] = Integer(a) /\ two[2] = Integer(b)
<1> DEFINE T == SectionTypes
           S == AnySection \cup {Integer(a), Integer(b)}
           n == Len(files)
           one == <<Integer(a)>> \o files
           two == <<Integer(a), Integer(b)>> \o files
           times == Times(n, "FILEINFO")
           first == <<"INTEGER">> \o times
           second == <<"INTEGER">> \o first
<1>1. /\ files \in Seq(S) /\ n \in Nat
      /\ \A i \in 1..n : files[i].type = "FILEINFO"
      BY ListingIs
<1>2. times \in Seq(T) /\ Len(times) = n /\ \A i \in 1..n : times[i] = "FILEINFO"
      BY <1>1 DEF Times, SectionTypes
<1>3. /\ <<"INTEGER">> \in Seq(T) /\ Len(<<"INTEGER">>) = 1 /\ <<"INTEGER">>[1] = "INTEGER"
      BY DEF SectionTypes
<1>4. /\ <<Integer(a)>> \in Seq(S) /\ Len(<<Integer(a)>>) = 1
      /\ <<Integer(a)>>[1] = Integer(a)
      /\ <<Integer(a), Integer(b)>> \in Seq(S) /\ Len(<<Integer(a), Integer(b)>>) = 2
      /\ <<Integer(a), Integer(b)>>[1] = Integer(a)
      /\ <<Integer(a), Integer(b)>>[2] = Integer(b)
      OBVIOUS
<1> HIDE DEF T, S, n, times
<1>5. /\ Len(one) = n + 1
      /\ \A i \in 1..(n + 1) : one[i] = IF i <= 1 THEN <<Integer(a)>>[i] ELSE files[i - 1]
      BY <1>1, <1>4, ConcatProperties DEF n
<1>6. /\ Len(two) = n + 2
      /\ \A i \in 1..(n + 2) :
             two[i] = IF i <= 2 THEN <<Integer(a), Integer(b)>>[i] ELSE files[i - 2]
      BY <1>1, <1>4, ConcatProperties DEF n
<1>7. /\ first \in Seq(T) /\ Len(first) = n + 1
      /\ \A i \in 1..(n + 1) : first[i] = IF i <= 1 THEN <<"INTEGER">>[i] ELSE times[i - 1]
      BY <1>1, <1>2, <1>3, ConcatProperties
<1> HIDE DEF first
<1>8. /\ Len(second) = n + 2
      /\ \A i \in 1..(n + 2) : second[i] = IF i <= 1 THEN <<"INTEGER">>[i] ELSE first[i - 1]
      BY <1>1, <1>3, <1>7, ConcatProperties
<1> HIDE DEF one, two, second
<1>9. ASSUME NEW i \in 1..(n + 1) PROVE one[i].type = first[i]
      <2>1. CASE i = 1
            BY <1>3, <1>4, <1>5, <1>7, <2>1, Parts
      <2>2. CASE i # 1
            <3>1. i - 1 \in 1..n /\ ~(i <= 1)
                  BY <1>1, <2>2
            <3> QED BY <1>1, <1>2, <1>5, <1>7, <3>1
      <2> QED BY <2>1, <2>2
<1>10. ASSUME NEW i \in 1..(n + 2) PROVE two[i].type = second[i]
      <2>1. CASE i = 1
            BY <1>3, <1>4, <1>6, <1>8, <2>1, Parts
      <2>2. CASE i = 2
            <3>1. two[2] = Integer(b)
                  BY <1>1, <1>4, <1>6
            <3>2. second[2] = first[1] /\ first[1] = "INTEGER"
                  <4>1. 2 \in 1..(n + 2) /\ ~(2 <= 1) /\ 2 - 1 = 1 /\ 1 \in 1..(n + 1)
                        BY <1>1
                  <4>2. second[2] = first[1]
                        BY <1>8, <4>1
                  <4>3. first[1] = "INTEGER"
                        BY <1>3, <1>7, <4>1
                  <4> QED BY <4>2, <4>3
            <3> QED BY <2>2, <3>1, <3>2, Parts
      <2>3. CASE i \notin {1, 2}
            <3>1. i - 2 \in 1..n /\ i - 1 \in 1..(n + 1) /\ ~(i <= 2) /\ ~(i - 1 <= 1)
                  /\ i - 1 - 1 = i - 2
                  BY <1>1, <2>3
            <3>2. two[i] = files[i - 2] /\ second[i] = first[i - 1]
                  BY <1>6, <1>8, <3>1
            <3>3. first[i - 1] = times[i - 2]
                  BY <1>7, <3>1
            <3> QED BY <1>1, <1>2, <3>1, <3>2, <3>3
      <2> QED BY <2>1, <2>2, <2>3
<1>11. Fits(Msg(type, one), first)
       BY <1>5, <1>7, <1>9, Parts DEF Fits
<1>12. Fits(Msg(type, two), second)
       BY <1>6, <1>8, <1>10, Parts DEF Fits
<1>13. one[1] = Integer(a) /\ two[1] = Integer(a) /\ two[2] = Integer(b)
       BY <1>1, <1>4, <1>5, <1>6
<1>14. 1 <= Len(one) /\ 1 <= Len(two) /\ 2 <= Len(two)
       BY <1>1, <1>5, <1>6
<1> QED BY <1>14, <1>11, <1>12, <1>13 DEF one, two, first, second, times, n

LEMMA OneAndListing ==
    ASSUME NEW files \in Listings, NEW a, NEW type, NEW s, s = <<Integer(a)>> \o files
    PROVE  /\ Fits(Msg(type, s), <<"INTEGER">> \o Times(Len(files), "FILEINFO"))
           /\ 1 <= Len(s) /\ s[1] = Integer(a)
BY ListingFits

LEMMA TwoAndListing ==
    ASSUME NEW files \in Listings, NEW a, NEW b, NEW type, NEW s,
           s = <<Integer(a), Integer(b)>> \o files
    PROVE  /\ Fits(Msg(type, s),
                   <<"INTEGER">> \o (<<"INTEGER">> \o Times(Len(files), "FILEINFO")))
           /\ 1 <= Len(s) /\ 2 <= Len(s) /\ s[1] = Integer(a) /\ s[2] = Integer(b)
<1>1. Fits(Msg(type, s), <<"INTEGER">> \o (<<"INTEGER">> \o Times(Len(files), "FILEINFO")))
      BY ListingFits
<1>2. 1 <= Len(s) /\ 2 <= Len(s)
      BY ListingFits
<1>3. s[1] = Integer(a) /\ s[2] = Integer(b)
      BY ListingFits
<1> QED BY <1>1, <1>2, <1>3

\* Messages of a fixed form.
LEMMA FormsFit ==
    /\ \A type : Fits(Msg(type, <<>>), <<>>)
    /\ \A type, a : Fits(Msg(type, <<a>>), <<a.type>>)
    /\ \A type, a, b : Fits(Msg(type, <<a, b>>), <<a.type, b.type>>)
    /\ \A type, a, b, c : Fits(Msg(type, <<a, b, c>>), <<a.type, b.type, c.type>>)
    /\ \A type, a, b, c, d :
           Fits(Msg(type, <<a, b, c, d>>), <<a.type, b.type, c.type, d.type>>)
<1>1. \A type : Fits(Msg(type, <<>>), <<>>)
      BY Parts DEF Fits
<1>2. \A type, a : Fits(Msg(type, <<a>>), <<a.type>>)
      BY Parts DEF Fits
<1>3. \A type, a, b : Fits(Msg(type, <<a, b>>), <<a.type, b.type>>)
      BY Parts DEF Fits
<1>4. \A type, a, b, c : Fits(Msg(type, <<a, b, c>>), <<a.type, b.type, c.type>>)
      BY Parts DEF Fits
<1>5. ASSUME NEW type, NEW a, NEW b, NEW c, NEW d
      PROVE  Fits(Msg(type, <<a, b, c, d>>), <<a.type, b.type, c.type, d.type>>)
      BY Parts DEF Fits
<1> QED BY <1>1, <1>2, <1>3, <1>4, <1>5

LEMMA NumberIs ==
    ASSUME NEW type, NEW s, NEW i, i <= Len(s), NEW n, s[i] = Integer(n)
    PROVE  Number(Msg(type, s), i) = n
BY Parts DEF Number

LEMMA Joined ==
    /\ \A a \in SectionTypes : <<a>> \o <<>> = <<a>>
    /\ \A a, b \in SectionTypes : <<a>> \o <<b>> = <<a, b>>
    /\ \A a, b, c \in SectionTypes : <<a>> \o <<b, c>> = <<a, b, c>>
    /\ \A a, b, c, d \in SectionTypes : <<a>> \o <<b, c, d>> = <<a, b, c, d>>
<1>1. ASSUME NEW a \in SectionTypes PROVE <<a>> \o <<>> = <<a>>
      OBVIOUS
<1>2. ASSUME NEW a \in SectionTypes, NEW b \in SectionTypes
      PROVE  <<a>> \o <<b>> = <<a, b>>
      <2>1. <<b>> \in Seq(SectionTypes) /\ <<a, b>> \in Seq(SectionTypes)
            OBVIOUS
      <2>2. /\ Len(<<a, b>>) = Len(<<b>>) + 1 /\ <<a, b>>[1] = a
            /\ \A i \in 1..Len(<<b>>) : <<a, b>>[i + 1] = <<b>>[i]
            OBVIOUS
      <2> QED BY <2>1, <2>2, IsCons
<1>3. ASSUME NEW a \in SectionTypes, NEW b \in SectionTypes, NEW c \in SectionTypes
      PROVE  <<a>> \o <<b, c>> = <<a, b, c>>
      <2>1. <<b, c>> \in Seq(SectionTypes) /\ <<a, b, c>> \in Seq(SectionTypes)
            OBVIOUS
      <2>2. /\ Len(<<a, b, c>>) = Len(<<b, c>>) + 1 /\ <<a, b, c>>[1] = a
            /\ \A i \in 1..Len(<<b, c>>) : <<a, b, c>>[i + 1] = <<b, c>>[i]
            OBVIOUS
      <2> QED BY <2>1, <2>2, IsCons
<1>4. ASSUME NEW a \in SectionTypes, NEW b \in SectionTypes,
             NEW c \in SectionTypes, NEW d \in SectionTypes
      PROVE  <<a>> \o <<b, c, d>> = <<a, b, c, d>>
      <2>1. <<b, c, d>> \in Seq(SectionTypes) /\ <<a, b, c, d>> \in Seq(SectionTypes)
            OBVIOUS
      <2>2. /\ Len(<<a, b, c, d>>) = Len(<<b, c, d>>) + 1 /\ <<a, b, c, d>>[1] = a
            /\ \A i \in 1..Len(<<b, c, d>>) : <<a, b, c, d>>[i + 1] = <<b, c, d>>[i]
            OBVIOUS
      <2> QED BY <2>1, <2>2, IsCons
<1> QED BY <1>1, <1>2, <1>3, <1>4

LEMMA FirstNumber ==
    /\ \A type, n : Number(Msg(type, <<Integer(n)>>), 1) = n
    /\ \A type, n, a : Number(Msg(type, <<Integer(n), a>>), 1) = n
    /\ \A type, n, a, b : Number(Msg(type, <<Integer(n), a, b>>), 1) = n
    /\ \A type, n, a, b, c : Number(Msg(type, <<Integer(n), a, b, c>>), 1) = n
<1>1. \A type, n : Number(Msg(type, <<Integer(n)>>), 1) = n
      BY NumberIs
<1>2. \A type, n, a : Number(Msg(type, <<Integer(n), a>>), 1) = n
      BY NumberIs
<1>3. \A type, n, a, b : Number(Msg(type, <<Integer(n), a, b>>), 1) = n
      BY NumberIs
<1>4. ASSUME NEW type, NEW n, NEW a, NEW b, NEW c
      PROVE  Number(Msg(type, <<Integer(n), a, b, c>>), 1) = n
      BY NumberIs
<1> QED BY <1>1, <1>2, <1>3, <1>4

LEMMA Types ==
    /\ "INTEGER" \in SectionTypes /\ "STRING" \in SectionTypes
    /\ "BINARY" \in SectionTypes /\ "FILEINFO" \in SectionTypes
BY DEF SectionTypes

LEMMA FapFits ==
    ASSUME NEW m \in FapMessages
    PROVE  Fits(m, FapSections(m))
<1>1. ASSUME NEW t, m = FapOpen(t, t) PROVE Fits(m, FapSections(m))
      <2>1. FapSections(m) = <<"STRING", "STRING">>
            BY <1>1, Parts DEF FapOpen, FapSections
      <2> QED BY <1>1, <2>1, Parts, FormsFit DEF FapOpen
<1>2. ASSUME NEW t, m = FapAccept(t) PROVE Fits(m, FapSections(m))
      <2>1. FapSections(m) = <<"STRING", "INTEGER">>
            BY <1>2, Parts DEF FapAccept, FapSections
      <2> QED BY <1>2, <2>1, Parts, FormsFit DEF FapAccept
<1>3. ASSUME m = FapQuit PROVE Fits(m, FapSections(m))
      <2>1. FapSections(m) = <<>>
            BY <1>3, Parts DEF FapQuit, FapSections
      <2> QED BY <1>3, <2>1, FormsFit DEF FapQuit
<1>4. ASSUME NEW t, m = FapSendError(t) PROVE Fits(m, FapSections(m))
      <2>1. FapSections(m) = <<"INTEGER", "STRING">>
            BY <1>4, Parts DEF FapSendError, FapSections
      <2> QED BY <1>4, <2>1, Parts, FormsFit DEF FapSendError
<1>5. m.type = "COMMAND" => FapSections(m) = <<"INTEGER">> \o FapArguments(Number(m, 1))
      BY DEF FapSections
<1>6. ASSUME NEW t, m = FapCreate(t) PROVE Fits(m, FapSections(m))
      <2>1. FapSections(m) = <<"INTEGER">> \o FapArguments(CREATE)
            <3>1. m.type = "COMMAND"
                  BY <1>6, Parts DEF FapCreate
            <3>2. Number(m, 1) = CREATE
                  BY <1>6, FirstNumber DEF FapCreate
            <3> QED BY <1>5, <3>1, <3>2
      <2>2. FapArguments(CREATE) = <<"STRING", "INTEGER">>
            BY DEF FapArguments, CREATE, READ, WRITE, LIST
      <2>3. FapSections(m) = <<"INTEGER", "STRING", "INTEGER">>
            BY <2>1, <2>2, Joined, Types
      <2> QED BY <1>6, <2>3, Parts, FormsFit DEF FapCreate
<1>7. ASSUME NEW t, m = FapWrite(t, t) PROVE Fits(m, FapSections(m))
      <2>1. FapSections(m) = <<"INTEGER">> \o FapArguments(WRITE)
            <3>1. m.type = "COMMAND"
                  BY <1>7, Parts DEF FapWrite
            <3>2. Number(m, 1) = WRITE
                  BY <1>7, FirstNumber DEF FapWrite
            <3> QED BY <1>5, <3>1, <3>2
      <2>2. FapArguments(WRITE) = <<"STRING", "INTEGER">>
            BY DEF FapArguments, CREATE, READ, WRITE, LIST
      <2>3. FapSections(m) = <<"INTEGER", "STRING", "INTEGER">>
            BY <2>1, <2>2, Joined, Types
      <2> QED BY <1>7, <2>3, Parts, FormsFit DEF FapWrite
<1>8. ASSUME NEW t, m = FapRead(t) PROVE Fits(m, FapSections(m))
      <2>1. FapSections(m) = <<"INTEGER">> \o FapArguments(READ)
            <3>1. m.type = "COMMAND"
                  BY <1>8, Parts DEF FapRead
            <3>2. Number(m, 1) = READ
                  BY <1>8, FirstNumber DEF FapRead
            <3> QED BY <1>5, <3>1, <3>2
      <2>2. FapArguments(READ) = <<"STRING", "INTEGER", "INTEGER">>
            BY DEF FapArguments, CREATE, READ, WRITE, LIST
      <2>3. FapSections(m) = <<"INTEGER", "STRING", "INTEGER", "INTEGER">>
            BY <2>1, <2>2, Joined, Types
      <2> QED BY <1>8, <2>3, Parts, FormsFit DEF FapRead
<1>9. ASSUME NEW t, m = FapList(t) PROVE Fits(m, FapSections(m))
      <2>1. FapSections(m) = <<"INTEGER">> \o FapArguments(LIST)
            <3>1. m.type = "COMMAND"
                  BY <1>9, Parts DEF FapList
            <3>2. Number(m, 1) = LIST
                  BY <1>9, FirstNumber DEF FapList
            <3> QED BY <1>5, <3>1, <3>2
      <2>2. FapArguments(LIST) = <<"INTEGER", "STRING">>
            BY DEF FapArguments, CREATE, READ, WRITE, LIST
      <2>3. FapSections(m) = <<"INTEGER", "INTEGER", "STRING">>
            BY <2>1, <2>2, Joined, Types
      <2> QED BY <1>9, <2>3, Parts, FormsFit DEF FapList
<1>10. m.type = "RESPONSE" => FapSections(m) = <<"INTEGER">> \o FapResults(m)
       BY DEF FapSections
<1>11. ASSUME m = FapSendOk PROVE Fits(m, FapSections(m))
       <2>1. Number(m, 1) = OK /\ FapSections(m) = <<"INTEGER">> \o FapResults(m)
             BY <1>10, <1>11, FirstNumber, Parts DEF FapSendOk
       <2>2. FapResults(m) = <<>>
             BY <2>1 DEF FapResults, OK, FILEINFO, DATAOUT
       <2>3. FapSections(m) = <<"INTEGER">>
             BY <2>1, <2>2, Joined, Types
       <2> QED BY <1>11, <2>3, Parts, FormsFit DEF FapSendOk
<1>12. ASSUME NEW n, m = DataOut(n) PROVE Fits(m, FapSections(m))
       <2>1. Number(m, 1) = DATAOUT /\ FapSections(m) = <<"INTEGER">> \o FapResults(m)
             BY <1>10, <1>12, FirstNumber, Parts DEF DataOut
       <2>2. FapResults(m) = <<"INTEGER">>
             BY <2>1 DEF FapResults, OK, FILEINFO, DATAOUT
       <2>3. FapSections(m) = <<"INTEGER", "INTEGER">>
             BY <2>1, <2>2, Joined, Types
       <2> QED BY <1>12, <2>3, Parts, FormsFit DEF DataOut
<1>13. ASSUME NEW files \in Listings, m = Listed(files) PROVE Fits(m, FapSections(m))
       <2> DEFINE s == <<Integer(FILEINFO), Integer(Len(files))>> \o files
       <2>1. /\ m = Msg("RESPONSE", s)
             /\ 1 <= Len(s) /\ 2 <= Len(s)
             /\ s[1] = Integer(FILEINFO) /\ s[2] = Integer(Len(files))
             /\ Fits(Msg("RESPONSE", s),
                     <<"INTEGER">> \o (<<"INTEGER">> \o Times(Len(files), "FILEINFO")))
             <3>1. s = <<Integer(FILEINFO), Integer(Len(files))>> \o files
                   OBVIOUS
             <3>2. m = Msg("RESPONSE", s)
                   BY <1>13 DEF Listed
             <3> HIDE DEF s
             <3>3. Fits(Msg("RESPONSE", s),
                        <<"INTEGER">> \o (<<"INTEGER">> \o Times(Len(files), "FILEINFO")))
                   BY <3>1, TwoAndListing
             <3>4. 1 <= Len(s) /\ 2 <= Len(s)
                   BY <3>1, TwoAndListing
             <3>5. s[1] = Integer(FILEINFO) /\ s[2] = Integer(Len(files))
                   BY <3>1, TwoAndListing
             <3> QED BY <3>2, <3>3, <3>4, <3>5
       <2> HIDE DEF s
       <2>2. Number(m, 1) = FILEINFO /\ FapSections(m) = <<"INTEGER">> \o FapResults(m)
             BY <1>10, <2>1, NumberIs, Parts
       <2>3. Number(m, 2) = Len(files)
             BY <2>1, NumberIs
       <2>4. FapResults(m) = <<"INTEGER">> \o Times(Len(files), "FILEINFO")
             BY <2>2, <2>3 DEF FapResults, OK, FILEINFO, DATAOUT
       <2> QED BY <2>1, <2>2, <2>4
<1>14. \/ \E t \in Texts : m \in {FapOpen(t, t), FapAccept(t), FapCreate(t), FapWrite(t, t),
                                  FapRead(t), FapList(t), DataOut(Len(t))}
       \/ m \in {FapQuit, FapSendOk}
       \/ \E t \in NodeNames : m = FapSendError(t)
       \/ \E files \in Listings : m = Listed(files)
       BY DEF FapMessages
<1> QED BY <1>1, <1>2, <1>3, <1>4, <1>6, <1>7, <1>8, <1>9, <1>11, <1>12, <1>13, <1>14

\* An error of the directory is not checked.
LEMMA DcpFits ==
    ASSUME NEW m \in DcpMessages, m.type # "ERROR"
    PROVE  Fits(m, DcpSections(m))
<1>1. ASSUME NEW t, m = DcpOpen(t) PROVE Fits(m, DcpSections(m))
      <2>1. DcpSections(m) = <<"STRING", "INTEGER", "INTEGER", "INTEGER">>
            BY <1>1, Parts DEF DcpOpen, DcpSections
      <2> QED BY <1>1, <2>1, Parts, FormsFit DEF DcpOpen
<1>2. ASSUME NEW t, m = DcpRead(t) PROVE Fits(m, DcpSections(m))
      <2>1. DcpSections(m) = <<"INTEGER", "STRING">>
            BY <1>2, Parts DEF DcpRead, DcpSections
      <2> QED BY <1>2, <2>1, Parts, FormsFit DEF DcpRead
<1>3. ASSUME NEW t, m = DcpCreate(t, t) PROVE Fits(m, DcpSections(m))
      <2>1. DcpSections(m) = <<"FILEINFO">>
            BY <1>3, Parts DEF DcpCreate, DcpSections
      <2> QED BY <1>3, <2>1, Parts, FormsFit DEF DcpCreate
<1>4. ASSUME NEW t, m = DcpUpdate(t, t) PROVE Fits(m, DcpSections(m))
      <2>1. DcpSections(m) = <<"FILEINFO">>
            BY <1>4, Parts DEF DcpUpdate, DcpSections
      <2> QED BY <1>4, <2>1, Parts, FormsFit DEF DcpUpdate
<1>5. ASSUME m = DcpAccept PROVE Fits(m, DcpSections(m))
      <2>1. DcpSections(m) = <<"INTEGER">>
            BY <1>5, Parts DEF DcpAccept, DcpSections
      <2> QED BY <1>5, <2>1, Parts, FormsFit DEF DcpAccept
<1>6. ASSUME m = DcpGetReplicas PROVE Fits(m, DcpSections(m))
      <2>1. DcpSections(m) = <<"STRING">>
            BY <1>6, Parts DEF DcpGetReplicas, DcpSections
      <2> QED BY <1>6, <2>1, Parts, FormsFit DEF DcpGetReplicas
<1>7. ASSUME NEW t, m = DcpReplicaList(t) PROVE Fits(m, DcpSections(m))
      <2>1. m.type = "REPLICA_STATUS" /\ Number(m, 1) = 1
            BY <1>7, FirstNumber, Parts DEF DcpReplicaList
      <2>2. DcpSections(m) = <<"INTEGER">> \o Times(1, "STRING")
            BY <2>1 DEF DcpSections
      <2>3. Times(1, "STRING") = <<"STRING">>
            BY DEF Times
      <2>4. DcpSections(m) = <<"INTEGER", "STRING">>
            BY <2>2, <2>3, Joined, Types
      <2> QED BY <1>7, <2>4, Parts, FormsFit DEF DcpReplicaList
<1>8. ASSUME NEW files \in Listings, m = DcpFileInfo(files) PROVE Fits(m, DcpSections(m))
      <2> DEFINE s == <<Integer(Len(files))>> \o files
      <2>1. m = Msg("FILEINFO", s)
            BY <1>8 DEF DcpFileInfo
      <2>2. s = <<Integer(Len(files))>> \o files
            OBVIOUS
      <2> HIDE DEF s
      <2>3. Fits(Msg("FILEINFO", s), <<"INTEGER">> \o Times(Len(files), "FILEINFO"))
            BY <2>2, OneAndListing
      <2>4. 1 <= Len(s) /\ s[1] = Integer(Len(files))
            BY <2>2, OneAndListing
      <2>5. Number(m, 1) = Len(files)
            BY <2>1, <2>4, NumberIs
      <2>6. DcpSections(m) = <<"INTEGER">> \o Times(Len(files), "FILEINFO")
            BY <2>1, <2>5, Parts DEF DcpSections
      <2> QED BY <2>1, <2>3, <2>6
<1>9. \A t : DcpSendError(t).type = "ERROR"
      BY Parts DEF DcpSendError
<1>10. \/ \E t \in Texts : m \in {DcpOpen(t), DcpRead(t), DcpCreate(t, t), DcpUpdate(t, t),
                                  DcpSendError(t), DcpReplicaList(t)}
       \/ m \in {DcpAccept, DcpGetReplicas}
       \/ \E files \in Listings : m = DcpFileInfo(files)
       BY DEF DcpMessages
<1> QED BY <1>1, <1>2, <1>3, <1>4, <1>5, <1>6, <1>7, <1>8, <1>9, <1>10

LEMMA SentIsValid ==
    ASSUME NEW P \in {"FAP", "DCP"}, NEW m \in Sent[P], ~(P = "DCP" /\ m.type = "ERROR")
    PROVE  ValidateSections(P, m) = "VALID"
<1>1. m.sections \in Seq(AnySection)
      BY SentIs DEF AnyMessage
<1>2. Len(m.sections) \in Nat
      BY <1>1, LenProperties
<1>3. CASE P = "FAP"
      <2>1. Fits(m, FapSections(m))
            BY <1>3, FapFits DEF Sent
      <2>2. Tested(m, FapSections(m)) = "VALID"
            BY <1>2, <2>1, FitsValid
      <2> QED BY <1>3, <2>2 DEF ValidateSections
<1>4. CASE P = "DCP"
      <2>1. Fits(m, DcpSections(m))
            BY <1>4, DcpFits DEF Sent
      <2>2. Tested(m, DcpSections(m)) = "VALID"
            BY <1>2, <2>1, FitsValid
      <2> QED BY <1>4, <2>2 DEF ValidateSections
<1> QED BY <1>3, <1>4

-----------------------------------------------------------------------------
(* The bytes of a sequence of fields.                                        *)

AnyValue == Nat \cup MessageTypes \cup SectionTypes \cup {"NONEXT"} \cup AnyText
AnyField == {Field(w, v) : w \in Nat, v \in AnyValue}

LEMMA FieldIs ==
    /\ \A w, v : Field(w, v).width = w /\ Field(w, v).val = v
    /\ \A w \in Nat, v \in AnyValue : Field(w, v) \in AnyField
    /\ \A f \in AnyField : f.width \in Nat /\ f.val \in AnyValue
BY DEF Field, AnyField

Summing(fields, f) ==
    f = [i \in 0..Len(fields) |-> IF i = 0 THEN 0 ELSE f[i - 1] + fields[i].width]

LEMMA SummingExists ==
    ASSUME NEW fields \in Seq(AnyField)
    PROVE  \E f : Summing(fields, f)
<1> DEFINE n == Len(fields)
           step == [x \in Nat \X Nat |->
                       IF x[2] \in 1..n THEN x[1] + fields[x[2]].width ELSE x[1]]
           back == [i \in Nat |-> IF i = 0 THEN 0 ELSE i - 1]
<1>1. n \in Nat /\ \A i \in 1..n : fields[i].width \in Nat
      BY LenProperties, ElementOfSeq, FieldIs
<1>2. step \in [Nat \X Nat -> Nat]
      <2> HIDE DEF n
      <2> SUFFICES ASSUME NEW x \in Nat \X Nat
                   PROVE  (IF x[2] \in 1..n THEN x[1] + fields[x[2]].width ELSE x[1]) \in Nat
          OBVIOUS
      <2>1. x[1] \in Nat
            OBVIOUS
      <2> QED BY <1>1, <2>1
<1>3. back \in [Nat -> Nat] /\ \A i \in 1..n : back[i] = i - 1
      BY <1>1
<1>4. PICK f \in [0..n -> Nat] :
          \A i \in 0..n : f[i] = IF i = 0 THEN 0 ELSE step[<<f[back[i]], i>>]
      <2> DEFINE m == 0
                 S == Nat
                 a == 0
      <2>1. m \in Nat /\ n \in Nat /\ a \in S /\ step \in [S \X Nat -> S]
            BY <1>1, <1>2
      <2> HIDE DEF n, step, back, S, a
      <2>2. Earlier(back, m, n)
            <3> SUFFICES ASSUME NEW i \in (m + 1)..n PROVE back[i] \in m..(i - 1)
                BY DEF Earlier
            <3>1. i \in 1..n /\ i - 1 \in 0..(i - 1)
                  BY <1>1
            <3>2. back[i] = i - 1
                  BY <1>3, <3>1
            <3> QED BY <3>1, <3>2
      <2> HIDE DEF m
      <2>3. \E f \in [m..n -> S] : Recursive(f, m, n, a, step, back)
            BY <1>3, <2>1, <2>2, Recursion
      <2> QED BY <2>3 DEF m, S, a, Recursive
<1>5. ASSUME NEW i \in 0..n
      PROVE  f[i] = IF i = 0 THEN 0 ELSE f[i - 1] + fields[i].width
      <2>1. CASE i = 0
            BY <1>4, <2>1
      <2>2. CASE i # 0
            <3>1. i \in 1..n /\ back[i] = i - 1 /\ i - 1 \in 0..n
                  BY <1>1, <1>3, <2>2
            <3>2. f[i - 1] \in Nat
                  BY <3>1
            <3>3. step[<<f[i - 1], i>>] = f[i - 1] + fields[i].width
                  <4>1. <<f[i - 1], i>> \in Nat \X Nat
                        BY <3>1, <3>2, <1>1
                  <4>2. \A x \in Nat \X Nat :
                            x[2] \in 1..n => step[x] = x[1] + fields[x[2]].width
                        OBVIOUS
                  <4> HIDE DEF step
                  <4> QED BY <3>1, <4>1, <4>2
            <3> HIDE DEF step, back
            <3> QED BY <1>4, <2>2, <3>1, <3>3
      <2> QED BY <2>1, <2>2
<1>6. f = [i \in 0..n |-> IF i = 0 THEN 0 ELSE f[i - 1] + fields[i].width]
      BY <1>5
<1> QED BY <1>6 DEF Summing

LEMMA SummingTyped ==
    ASSUME NEW fields \in Seq(AnyField), NEW f, Summing(fields, f)
    PROVE  \A i \in 0..Len(fields) : f[i] \in Nat
<1> DEFINE n == Len(fields)
           T == {i \in 0..n : f[i] \in Nat}
<1>0. n \in Nat /\ \A i \in 1..n : fields[i].width \in Nat
      BY LenProperties, ElementOfSeq, FieldIs
<1>1. ASSUME NEW k \in 0..n, 0..(k - 1) \subseteq T PROVE k \in T
      <2>1. f[k] = IF k = 0 THEN 0 ELSE f[k - 1] + fields[k].width
            BY DEF Summing
      <2>2. k # 0 => k - 1 \in 0..(k - 1) /\ k \in 1..n
            BY <1>0
      <2>3. k # 0 => f[k - 1] \in Nat /\ fields[k].width \in Nat
            BY <1>0, <1>1, <2>2
      <2>4. f[k] \in Nat
            BY <2>1, <2>3
      <2> QED BY <2>4
<1>2. 0..n \subseteq T
      <2> HIDE DEF T, n
      <2> QED BY <1>0, <1>1, Ascent
<1> QED BY <1>2

LEMMA BytesIs ==
    ASSUME NEW fields \in Seq(AnyField)
    PROVE  \E f : Summing(fields, f) /\ Bytes(fields) = f[Len(fields)]
<1> DEFINE f == CHOOSE f : Summing(fields, f)
<1>1. Summing(fields, f)
      BY SummingExists
<1>2. Bytes(fields) = f[Len(fields)]
      BY DEF Bytes, Summing
<1> QED BY <1>1, <1>2

LEMMA BytesTyped ==
    ASSUME NEW fields \in Seq(AnyField)
    PROVE  Bytes(fields) \in Nat
<1>1. PICK f : Summing(fields, f) /\ Bytes(fields) = f[Len(fields)]
      BY BytesIs
<1>2. Len(fields) \in 0..Len(fields)
      BY LenProperties
<1> QED BY <1>1, <1>2, SummingTyped

LEMMA NoBytes == Bytes(<<>>) = 0
<1>1. <<>> \in Seq(AnyField) /\ Len(<<>>) = 0
      OBVIOUS
<1>2. PICK f : Summing(<<>>, f) /\ Bytes(<<>>) = f[0]
      BY <1>1, BytesIs
<1>3. f[0] = 0
      BY <1>1, <1>2 DEF Summing
<1> QED BY <1>2, <1>3

\* The bytes of the first field and those of the rest.
LEMMA BytesCons ==
    ASSUME NEW a \in AnyField, NEW s \in Seq(AnyField)
    PROVE  Bytes(<<a>> \o s) = a.width + Bytes(s)
<1> DEFINE n == Len(s)
           t == <<a>> \o s
           w == a.width
<1>1. /\ n \in Nat /\ w \in Nat
      /\ t \in Seq(AnyField) /\ Len(t) = n + 1
      /\ \A i \in 1..(n + 1) : t[i] = IF i <= 1 THEN <<a>>[i] ELSE s[i - 1]
      BY Singleton, ConcatProperties, LenProperties, FieldIs
<1>2. t[1] = a /\ \A i \in 1..n : t[i + 1] = s[i]
      <2> HIDE DEF t, n
      <2>1. t[1] = <<a>>[1]
            BY <1>1
      <2>2. ASSUME NEW i \in 1..n PROVE t[i + 1] = s[i]
            <3>1. i + 1 \in 1..(n + 1) /\ ~(i + 1 <= 1) /\ i + 1 - 1 = i
                  BY <1>1
            <3> QED BY <1>1, <3>1
      <2> QED BY <2>1, <2>2
<1> HIDE DEF t
<1>3. PICK f : Summing(s, f) /\ Bytes(s) = f[n]
      BY BytesIs
<1>4. PICK g : Summing(t, g) /\ Bytes(t) = g[n + 1]
      BY <1>1, BytesIs
<1>5. \A i \in 0..n : f[i] \in Nat
      BY <1>3, SummingTyped
<1> DEFINE T == {i \in 0..n : g[i + 1] = w + f[i]}
<1>6. \A i \in 0..(n + 1) : g[i] = IF i = 0 THEN 0 ELSE g[i - 1] + t[i].width
      BY <1>1, <1>4 DEF Summing
<1>7. \A i \in 0..n : f[i] = IF i = 0 THEN 0 ELSE f[i - 1] + s[i].width
      BY <1>3 DEF Summing
<1>8. ASSUME NEW k \in 0..n, 0..(k - 1) \subseteq T PROVE k \in T
      <2>1. g[k + 1] = g[k] + t[k + 1].width
            <3>1. k + 1 \in 0..(n + 1) /\ k + 1 # 0 /\ k + 1 - 1 = k
                  BY <1>1
            <3> DEFINE j == k + 1
            <3>2. j \in 0..(n + 1) /\ j # 0
                  BY <3>1
            <3> HIDE DEF j
            <3>3. g[j] = g[j - 1] + t[j].width
                  BY <1>6, <3>2
            <3> QED BY <3>1, <3>3 DEF j
      <2>2. CASE k = 0
            <3>1. g[0] = 0 /\ f[0] = 0
                  BY <1>1, <1>6, <1>7
            <3>2. g[k + 1] = w + f[k]
                  BY <1>1, <1>2, <2>1, <2>2, <3>1
            <3> QED BY <3>2
      <2>3. CASE k # 0
            <3>1. k - 1 \in 0..(k - 1) /\ k \in 1..n /\ k - 1 + 1 = k /\ k - 1 \in 0..n
                  BY <1>1, <2>3
            <3>2. g[k] = w + f[k - 1]
                  <4>1. k - 1 \in T
                        BY <1>8, <3>1
                  <4> QED BY <3>1, <4>1
            <3>3. t[k + 1].width = s[k].width /\ s[k].width \in Nat
                  BY <1>2, <3>1, ElementOfSeq, FieldIs
            <3>4. f[k] = f[k - 1] + s[k].width
                  BY <1>7, <2>3
            <3>5. \A x, y, z \in Nat : (x + y) + z = x + (y + z)
                  OBVIOUS
            <3>6. f[k - 1] \in Nat
                  BY <1>5, <3>1
            <3>7. g[k + 1] = w + f[k]
                  BY <1>1, <2>1, <3>2, <3>3, <3>4, <3>5, <3>6
            <3> QED BY <3>7
      <2> QED BY <2>2, <2>3
<1>9. n \in T
      <2>1. 0..n \subseteq T
            <3> HIDE DEF T, n
            <3> QED BY <1>1, <1>8, Ascent
      <2> HIDE DEF T
      <2> QED BY <1>1, <2>1
<1> QED BY <1>3, <1>4, <1>9 DEF t

-----------------------------------------------------------------------------
(* The fields of a section and of a message.                                 *)

\* The fields that are read of a section after its type, the empty ones
\* included, and those of them that are still to be read after the first k.
Plan(s) ==
    CASE s.type = "INTEGER"              -> <<Field(2, s.value)>>
      [] s.type \in {"STRING", "BINARY"} -> <<Field(2, Len(s.text)), Field(Len(s.text), s.text)>>
      [] s.type = "FILEINFO" ->
             <<Field(1, 0), Field(2, Len(s.path)), Field(Len(s.path), s.path),
               Field(2, Len(s.user)), Field(Len(s.user), s.user),
               Field(2, 0), Field(2, 0), Field(2, 0)>>

Data(t) == IF t = <<>> THEN <<>> ELSE <<Field(Len(t), t)>>
ThreeZeros == <<Field(2, 0), Field(2, 0), Field(2, 0)>>

AfterPath(s) == Text(s.user) \o ThreeZeros
AfterByte(s) == Text(s.path) \o AfterPath(s)

After(s, k) ==
    CASE s.type = "INTEGER"              -> (IF k = 0 THEN Plan(s) ELSE <<>>)
      [] s.type \in {"STRING", "BINARY"} ->
             (IF k = 0 THEN Text(s.text) ELSE IF k = 1 THEN Data(s.text) ELSE <<>>)
      [] s.type = "FILEINFO" ->
             (CASE k = 0 -> <<Field(1, 0)>> \o AfterByte(s)
                [] k = 1 -> AfterByte(s)
                [] k = 2 -> Data(s.path) \o AfterPath(s)
                [] k = 3 -> AfterPath(s)
                [] k = 4 -> Data(s.user) \o ThreeZeros
                [] k = 5 -> ThreeZeros
                [] k = 6 -> <<Field(2, 0), Field(2, 0)>>
                [] k = 7 -> <<Field(2, 0)>>
                [] k = 8 -> <<>>)

Values(s, k) == [j \in 1..k |-> Plan(s)[j].val]

\* What follows the first i sections.
SectionsFrom(m, i) ==
    FlattenSeq([j \in 1..(Len(m.sections) - i) |-> FieldsOf(m.sections[i + j])])
Left(m, i) == SectionsFrom(m, i) \o <<Field(2, "NONEXT")>>

LEMMA AnySectionIs ==
    ASSUME NEW s \in AnySection
    PROVE  /\ s.type \in SectionTypes
           /\ s.type = "INTEGER" => s = Integer(s.value) /\ s.value \in Nat
           /\ s.type = "STRING" => s = String(s.text) /\ s.text \in AnyText
           /\ s.type = "BINARY" => s = Binary(s.text) /\ s.text \in AnyText
           /\ s.type = "FILEINFO" => /\ s = FileInfo(s.path, s.user)
                                     /\ s.path \in AnyText /\ s.user \in AnyText
<1>1. \/ \E n \in Nat : s = Integer(n)
      \/ \E t \in AnyText : s = String(t)
      \/ \E t \in AnyText : s = Binary(t)
      \/ \E p, u \in AnyText : s = FileInfo(p, u)
      BY DEF AnySection
<1> QED BY <1>1, Parts, Types

LEMMA ValueIs ==
    /\ \A n \in Nat : n \in AnyValue
    /\ \A t \in AnyText : t \in AnyValue /\ Len(t) \in Nat /\ Len(t) \in AnyValue
    /\ \A type \in SectionTypes : type \in AnyValue
    /\ \A type \in MessageTypes : type \in AnyValue
    /\ "NONEXT" \in AnyValue
    /\ 0 \in Nat /\ 1 \in Nat /\ 2 \in Nat /\ 0 \in AnyValue
<1>1. \A t \in AnyText : Len(t) \in Nat
      BY DEF AnyText
<1> QED BY <1>1 DEF AnyValue

LEMMA FieldLists ==
    /\ <<>> \in Seq(AnyField)
    /\ \A a \in AnyField : <<a>> \in Seq(AnyField)
    /\ \A a, b \in AnyField : <<a, b>> \in Seq(AnyField)
    /\ \A a, b, c \in AnyField : <<a, b, c>> \in Seq(AnyField)
OBVIOUS

LEMMA TextTyped ==
    ASSUME NEW t \in AnyText
    PROVE  /\ Data(t) \in Seq(AnyField) /\ Text(t) \in Seq(AnyField)
           /\ Text(t) = <<Field(2, Len(t))>> \o Data(t)
<1>1. Data(t) \in Seq(AnyField)
      BY FieldLists, FieldIs, ValueIs DEF Data
<1>2. Text(t) = <<Field(2, Len(t))>> \o Data(t)
      BY DEF Text, Data
<1>3. <<Field(2, Len(t))>> \in Seq(AnyField)
      BY FieldLists, FieldIs, ValueIs
<1> QED BY <1>1, <1>2, <1>3, ConcatProperties

LEMMA Associative ==
    ASSUME NEW s \in Seq(AnyField), NEW t \in Seq(AnyField), NEW u \in Seq(AnyField)
    PROVE  (s \o t) \o u = s \o (t \o u)
BY ConcatAssociative

LEMMA AfterNumber ==
    ASSUME NEW n \in Nat
    PROVE  LET s == Integer(n) IN
           /\ Plan(s) = <<Field(2, n)>>
           /\ After(s, 0) = <<Field(2, n)>> \o After(s, 1) /\ After(s, 1) = <<>>
           /\ FieldsOf(s) = <<Field(2, s.type)>> \o After(s, 0)
<1> DEFINE s == Integer(n)
<1>1. s.type = "INTEGER" /\ s.value = n
      BY Parts
<1>2. <<Field(2, n)>> \in Seq(AnyField)
      BY FieldIs, FieldLists, ValueIs
<1> HIDE DEF s
<1>3. Plan(s) = <<Field(2, n)>>
      BY <1>1 DEF Plan
<1>4. After(s, 0) = <<Field(2, n)>> /\ After(s, 1) = <<>>
      BY <1>1, <1>3 DEF After
<1>5. FieldsOf(s) = <<Field(2, s.type)>> \o After(s, 0)
      BY <1>1, <1>4 DEF FieldsOf
<1>6. <<Field(2, n)>> \o <<>> = <<Field(2, n)>>
      BY <1>2, ConcatEmptySeq
<1> QED BY <1>3, <1>4, <1>5, <1>6 DEF s

LEMMA AfterText ==
    ASSUME NEW t \in AnyText, NEW s, s \in {String(t), Binary(t)}
    PROVE  /\ Plan(s) = <<Field(2, Len(t)), Field(Len(t), t)>>
           /\ After(s, 0) = <<Field(2, Len(t))>> \o After(s, 1)
           /\ After(s, 1) = Data(t) /\ After(s, 2) = <<>>
           /\ FieldsOf(s) = <<Field(2, s.type)>> \o After(s, 0)
<1>1. s.type \in {"STRING", "BINARY"} /\ s.text = t
      BY Parts
<1>2. Plan(s) = <<Field(2, Len(t)), Field(Len(t), t)>>
      BY <1>1 DEF Plan
<1>3. After(s, 0) = Text(t) /\ After(s, 1) = Data(t) /\ After(s, 2) = <<>>
      BY <1>1 DEF After
<1>4. FieldsOf(s) = <<Field(2, s.type)>> \o Text(t)
      BY <1>1 DEF FieldsOf
<1> QED BY <1>2, <1>3, <1>4, TextTyped

LEMMA ZerosAre ==
    LET z == Field(2, 0) IN
    /\ z \in AnyField
    /\ ThreeZeros = <<z>> \o <<z, z>> /\ <<z, z>> = <<z>> \o <<z>> /\ <<z>> = <<z>> \o <<>>
    /\ ThreeZeros \in Seq(AnyField) /\ <<z, z>> \in Seq(AnyField) /\ <<z>> \in Seq(AnyField)
<1> DEFINE z == Field(2, 0)
<1>1. z \in AnyField
      BY FieldIs, ValueIs
<1> HIDE DEF z
<1>2. /\ <<z>> \in Seq(AnyField) /\ <<z, z>> \in Seq(AnyField)
      /\ <<z, z, z>> \in Seq(AnyField)
      BY <1>1, FieldLists
<1>3. <<z>> \o <<z, z>> = <<z, z, z>>
      <2>1. /\ Len(<<z, z, z>>) = Len(<<z, z>>) + 1 /\ <<z, z, z>>[1] = z
            /\ \A i \in 1..Len(<<z, z>>) : <<z, z, z>>[i + 1] = <<z, z>>[i]
            OBVIOUS
      <2> QED BY <1>1, <1>2, <2>1, IsCons
<1>4. <<z>> \o <<z>> = <<z, z>>
      <2>1. /\ Len(<<z, z>>) = Len(<<z>>) + 1 /\ <<z, z>>[1] = z
            /\ \A i \in 1..Len(<<z>>) : <<z, z>>[i + 1] = <<z>>[i]
            OBVIOUS
      <2> QED BY <1>1, <1>2, <2>1, IsCons
<1>5. <<z>> \o <<>> = <<z>>
      BY <1>2, ConcatEmptySeq
<1>6. ThreeZeros = <<z, z, z>>
      BY DEF ThreeZeros, z
<1> QED BY <1>1, <1>2, <1>3, <1>4, <1>5, <1>6 DEF z

LEMMA AfterFile ==
    ASSUME NEW s \in AnySection, s.type = "FILEINFO"
    PROVE  /\ Plan(s) = <<Field(1, 0), Field(2, Len(s.path)), Field(Len(s.path), s.path),
                          Field(2, Len(s.user)), Field(Len(s.user), s.user),
                          Field(2, 0), Field(2, 0), Field(2, 0)>>
           /\ After(s, 0) = <<Field(1, 0)>> \o After(s, 1)
           /\ After(s, 1) = <<Field(2, Len(s.path))>> \o After(s, 2)
           /\ s.path # <<>> => After(s, 2) = <<Field(Len(s.path), s.path)>> \o After(s, 3)
           /\ After(s, 3) = <<Field(2, Len(s.user))>> \o After(s, 4)
           /\ s.user # <<>> => After(s, 4) = <<Field(Len(s.user), s.user)>> \o After(s, 5)
           /\ After(s, 5) = <<Field(2, 0)>> \o After(s, 6)
           /\ After(s, 6) = <<Field(2, 0)>> \o After(s, 7)
           /\ After(s, 7) = <<Field(2, 0)>> \o After(s, 8)
           /\ After(s, 8) = <<>>
           /\ FieldsOf(s) = <<Field(2, s.type)>> \o After(s, 0)
           /\ After(s, 2) \in Seq(AnyField) /\ After(s, 4) \in Seq(AnyField)
<1> DEFINE p == s.path
           u == s.user
<1>1. s.type = "FILEINFO" /\ s.path = p /\ s.user = u
      OBVIOUS
<1>0. p \in AnyText /\ u \in AnyText
      BY AnySectionIs
<1> HIDE DEF p, u
<1> DEFINE z == Field(2, 0)
           b == Field(1, 0)
           P == AfterPath(s)
           B == AfterByte(s)
<1>2. /\ Plan(s) = <<b, Field(2, Len(p)), Field(Len(p), p), Field(2, Len(u)),
                     Field(Len(u), u), z, z, z>>
      BY <1>1 DEF Plan
<1>3. /\ P = Text(u) \o ThreeZeros /\ B = Text(p) \o P
      BY <1>1 DEF AfterPath, AfterByte
<1>4. /\ After(s, 0) = <<b>> \o B /\ After(s, 1) = B
      /\ After(s, 2) = Data(p) \o P /\ After(s, 3) = P
      BY <1>1 DEF After
<1>5. /\ After(s, 4) = Data(u) \o ThreeZeros /\ After(s, 5) = ThreeZeros
      /\ After(s, 6) = <<z, z>> /\ After(s, 7) = <<z>> /\ After(s, 8) = <<>>
      BY <1>1 DEF After
<1>6. FieldsOf(s) = <<Field(2, s.type)>> \o (<<b>> \o Text(p) \o Text(u) \o <<z, z, z>>)
      BY <1>1 DEF FieldsOf
<1> HIDE DEF z, b, P, B
<1>7. /\ Text(p) \in Seq(AnyField) /\ Text(u) \in Seq(AnyField)
      /\ Data(p) \in Seq(AnyField) /\ Data(u) \in Seq(AnyField)
      /\ Text(p) = <<Field(2, Len(p))>> \o Data(p)
      /\ Text(u) = <<Field(2, Len(u))>> \o Data(u)
      /\ ThreeZeros \in Seq(AnyField)
      /\ <<b>> \in Seq(AnyField)
      /\ <<Field(2, Len(p))>> \in Seq(AnyField) /\ <<Field(2, Len(u))>> \in Seq(AnyField)
      BY <1>0, TextTyped, ZerosAre, FieldIs, ValueIs, FieldLists DEF b
<1>8. P \in Seq(AnyField) /\ B \in Seq(AnyField)
      BY <1>3, <1>7, ConcatProperties
<1>9. /\ B = <<Field(2, Len(p))>> \o (Data(p) \o P)
      /\ P = <<Field(2, Len(u))>> \o (Data(u) \o ThreeZeros)
      <2> DEFINE h == <<Field(2, Len(p))>>
                 k == <<Field(2, Len(u))>>
      <2>1. /\ h \in Seq(AnyField) /\ k \in Seq(AnyField)
            /\ B = (h \o Data(p)) \o P /\ P = (k \o Data(u)) \o ThreeZeros
            BY <1>3, <1>7
      <2> DEFINE d == Data(p)
                 e == Data(u)
                 z3 == ThreeZeros
      <2>4. /\ d \in Seq(AnyField) /\ e \in Seq(AnyField) /\ z3 \in Seq(AnyField)
            /\ h \in Seq(AnyField) /\ k \in Seq(AnyField)
            BY <1>7
      <2> HIDE DEF h, k, d, e, z3
      <2>2. (h \o d) \o P = h \o (d \o P)
            <3>1. P \in Seq(AnyField)
                  BY <1>8
            <3> QED BY <2>4, <3>1, Associative
      <2>3. (k \o e) \o z3 = k \o (e \o z3)
            BY <2>4, Associative
      <2> QED BY <2>1, <2>2, <2>3 DEF h, k, d, e, z3
<1>10. <<b>> \o Text(p) \o Text(u) \o <<z, z, z>> = <<b>> \o B
       <2>1. <<z, z, z>> = ThreeZeros
             BY DEF ThreeZeros, z
       <2>2. <<b>> \o Text(p) \in Seq(AnyField)
             BY <1>7, ConcatProperties
       <2>3. (<<b>> \o Text(p)) \o Text(u) \o ThreeZeros = (<<b>> \o Text(p)) \o P
             <3> DEFINE q == <<b>> \o Text(p)
             <3>1. q \in Seq(AnyField)
                   BY <2>2
             <3> HIDE DEF q
             <3>2. (q \o Text(u)) \o ThreeZeros = q \o (Text(u) \o ThreeZeros)
                   BY <1>7, <3>1, Associative
             <3> QED BY <1>3, <3>2 DEF q
       <2>4. (<<b>> \o Text(p)) \o P = <<b>> \o B
             <3> DEFINE q == <<b>>
                        t == Text(p)
             <3>1. q \in Seq(AnyField) /\ t \in Seq(AnyField)
                   BY <1>7
             <3>2. B = t \o P
                   BY <1>3
             <3> HIDE DEF q, t
             <3>3. (q \o t) \o P = q \o (t \o P)
                   BY <1>8, <3>1, Associative
             <3> QED BY <3>2, <3>3 DEF q, t
       <2> QED BY <2>1, <2>3, <2>4
<1>11. /\ p # <<>> => Data(p) = <<Field(Len(p), p)>>
       /\ u # <<>> => Data(u) = <<Field(Len(u), u)>>
       BY DEF Data
<1>12. /\ ThreeZeros = <<z>> \o <<z, z>> /\ <<z, z>> = <<z>> \o <<z>>
       /\ <<z>> = <<z>> \o <<>>
       BY ZerosAre DEF z
<1>13. Data(p) \o P \in Seq(AnyField) /\ Data(u) \o ThreeZeros \in Seq(AnyField)
       BY <1>7, <1>8, ConcatProperties
<1>14. /\ After(s, 0) = <<b>> \o After(s, 1)
       /\ After(s, 1) = <<Field(2, Len(p))>> \o After(s, 2)
       /\ After(s, 3) = <<Field(2, Len(u))>> \o After(s, 4)
       BY <1>4, <1>5, <1>9
<1>15. /\ p # <<>> => After(s, 2) = <<Field(Len(p), p)>> \o After(s, 3)
       /\ u # <<>> => After(s, 4) = <<Field(Len(u), u)>> \o After(s, 5)
       BY <1>4, <1>5, <1>11
<1>16. /\ After(s, 5) = <<z>> \o After(s, 6) /\ After(s, 6) = <<z>> \o After(s, 7)
       /\ After(s, 7) = <<z>> \o After(s, 8) /\ After(s, 8) = <<>>
       BY <1>5, <1>12
<1>17. FieldsOf(s) = <<Field(2, s.type)>> \o After(s, 0)
       BY <1>4, <1>6, <1>10
<1>18. After(s, 2) \in Seq(AnyField) /\ After(s, 4) \in Seq(AnyField)
       BY <1>4, <1>5, <1>13
<1> QED BY <1>2, <1>14, <1>15, <1>16, <1>17, <1>18 DEF z, b, p, u

\* The next field of a section, and what an empty one is.
SkippedText(s, k) == s.type \in {"STRING", "BINARY"} /\ k = 1 /\ s.text = <<>>
EmptyFile(s) == s.type = "FILEINFO" /\ <<>> \in {s.path, s.user}

LEMMA AfterStep ==
    ASSUME NEW s \in AnySection, NEW k \in 0..(Len(Plan(s)) - 1)
    PROVE  /\ Plan(s)[k + 1] \in AnyField
           /\ Plan(s)[k + 1].width > 0 => After(s, k) = <<Plan(s)[k + 1]>> \o After(s, k + 1)
           /\ Plan(s)[k + 1].width = 0 =>
                  \/ /\ SkippedText(s, k) /\ Plan(s)[k + 1].val = <<>>
                     /\ After(s, k) = After(s, k + 1)
                  \/ EmptyFile(s)
<1> DEFINE f == Plan(s)[k + 1]
           Goal == /\ f \in AnyField
                   /\ f.width > 0 => After(s, k) = <<f>> \o After(s, k + 1)
                   /\ f.width = 0 =>
                          \/ SkippedText(s, k) /\ f.val = <<>> /\ After(s, k) = After(s, k + 1)
                          \/ EmptyFile(s)
<1> SUFFICES Goal
    OBVIOUS
<1>1. ASSUME f \in AnyField, After(s, k) = <<f>> \o After(s, k + 1), f.width # 0
      PROVE  Goal
      BY <1>1
<1>2. CASE s.type = "INTEGER"
      <2>1. /\ Plan(s) = <<Field(2, s.value)>> /\ s.value \in Nat
            /\ After(s, 0) = <<Field(2, s.value)>> \o After(s, 1)
            BY <1>2, AnySectionIs, AfterNumber
      <2>2. k = 0 /\ f = Field(2, s.value)
            BY <2>1
      <2>3. f \in AnyField /\ f.width # 0
            BY <2>1, <2>2, FieldIs, ValueIs
      <2> QED BY <1>1, <2>1, <2>2, <2>3
<1>3. CASE s.type \in {"STRING", "BINARY"}
      <2> DEFINE t == s.text
      <2>1. t \in AnyText /\ s \in {String(t), Binary(t)}
            BY <1>3, AnySectionIs
      <2> HIDE DEF t
      <2>2. /\ Plan(s) = <<Field(2, Len(t)), Field(Len(t), t)>>
            /\ After(s, 0) = <<Field(2, Len(t))>> \o After(s, 1)
            /\ After(s, 1) = Data(t) /\ After(s, 2) = <<>>
            BY <2>1, AfterText
      <2>3. CASE k = 0
            <3>1. f = Field(2, Len(t))
                  BY <2>2, <2>3
            <3>2. f \in AnyField /\ f.width # 0
                  BY <2>1, <3>1, FieldIs, ValueIs
            <3> QED BY <1>1, <2>2, <2>3, <3>1, <3>2
      <2>4. CASE k = 1
            <3>1. f = Field(Len(t), t) /\ k + 1 = 2
                  BY <2>2, <2>4
            <3>2. f \in AnyField /\ f.width = Len(t) /\ f.val = t /\ <<f>> \in Seq(AnyField)
                  BY <2>1, <3>1, FieldIs, ValueIs, FieldLists
            <3> HIDE DEF f
            <3>3. CASE t = <<>>
                  <4>1. After(s, 1) = <<>> /\ f.width = 0 /\ SkippedText(s, k)
                        BY <1>3, <2>2, <2>4, <3>2, <3>3 DEF Data, SkippedText, t
                  <4> QED BY <2>2, <2>4, <3>1, <3>2, <3>3, <4>1
            <3>4. CASE t # <<>>
                  <4>1. After(s, 1) = <<f>>
                        BY <2>2, <3>1, <3>4 DEF Data
                  <4>2. <<f>> \o <<>> = <<f>>
                        BY <3>2, ConcatEmptySeq
                  <4>3. f.width # 0
                        BY <2>1, <3>2, <3>4, EmptySeq DEF AnyText
                  <4> QED BY <1>1, <2>2, <2>4, <3>1, <3>2, <4>1, <4>2, <4>3
            <3> QED BY <3>3, <3>4
      <2>5. k \in {0, 1}
            BY <2>2
      <2> QED BY <2>3, <2>4, <2>5
<1>4. CASE s.type = "FILEINFO"
      <2> DEFINE p == s.path
                 u == s.user
      <2>1. p \in AnyText /\ u \in AnyText
            BY <1>4, AnySectionIs
      <2>2. /\ <<>> \in {p, u} => EmptyFile(s)
            /\ Len(p) \in Nat /\ Len(u) \in Nat
            /\ Len(p) = 0 => p = <<>>
            /\ Len(u) = 0 => u = <<>>
            BY <1>4, <2>1, EmptySeq DEF EmptyFile, AnyText
      <2> HIDE DEF p, u
      <2>3. /\ Field(2, 0) \in AnyField /\ Field(1, 0) \in AnyField
            /\ Field(2, Len(p)) \in AnyField /\ Field(Len(p), p) \in AnyField
            /\ Field(2, Len(u)) \in AnyField /\ Field(Len(u), u) \in AnyField
            BY <2>1, FieldIs, ValueIs
      <2>15. /\ Field(2, 0).width = 2 /\ Field(1, 0).width = 1
             /\ Field(2, Len(p)).width = 2 /\ Field(Len(p), p).width = Len(p)
             /\ Field(2, Len(u)).width = 2 /\ Field(Len(u), u).width = Len(u)
             BY FieldIs
      <2>4. Plan(s) = <<Field(1, 0), Field(2, Len(p)), Field(Len(p), p), Field(2, Len(u)),
                        Field(Len(u), u), Field(2, 0), Field(2, 0), Field(2, 0)>>
            BY <1>4, AfterFile DEF p, u
      <2>14. /\ After(s, 0) = <<Field(1, 0)>> \o After(s, 1)
             /\ After(s, 1) = <<Field(2, Len(p))>> \o After(s, 2)
             /\ p # <<>> => After(s, 2) = <<Field(Len(p), p)>> \o After(s, 3)
             /\ After(s, 3) = <<Field(2, Len(u))>> \o After(s, 4)
             /\ u # <<>> => After(s, 4) = <<Field(Len(u), u)>> \o After(s, 5)
             /\ After(s, 5) = <<Field(2, 0)>> \o After(s, 6)
             /\ After(s, 6) = <<Field(2, 0)>> \o After(s, 7)
             /\ After(s, 7) = <<Field(2, 0)>> \o After(s, 8)
             BY <1>4, AfterFile DEF p, u
      <2>5. k \in {0, 1, 2, 3, 4, 5, 6, 7}
            BY <2>4
      <2>6. CASE k = 0
            <3>1. k + 1 = 1 /\ f = Plan(s)[1]
                  BY <2>6
            <3>2. f = Field(1, 0)
                  BY <2>4, <3>1
            <3> HIDE DEF f
            <3>3. After(s, k) = <<f>> \o After(s, k + 1)
                  BY <2>6, <2>14, <3>1, <3>2
            <3> QED BY <1>1, <2>3, <2>15, <3>2, <3>3
      <2>7. CASE k = 1
            <3>1. k + 1 = 2 /\ f = Plan(s)[2]
                  BY <2>7
            <3>2. f = Field(2, Len(p))
                  BY <2>4, <3>1
            <3> HIDE DEF f
            <3>3. After(s, k) = <<f>> \o After(s, k + 1)
                  BY <2>7, <2>14, <3>1, <3>2
            <3> QED BY <1>1, <2>3, <2>15, <3>2, <3>3
      <2>8. CASE k = 2
            <3>1. k + 1 = 3 /\ f = Plan(s)[3]
                  BY <2>8
            <3>2. f = Field(Len(p), p)
                  BY <2>4, <3>1
            <3> HIDE DEF f
            <3>3. CASE p = <<>>
                  <4>1. EmptyFile(s) /\ f.width = 0 /\ f \in AnyField
                        BY <2>2, <2>3, <2>15, <3>2, <3>3, EmptySeq
                  <4> QED BY <4>1
            <3>4. CASE p # <<>>
                  <4>1. After(s, k) = <<f>> \o After(s, k + 1)
                        BY <2>8, <2>14, <3>1, <3>2, <3>4
                  <4> QED BY <1>1, <2>2, <2>3, <2>15, <3>2, <3>4, <4>1
            <3> QED BY <3>3, <3>4
      <2>9. CASE k = 3
            <3>1. k + 1 = 4 /\ f = Plan(s)[4]
                  BY <2>9
            <3>2. f = Field(2, Len(u))
                  BY <2>4, <3>1
            <3> HIDE DEF f
            <3>3. After(s, k) = <<f>> \o After(s, k + 1)
                  BY <2>9, <2>14, <3>1, <3>2
            <3> QED BY <1>1, <2>3, <2>15, <3>2, <3>3
      <2>10. CASE k = 4
             <3>1. k + 1 = 5 /\ f = Plan(s)[5]
                   BY <2>10
             <3>2. f = Field(Len(u), u)
                   BY <2>4, <3>1
             <3> HIDE DEF f
             <3>3. CASE u = <<>>
                   <4>1. EmptyFile(s) /\ f.width = 0 /\ f \in AnyField
                         BY <2>2, <2>3, <2>15, <3>2, <3>3, EmptySeq
                   <4> QED BY <4>1
             <3>4. CASE u # <<>>
                   <4>1. After(s, k) = <<f>> \o After(s, k + 1)
                         BY <2>10, <2>14, <3>1, <3>2, <3>4
                   <4> QED BY <1>1, <2>2, <2>3, <2>15, <3>2, <3>4, <4>1
             <3> QED BY <3>3, <3>4
      <2>11. CASE k = 5
             <3>1. k + 1 = 6 /\ f = Plan(s)[6]
                   BY <2>11
             <3>2. f = Field(2, 0)
                   BY <2>4, <3>1
             <3> HIDE DEF f
             <3>3. After(s, k) = <<f>> \o After(s, k + 1)
                   BY <2>11, <2>14, <3>1, <3>2
             <3> QED BY <1>1, <2>3, <2>15, <3>2, <3>3
      <2>12. CASE k = 6
             <3>1. k + 1 = 7 /\ f = Plan(s)[7]
                   BY <2>12
             <3>2. f = Field(2, 0)
                   BY <2>4, <3>1
             <3> HIDE DEF f
             <3>3. After(s, k) = <<f>> \o After(s, k + 1)
                   BY <2>12, <2>14, <3>1, <3>2
             <3> QED BY <1>1, <2>3, <2>15, <3>2, <3>3
      <2>13. CASE k = 7
             <3>1. k + 1 = 8 /\ f = Plan(s)[8]
                   BY <2>13
             <3>2. f = Field(2, 0)
                   BY <2>4, <3>1
             <3> HIDE DEF f
             <3>3. After(s, k) = <<f>> \o After(s, k + 1)
                   BY <2>13, <2>14, <3>1, <3>2
             <3> QED BY <1>1, <2>3, <2>15, <3>2, <3>3
      <2> QED BY <2>5, <2>6, <2>7, <2>8, <2>9, <2>10, <2>11, <2>12, <2>13
<1> QED BY <1>2, <1>3, <1>4, AnySectionIs DEF SectionTypes

LEMMA SectionFields ==
    ASSUME NEW s \in AnySection
    PROVE  LET n == Len(Plan(s)) IN
           /\ n \in Nat \ {0}
           /\ After(s, n) = <<>>
           /\ \A k \in 0..n : After(s, k) \in Seq(AnyField)
           /\ FieldsOf(s) = <<Field(2, s.type)>> \o After(s, 0)
<1> DEFINE n == Len(Plan(s))
           Goal == /\ n \in Nat \ {0}
                   /\ After(s, n) = <<>>
                   /\ \A k \in 0..n : After(s, k) \in Seq(AnyField)
                   /\ FieldsOf(s) = <<Field(2, s.type)>> \o After(s, 0)
<1> SUFFICES Goal
    OBVIOUS
<1>0. /\ \A f \in AnyField, t \in Seq(AnyField) : <<f>> \o t \in Seq(AnyField)
      /\ <<>> \in Seq(AnyField)
      BY FieldLists, ConcatProperties
<1>1. CASE s.type = "INTEGER"
      <2>1. s.value \in Nat /\ s = Integer(s.value)
            BY <1>1, AnySectionIs
      <2> DEFINE v == s.value
      <2>2. /\ Plan(s) = <<Field(2, v)>> /\ Field(2, v) \in AnyField
            /\ After(s, 0) = <<Field(2, v)>> \o After(s, 1) /\ After(s, 1) = <<>>
            /\ FieldsOf(s) = <<Field(2, s.type)>> \o After(s, 0)
            BY <2>1, AfterNumber, FieldIs, ValueIs
      <2>3. n = 1
            BY <2>2
      <2>4. \A k \in 0..n : After(s, k) \in Seq(AnyField)
            <3> SUFFICES ASSUME NEW k \in 0..n PROVE After(s, k) \in Seq(AnyField)
                OBVIOUS
            <3>1. k = 0 \/ k = 1
                  BY <2>3
            <3> QED BY <1>0, <2>2, <3>1
      <2> QED BY <2>2, <2>3, <2>4
<1>2. CASE s.type \in {"STRING", "BINARY"}
      <2> DEFINE t == s.text
      <2>1. t \in AnyText /\ s \in {String(t), Binary(t)}
            BY <1>2, AnySectionIs
      <2> HIDE DEF t
      <2>2. /\ Plan(s) = <<Field(2, Len(t)), Field(Len(t), t)>>
            /\ After(s, 0) = <<Field(2, Len(t))>> \o After(s, 1)
            /\ After(s, 1) = Data(t) /\ After(s, 2) = <<>>
            /\ FieldsOf(s) = <<Field(2, s.type)>> \o After(s, 0)
            BY <2>1, AfterText
      <2>3. n = 2
            BY <2>2
      <2>4. Data(t) \in Seq(AnyField) /\ Field(2, Len(t)) \in AnyField
            BY <2>1, TextTyped, FieldIs, ValueIs
      <2>5. \A k \in 0..n : After(s, k) \in Seq(AnyField)
            <3> SUFFICES ASSUME NEW k \in 0..n PROVE After(s, k) \in Seq(AnyField)
                OBVIOUS
            <3>1. k = 0 \/ k = 1 \/ k = 2
                  BY <2>3
            <3> QED BY <1>0, <2>2, <2>4, <3>1
      <2> QED BY <2>2, <2>3, <2>5
<1>3. CASE s.type = "FILEINFO"
      <2> DEFINE p == s.path
                 u == s.user
      <2>1. p \in AnyText /\ u \in AnyText
            BY <1>3, AnySectionIs
      <2> HIDE DEF p, u
      <2>2. /\ Field(2, 0) \in AnyField /\ Field(1, 0) \in AnyField
            /\ Field(2, Len(p)) \in AnyField /\ Field(2, Len(u)) \in AnyField
            BY <2>1, FieldIs, ValueIs
      <2>3. Plan(s) = <<Field(1, 0), Field(2, Len(p)), Field(Len(p), p), Field(2, Len(u)),
                        Field(Len(u), u), Field(2, 0), Field(2, 0), Field(2, 0)>>
            BY <1>3, AfterFile DEF p, u
      <2>4. n = 8
            BY <2>3
      <2>5. /\ After(s, 0) = <<Field(1, 0)>> \o After(s, 1)
            /\ After(s, 1) = <<Field(2, Len(p))>> \o After(s, 2)
            /\ After(s, 3) = <<Field(2, Len(u))>> \o After(s, 4)
            /\ After(s, 5) = <<Field(2, 0)>> \o After(s, 6)
            /\ After(s, 6) = <<Field(2, 0)>> \o After(s, 7)
            /\ After(s, 7) = <<Field(2, 0)>> \o After(s, 8)
            /\ After(s, 8) = <<>>
            BY <1>3, AfterFile DEF p, u
      <2>6. /\ FieldsOf(s) = <<Field(2, s.type)>> \o After(s, 0)
            /\ After(s, 2) \in Seq(AnyField) /\ After(s, 4) \in Seq(AnyField)
            BY <1>3, AfterFile
      <2>7. After(s, 1) \in Seq(AnyField) /\ After(s, 0) \in Seq(AnyField)
            BY <1>0, <2>2, <2>5, <2>6
      <2>8. After(s, 3) \in Seq(AnyField) /\ After(s, 8) \in Seq(AnyField)
            BY <1>0, <2>2, <2>5, <2>6
      <2>9. After(s, 7) \in Seq(AnyField)
            BY <1>0, <2>2, <2>5, <2>8
      <2>10. After(s, 6) \in Seq(AnyField)
             BY <1>0, <2>2, <2>5, <2>9
      <2>11. After(s, 5) \in Seq(AnyField)
             BY <1>0, <2>2, <2>5, <2>10
      <2>12. \A k \in 0..n : After(s, k) \in Seq(AnyField)
             <3> SUFFICES ASSUME NEW k \in 0..n PROVE After(s, k) \in Seq(AnyField)
                 OBVIOUS
             <3>1. k \in {0, 1, 2, 3, 4, 5, 6, 7, 8}
                   BY <2>4
             <3> QED BY <2>6, <2>7, <2>8, <2>9, <2>10, <2>11, <3>1
      <2>13. After(s, n) = <<>> /\ n \in Nat \ {0}
             BY <2>4, <2>5
      <2> QED BY <2>6, <2>12, <2>13
<1> QED BY <1>1, <1>2, <1>3, AnySectionIs DEF SectionTypes

LEMMA FieldsTyped ==
    ASSUME NEW s \in AnySection
    PROVE  /\ FieldsOf(s) \in Seq(AnyField)
           /\ FieldsOf(s) = <<Field(2, s.type)>> \o After(s, 0)
           /\ <<Field(2, s.type)>> \in Seq(AnyField)
           /\ After(s, 0) \in Seq(AnyField)
<1>1. Len(Plan(s)) \in Nat /\ FieldsOf(s) = <<Field(2, s.type)>> \o After(s, 0)
      BY SectionFields
<1>2. 0 \in 0..Len(Plan(s))
      BY <1>1
<1>3. After(s, 0) \in Seq(AnyField)
      BY <1>2, SectionFields
<1>4. <<Field(2, s.type)>> \in Seq(AnyField)
      BY AnySectionIs, FieldIs, ValueIs, FieldLists
<1> QED BY <1>1, <1>3, <1>4, ConcatProperties

\* The values of the fields.
LEMMA ValuesGrow ==
    ASSUME NEW s \in AnySection, NEW k \in 0..(Len(Plan(s)) - 1)
    PROVE  /\ Len(Values(s, k)) = k
           /\ Append(Values(s, k), Plan(s)[k + 1].val) = Values(s, k + 1)
           /\ Len(Values(s, k + 1)) = k + 1
           /\ k \in Nat /\ k + 1 \in 1..Len(Plan(s))
<1> DEFINE n == Len(Plan(s))
           v(j) == Plan(s)[j].val
<1>1. n \in Nat \ {0}
      BY SectionFields
<1> HIDE DEF n
<1>2. k \in Nat /\ k + 1 \in 1..n /\ \A i \in 1..n : i - 1 \in 0..(n - 1) /\ i - 1 + 1 = i
      BY <1>1 DEF n
<1>3. \A i \in 1..n : v(i) \in AnyValue
      <2> SUFFICES ASSUME NEW i \in 1..n PROVE v(i) \in AnyValue
          OBVIOUS
      <2> DEFINE j == i - 1
      <2>1. j \in 0..(Len(Plan(s)) - 1) /\ j + 1 = i
            BY <1>2 DEF n
      <2> HIDE DEF j
      <2>2. Plan(s)[j + 1] \in AnyField
            BY <2>1, AfterStep
      <2> QED BY <2>1, <2>2, FieldIs
<1> DEFINE a == [j \in 1..k |-> v(j)]
           b == [j \in 1..(k + 1) |-> v(j)]
<1>4. /\ a \in Seq(AnyValue) /\ Len(a) = k
      /\ b \in Seq(AnyValue) /\ Len(b) = k + 1
      <2>1. ASSUME NEW i \in 1..k PROVE v(i) \in AnyValue
            <3>1. i \in 1..n
                  BY <1>1, <1>2
            <3> QED BY <1>3, <3>1
      <2>2. ASSUME NEW i \in 1..(k + 1) PROVE v(i) \in AnyValue
            <3>1. i \in 1..n
                  BY <1>1, <1>2
            <3> QED BY <1>3, <3>1
      <2>5. a \in [1..k -> AnyValue] /\ b \in [1..(k + 1) -> AnyValue]
            <3>1. a \in [1..k -> AnyValue]
                  BY <2>1
            <3>2. b \in [1..(k + 1) -> AnyValue]
                  BY <2>2
            <3> QED BY <3>1, <3>2
      <2>6. k \in Nat /\ k + 1 \in Nat
            BY <1>2
      <2> HIDE DEF a, b
      <2>3. a \in Seq(AnyValue) /\ Len(a) = k
            BY <2>5, <2>6
      <2>4. b \in Seq(AnyValue) /\ Len(b) = k + 1
            BY <2>5, <2>6
      <2> QED BY <2>3, <2>4
<1>5. /\ b[Len(a) + 1] = v(k + 1) /\ v(k + 1) \in AnyValue
      /\ \A i \in 1..Len(a) : b[i] = a[i]
      BY <1>2, <1>3, <1>4
<1>6. Values(s, k) = a /\ Values(s, k + 1) = b
      BY DEF Values
<1> HIDE DEF a, b, v
<1>7. b = Append(a, v(k + 1))
      BY <1>4, <1>5, IsAppend
<1> QED BY <1>2, <1>4, <1>6, <1>7 DEF v, n

LEMMA NoValues ==
    ASSUME NEW s
    PROVE  Values(s, 0) = <<>>
BY DEF Values

-----------------------------------------------------------------------------
(* What is left of a message.                                                *)

LEMMA SectionsLeft ==
    ASSUME NEW m, m.sections \in Seq(AnySection), NEW i \in 1..Len(m.sections)
    PROVE  /\ SectionsFrom(m, i - 1) = FieldsOf(m.sections[i]) \o SectionsFrom(m, i)
           /\ SectionsFrom(m, i) \in Seq(AnyField)
<1> DEFINE n == Len(m.sections)
           F == Seq(AnyField)
           s == m.sections
           f(j) == FieldsOf(s[j])
           long == [j \in 1..(n - (i - 1)) |-> f(i - 1 + j)]
           short == [j \in 1..(n - i) |-> f(i + j)]
<1>1. n \in Nat /\ i \in 1..n /\ \A j \in 1..n : s[j] \in AnySection
      BY LenProperties, ElementOfSeq
<1> HIDE DEF n
<1>2. ASSUME NEW j \in 1..n PROVE f(j) \in F
      <2>1. s[j] \in AnySection
            BY <1>1
      <2> QED BY <2>1, FieldsTyped
<1> HIDE DEF f, F, s
<1>3. n - i \in Nat /\ n - (i - 1) \in Nat /\ n - (i - 1) = n - i + 1
      BY <1>1
<1>4. short \in Seq(F) /\ Len(short) = n - i
      <2>1. short \in [1..(n - i) -> F]
            <3> SUFFICES ASSUME NEW j \in 1..(n - i) PROVE f(i + j) \in F
                OBVIOUS
            <3>1. i + j \in 1..n
                  BY <1>1
            <3> QED BY <1>2, <3>1
      <2> HIDE DEF short
      <2> QED BY <1>3, <2>1
<1>5. long \in Seq(F) /\ Len(long) = n - (i - 1)
      <2>1. long \in [1..(n - (i - 1)) -> F]
            <3> SUFFICES ASSUME NEW j \in 1..(n - (i - 1)) PROVE f(i - 1 + j) \in F
                OBVIOUS
            <3>1. i - 1 + j \in 1..n
                  BY <1>1
            <3> QED BY <1>2, <3>1
      <2> HIDE DEF long
      <2> QED BY <1>3, <2>1
<1>6. long[1] = f(i) /\ f(i) \in F
      BY <1>1, <1>2, <1>3
<1>7. \A j \in 1..Len(short) : long[j + 1] = short[j]
      <2> SUFFICES ASSUME NEW j \in 1..(n - i) PROVE long[j + 1] = short[j]
          BY <1>4
      <2>1. j + 1 \in 1..(n - (i - 1)) /\ i - 1 + (j + 1) = i + j
            BY <1>1
      <2> QED BY <2>1
<1>8. Len(long) = Len(short) + 1
      BY <1>3, <1>4, <1>5
<1> HIDE DEF long, short
<1>9. <<f(i)>> \o short = long
      BY <1>4, <1>5, <1>6, <1>7, <1>8, IsCons
<1>10. /\ FlattenSeq(long) = f(i) \o FlattenSeq(short)
       /\ FlattenSeq(short) \in F
       BY <1>4, <1>6, <1>9, FlattenCons, FlattenTyped DEF F
<1>11. /\ SectionsFrom(m, i - 1) = FlattenSeq(long)
       /\ SectionsFrom(m, i) = FlattenSeq(short)
       BY DEF SectionsFrom, long, short, f, s, n
<1> QED BY <1>10, <1>11 DEF F, f, s

LEMMA NoSectionsLeft ==
    ASSUME NEW m, Len(m.sections) \in Nat
    PROVE  SectionsFrom(m, Len(m.sections)) = <<>>
<1> DEFINE n == Len(m.sections)
<1>1. n - n = 0
      OBVIOUS
<1> HIDE DEF n
<1>2. [j \in 1..(n - n) |-> FieldsOf(m.sections[n + j])] = <<>>
      BY <1>1
<1> QED BY <1>2, FlattenEmpty DEF SectionsFrom, n

LEMMA LeftIs ==
    ASSUME NEW m, m.sections \in Seq(AnySection)
    PROVE  LET n == Len(m.sections)
               last == Field(2, "NONEXT")
           IN  /\ last \in AnyField /\ n \in Nat
               /\ \A i \in 0..n : Left(m, i) \in Seq(AnyField)
               /\ Left(m, n) = <<last>> \o <<>>
               /\ \A i \in 1..n :
                      Left(m, i - 1) = <<Field(2, m.sections[i].type)>>
                                       \o (After(m.sections[i], 0) \o Left(m, i))
<1> DEFINE n == Len(m.sections)
           last == Field(2, "NONEXT")
<1>1. last \in AnyField /\ <<last>> \in Seq(AnyField) /\ n \in Nat
      BY FieldIs, ValueIs, FieldLists, LenProperties
<1> HIDE DEF n, last
<1>2. SectionsFrom(m, n) = <<>>
      BY <1>1, NoSectionsLeft DEF n
<1>3. \A i \in 0..n : SectionsFrom(m, i) \in Seq(AnyField)
      <2> SUFFICES ASSUME NEW i \in 0..n PROVE SectionsFrom(m, i) \in Seq(AnyField)
          OBVIOUS
      <2>1. CASE i = 0 /\ n # 0
            <3>1. 1 \in 1..n /\ 1 - 1 = i
                  BY <1>1, <2>1
            <3>2. /\ SectionsFrom(m, 1 - 1) = FieldsOf(m.sections[1]) \o SectionsFrom(m, 1)
                  /\ SectionsFrom(m, 1) \in Seq(AnyField)
                  BY <3>1, SectionsLeft DEF n
            <3>3. FieldsOf(m.sections[1]) \in Seq(AnyField)
                  <4>1. m.sections[1] \in AnySection
                        BY <3>1, ElementOfSeq DEF n
                  <4> QED BY <4>1, FieldsTyped
            <3> QED BY <3>1, <3>2, <3>3, ConcatProperties
      <2>2. CASE i = n
            BY <1>2, <2>2, FieldLists
      <2>3. CASE i \in 1..n
            BY <2>3, SectionsLeft DEF n
      <2> QED BY <1>1, <2>1, <2>2, <2>3
<1>4. \A i \in 0..n : Left(m, i) \in Seq(AnyField)
      BY <1>1, <1>3, ConcatProperties DEF Left, last
<1>5. Left(m, n) = <<last>> \o <<>>
      <2>1. <<>> \o <<last>> = <<last>> /\ <<last>> \o <<>> = <<last>>
            BY <1>1, ConcatEmptySeq
      <2> QED BY <1>2, <2>1 DEF Left, last
<1>6. ASSUME NEW i \in 1..n
      PROVE  Left(m, i - 1) = <<Field(2, m.sections[i].type)>>
                              \o (After(m.sections[i], 0) \o Left(m, i))
      <2> DEFINE q == m.sections[i]
                 h == <<Field(2, q.type)>>
                 a == After(q, 0)
                 r == SectionsFrom(m, i)
                 l == <<last>>
      <2>1. q \in AnySection
            BY ElementOfSeq DEF n
      <2>2. FieldsOf(q) = h \o a /\ a \in Seq(AnyField)
            <3> HIDE DEF q
            <3> QED BY <2>1, FieldsTyped
      <2>3. h \in Seq(AnyField)
            <3> HIDE DEF q
            <3> QED BY <2>1, FieldsTyped
      <2>4. SectionsFrom(m, i - 1) = FieldsOf(q) \o r /\ r \in Seq(AnyField)
            BY SectionsLeft DEF n
      <2>5. Left(m, i - 1) = ((h \o a) \o r) \o l /\ Left(m, i) = r \o l
            BY <2>2, <2>4 DEF Left, last
      <2>6. l \in Seq(AnyField)
            BY <1>1
      <2> HIDE DEF q, h, a, r, l
      <2>7. (h \o a) \o r = h \o (a \o r) /\ a \o r \in Seq(AnyField)
            BY <2>2, <2>3, <2>4, Associative, ConcatProperties
      <2>8. (h \o (a \o r)) \o l = h \o ((a \o r) \o l)
            BY <2>3, <2>6, <2>7, Associative
      <2>9. (a \o r) \o l = a \o (r \o l)
            BY <2>2, <2>4, <2>6, Associative
      <2>10. Left(m, i - 1) = h \o (a \o Left(m, i))
             BY <2>5, <2>7, <2>8, <2>9
      <2> QED BY <2>10 DEF h, a, q
<1> QED BY <1>1, <1>4, <1>5, <1>6 DEF n, last

-----------------------------------------------------------------------------
(* The header.                                                               *)

\* How many ids there are, the header after the first k of them have been
\* read, and the values that were read.
IdCount(P) == IF P = "FAP" THEN 4 ELSE 3
HeaderField(P, m, k) == IF k = IdCount(P) THEN Field(2, m.type) ELSE Field(2, 0)
HeaderAfter(P, m, k) ==
    [j \in 1..(IdCount(P) + 1 - k) |-> HeaderField(P, m, k + j - 1)]
IdValues(k) == [j \in 1..k |-> 0]

LEMMA IdsAre ==
    /\ IdCount(protocol) \in {3, 4}
    /\ Len(Ids) = IdCount(protocol)
    /\ Ids \in Seq(AnyField)
    /\ \A j \in 1..IdCount(protocol) : Ids[j] = Field(2, 0)
<1>1. IdCount(protocol) \in {3, 4} /\ IdCount(protocol) \in Nat
      BY DEF IdCount
<1>2. Ids = [i \in 1..IdCount(protocol) |-> Field(2, 0)]
      BY DEF Ids, IdCount
<1>3. Field(2, 0) \in AnyField
      BY FieldIs, ValueIs
<1>4. Ids \in [1..IdCount(protocol) -> AnyField]
      BY <1>2, <1>3
<1>5. Ids \in Seq(AnyField) /\ Len(Ids) = IdCount(protocol)
      BY <1>1, <1>4
<1> QED BY <1>1, <1>2, <1>5

LEMMA HeaderTyped ==
    ASSUME NEW P, NEW m \in AnyMessage, NEW k \in 0..(IdCount(P) + 1)
    PROVE  /\ HeaderAfter(P, m, k) \in Seq(AnyField)
           /\ Len(HeaderAfter(P, m, k)) = IdCount(P) + 1 - k
           /\ \A j \in 1..(IdCount(P) + 1 - k) :
                  HeaderAfter(P, m, k)[j] = HeaderField(P, m, k + j - 1)
<1> DEFINE n == IdCount(P) + 1 - k
           h == [j \in 1..n |-> HeaderField(P, m, k + j - 1)]
<1>1. n \in Nat
      BY DEF IdCount
<1>2. \A j : HeaderField(P, m, j) \in AnyField
      <2>1. Field(2, m.type) \in AnyField /\ Field(2, 0) \in AnyField
            BY FieldIs, ValueIs DEF AnyMessage
      <2> QED BY <2>1 DEF HeaderField
<1>3. h \in [1..n -> AnyField]
      BY <1>2
<1>4. HeaderAfter(P, m, k) = h /\ \A j \in 1..n : h[j] = HeaderField(P, m, k + j - 1)
      BY DEF HeaderAfter
<1> HIDE DEF h, n
<1>5. h \in Seq(AnyField) /\ Len(h) = n
      BY <1>1, <1>3
<1> QED BY <1>4, <1>5 DEF n

LEMMA HeaderStep ==
    ASSUME NEW P, NEW m \in AnyMessage, NEW k \in 0..IdCount(P)
    PROVE  /\ HeaderField(P, m, k) \in AnyField
           /\ HeaderField(P, m, k).width = 2
           /\ HeaderField(P, m, k).val = IF k = IdCount(P) THEN m.type ELSE 0
           /\ HeaderAfter(P, m, k) = <<HeaderField(P, m, k)>> \o HeaderAfter(P, m, k + 1)
<1> DEFINE f == HeaderField(P, m, k)
           long == HeaderAfter(P, m, k)
           short == HeaderAfter(P, m, k + 1)
<1>1. /\ f \in AnyField /\ f.width = 2
      /\ f.val = IF k = IdCount(P) THEN m.type ELSE 0
      <2>1. Field(2, m.type) \in AnyField /\ Field(2, 0) \in AnyField
            BY FieldIs, ValueIs DEF AnyMessage
      <2> QED BY <2>1, FieldIs DEF HeaderField
<1>2. k \in 0..(IdCount(P) + 1) /\ k + 1 \in 0..(IdCount(P) + 1) /\ IdCount(P) \in Nat
      BY DEF IdCount
<1>3. /\ long \in Seq(AnyField) /\ Len(long) = IdCount(P) + 1 - k
      /\ \A j \in 1..(IdCount(P) + 1 - k) : long[j] = HeaderField(P, m, k + j - 1)
      BY <1>2, HeaderTyped
<1>4. /\ short \in Seq(AnyField) /\ Len(short) = IdCount(P) + 1 - (k + 1)
      /\ \A j \in 1..(IdCount(P) + 1 - (k + 1)) : short[j] = HeaderField(P, m, k + 1 + j - 1)
      BY <1>2, HeaderTyped
<1> HIDE DEF long, short
<1>5. Len(long) = Len(short) + 1
      BY <1>2, <1>3, <1>4
<1>6. long[1] = f
      BY <1>2, <1>3
<1>7. \A j \in 1..Len(short) : long[j + 1] = short[j]
      <2> SUFFICES ASSUME NEW j \in 1..(IdCount(P) + 1 - (k + 1))
                   PROVE long[j + 1] = short[j]
          BY <1>4
      <2>1. j + 1 \in 1..(IdCount(P) + 1 - k) /\ k + (j + 1) - 1 = k + 1 + j - 1
            BY <1>2
      <2> QED BY <1>3, <1>4, <2>1
<1> HIDE DEF f
<1>8. <<f>> \o short = long
      BY <1>1, <1>3, <1>4, <1>5, <1>6, <1>7, IsCons
<1> QED BY <1>1, <1>8 DEF long, short, f

LEMMA HeaderEnd ==
    ASSUME NEW P, NEW m
    PROVE  HeaderAfter(P, m, IdCount(P) + 1) = <<>>
<1>1. IdCount(P) + 1 - (IdCount(P) + 1) = 0
      BY DEF IdCount
<1> QED BY <1>1 DEF HeaderAfter

LEMMA IdValuesGrow ==
    ASSUME NEW k \in Nat
    PROVE  /\ IdValues(k) \in Seq(AnyValue) /\ Len(IdValues(k)) = k
           /\ Append(IdValues(k), 0) = IdValues(k + 1)
<1>1. 0 \in AnyValue
      BY ValueIs
<1>2. \A n \in Nat : /\ IdValues(n) \in Seq(AnyValue) /\ Len(IdValues(n)) = n
                     /\ \A j \in 1..n : IdValues(n)[j] = 0
      <2> SUFFICES ASSUME NEW n \in Nat
                   PROVE  /\ IdValues(n) \in Seq(AnyValue) /\ Len(IdValues(n)) = n
                          /\ \A j \in 1..n : IdValues(n)[j] = 0
          OBVIOUS
      <2>1. IdValues(n) \in [1..n -> AnyValue] /\ \A j \in 1..n : IdValues(n)[j] = 0
            BY <1>1 DEF IdValues
      <2>2. IdValues(n) \in Seq(AnyValue) /\ Len(IdValues(n)) = n
            BY <2>1
      <2> QED BY <2>1, <2>2
<1> DEFINE s == IdValues(k)
           t == IdValues(k + 1)
<1>3. /\ s \in Seq(AnyValue) /\ Len(s) = k /\ \A j \in 1..k : s[j] = 0
      /\ t \in Seq(AnyValue) /\ Len(t) = k + 1 /\ \A j \in 1..(k + 1) : t[j] = 0
      BY <1>2
<1> HIDE DEF s, t
<1>4. Len(t) = Len(s) + 1 /\ t[Len(s) + 1] = 0 /\ \A i \in 1..Len(s) : t[i] = s[i]
      BY <1>3
<1>5. t = Append(s, 0)
      BY <1>1, <1>3, <1>4, IsAppend
<1> QED BY <1>3, <1>5 DEF s, t

\* What fsmsg_to_buffer writes is the header and all the sections.
LEMMA BufferIs ==
    ASSUME NEW m \in AnyMessage
    PROVE  ToBuffer(m) = HeaderAfter(protocol, m, 0) \o Left(m, 0)
<1> DEFINE n == IdCount(protocol)
           head == HeaderAfter(protocol, m, 0)
           kind == <<Field(2, m.type)>>
           r == SectionsFrom(m, 0)
           l == <<Field(2, "NONEXT")>>
           ids == Ids
<1>1. n \in Nat /\ 0 \in 0..(n + 1)
      BY IdsAre
<1>2. ids \in Seq(AnyField) /\ Len(ids) = n /\ \A j \in 1..n : ids[j] = Field(2, 0)
      BY IdsAre
<1>3. kind \in Seq(AnyField) /\ Len(kind) = 1 /\ kind[1] = Field(2, m.type)
      BY FieldIs, ValueIs, Singleton DEF AnyMessage
<1>4. l \in Seq(AnyField)
      BY FieldIs, ValueIs, Singleton
<1>5. r \in Seq(AnyField)
      <2>1. m.sections \in Seq(AnySection) /\ Len(m.sections) \in Nat
            BY LenProperties DEF AnyMessage
      <2>2. CASE Len(m.sections) = 0
            BY <2>1, <2>2, NoSectionsLeft, FieldLists
      <2>3. CASE Len(m.sections) # 0
            <3>1. 1 \in 1..Len(m.sections) /\ 1 - 1 = 0
                  BY <2>1, <2>3
            <3>2. /\ SectionsFrom(m, 1 - 1) = FieldsOf(m.sections[1]) \o SectionsFrom(m, 1)
                  /\ SectionsFrom(m, 1) \in Seq(AnyField)
                  BY <2>1, <3>1, SectionsLeft
            <3>3. FieldsOf(m.sections[1]) \in Seq(AnyField)
                  <4>1. m.sections[1] \in AnySection
                        BY <2>1, <3>1, ElementOfSeq
                  <4> QED BY <4>1, FieldsTyped
            <3> QED BY <3>1, <3>2, <3>3, ConcatProperties
      <2> QED BY <2>2, <2>3
<1>6. Sections(m) = r
      <2> DEFINE len == Len(m.sections)
      <2>1. len \in Nat
            BY LenProperties DEF AnyMessage
      <2> HIDE DEF len
      <2>2. len - 0 = len /\ \A i \in 1..len : 0 + i = i
            BY <2>1
      <2>3. [i \in 1..len |-> FieldsOf(m.sections[i])]
            = [j \in 1..(len - 0) |-> FieldsOf(m.sections[0 + j])]
            BY <2>2
      <2> QED BY <2>3 DEF Sections, SectionsFrom, len
<1>7. /\ head \in Seq(AnyField) /\ Len(head) = n + 1 - 0
      /\ \A j \in 1..(n + 1 - 0) : head[j] = HeaderField(protocol, m, 0 + j - 1)
      BY <1>1, HeaderTyped
<1>8. /\ \A j \in 1..n : HeaderField(protocol, m, 0 + j - 1) = Field(2, 0)
      /\ HeaderField(protocol, m, 0 + (n + 1) - 1) = Field(2, m.type)
      <2>1. \A j \in 1..n : 0 + j - 1 # n
            BY <1>1
      <2>2. 0 + (n + 1) - 1 = n
            BY <1>1
      <2> QED BY <2>1, <2>2 DEF HeaderField
<1>9. ToBuffer(m) = ids \o kind \o Sections(m) \o l
      BY DEF ToBuffer
<1>14. Left(m, 0) = r \o l
       BY DEF Left
<1> HIDE DEF n, head, kind, r, l, ids
<1>10. ids \o kind = head
      <2> DEFINE c == ids \o kind
      <2>0. n \in Nat
            BY <1>1
      <2>1. /\ c \in Seq(AnyField) /\ Len(c) = Len(ids) + Len(kind)
            /\ \A i \in 1..(Len(ids) + Len(kind)) :
                   c[i] = IF i <= Len(ids) THEN ids[i] ELSE kind[i - Len(ids)]
            <3>1. ids \in Seq(AnyField) /\ kind \in Seq(AnyField)
                  BY <1>2, <1>3
            <3> QED BY <3>1, ConcatProperties
      <2>2. /\ Len(c) = n + 1
            /\ \A j \in 1..n : c[j] = Field(2, 0)
            /\ c[n + 1] = Field(2, m.type)
            <3> HIDE DEF c
            <3>1. Len(c) = n + 1
                  BY <1>2, <1>3, <2>1
            <3>2. \A j \in 1..(n + 1) : c[j] = IF j <= n THEN ids[j] ELSE kind[j - n]
                  BY <1>2, <1>3, <2>1
            <3>3. \A j \in 1..n : c[j] = Field(2, 0)
                  BY <1>2, <2>0, <3>2
            <3>4. c[n + 1] = kind[1]
                  <4>1. n + 1 \in 1..(n + 1) /\ ~(n + 1 <= n) /\ n + 1 - n = 1
                        BY <2>0
                  <4> QED BY <2>0, <3>2, <4>1
            <3> QED BY <1>3, <3>1, <3>3, <3>4
      <2> HIDE DEF c
      <2>3. Len(head) = n + 1 /\ \A j \in 1..(n + 1) : head[j] = c[j]
            <3>1. \A j \in 1..n : head[j] = Field(2, 0)
                  BY <1>7, <1>8, <2>0
            <3>2. head[n + 1] = Field(2, m.type)
                  BY <1>7, <1>8, <2>0
            <3>3. Len(head) = n + 1
                  BY <1>7, <2>0
            <3> QED BY <2>0, <2>2, <3>1, <3>2, <3>3
      <2>4. c = head
            BY <1>7, <2>1, <2>2, <2>3, SeqEqual
      <2> QED BY <2>4 DEF c
<1>11. ToBuffer(m) = (head \o r) \o l
       BY <1>6, <1>9, <1>10
<1>12. (head \o r) \o l = head \o (r \o l)
       BY <1>4, <1>5, <1>7, Associative
<1> QED BY <1>11, <1>12, <1>14 DEF head

-----------------------------------------------------------------------------
(* The reads.                                                                *)

\* What a read() of the whole first field leaves.
LEMMA FirstField ==
    ASSUME NEW f \in AnyField, NEW t \in Seq(AnyField), NEW s, s = <<f>> \o t
    PROVE  Head(s) = f /\ Tail(s) = t /\ Bytes(s) = f.width + Bytes(t)
<1>1. Bytes(s) = f.width + Bytes(t)
      BY BytesCons
<1>2. Head(<<f>> \o t) = f /\ Tail(<<f>> \o t) = t
      OBVIOUS
<1> QED BY <1>1, <1>2

LEMMA Consumed ==
    ASSUME ReadField, NEW f \in AnyField, NEW t \in Seq(AnyField),
           stream = <<f>> \o t, Wanted = f.width, ready \in Nat, ready <= Bytes(stream)
    PROVE  /\ stream' = t /\ ready' \in Nat /\ ready' <= Bytes(t)
           /\ Advance(Append(vals, f.val))
           /\ UNCHANGED <<protocol, closed, how>>
<1>1. Head(stream) = f /\ Tail(stream) = t /\ Bytes(stream) = f.width + Bytes(t)
      BY FirstField
<1>2. /\ ready >= f.width /\ ready' = ready - f.width /\ stream' = Tail(stream)
      /\ Advance(Append(vals, f.val))
      /\ UNCHANGED <<protocol, closed, how>>
      BY <1>1 DEF ReadField
<1>3. f.width \in Nat /\ Bytes(t) \in Nat
      BY FieldIs, BytesTyped
<1> QED BY <1>1, <1>2, <1>3

LEMMA HeaderReads ==
    ASSUME part = "header", NEW k \in 0..IdCount(protocol), vals = IdValues(k)
    PROVE  Wanted = 2 /\ ~Skipped /\ Len(Reads) = IdCount(protocol) + 1
<1>1. Reads = [i \in 1..(IdCount(protocol) + 1) |-> "number"]
      BY IdsAre DEF Reads
<1>2. IdCount(protocol) \in Nat /\ k \in Nat
      BY IdsAre
<1>3. Len(vals) = k
      BY <1>2, IdValuesGrow
<1>4. Len(vals) + 1 \in 1..(IdCount(protocol) + 1)
      BY <1>2, <1>3
<1>5. Wanted = 2
      BY <1>1, <1>4 DEF Wanted
<1>6. Len(Reads) = IdCount(protocol) + 1
      BY <1>1, <1>2
<1> QED BY <1>5, <1>6 DEF Skipped

LEMMA NextReads ==
    ASSUME part = "next", vals = <<>>
    PROVE  Wanted = 2 /\ ~Skipped /\ Len(Reads) = 1
<1>1. Reads = <<"number">>
      BY DEF Reads
<1>2. Wanted = 2
      BY <1>1 DEF Wanted
<1> QED BY <1>1, <1>2 DEF Skipped

\* In a section the reader asks for what the section has next.
LEMMA SectionReads ==
    ASSUME NEW s \in AnySection, part = s.type, NEW k \in 0..(Len(Plan(s)) - 1),
           vals = Values(s, k)
    PROVE  Wanted = Plan(s)[k + 1].width /\ Len(Reads) = Len(Plan(s))
<1> DEFINE f == Plan(s)[k + 1]
           Goal == Wanted = f.width /\ Len(Reads) = Len(Plan(s))
<1> SUFFICES Goal
    OBVIOUS
<1>1. /\ Len(vals) = k
      /\ \A j \in 1..k : vals[j] = Plan(s)[j].val
      /\ \A w, v : Field(w, v).width = w /\ Field(w, v).val = v
      BY ValuesGrow, FieldIs DEF Values
<1>2. CASE s.type = "INTEGER"
      <2>1. Plan(s) = <<Field(2, s.value)>>
            BY <1>2, AnySectionIs, AfterNumber
      <2>2. k = 0 /\ f.width = 2 /\ Len(Plan(s)) = 1
            BY <1>1, <2>1
      <2>3. Reads = <<"number">>
            BY <1>2 DEF Reads
      <2>4. Wanted = 2
            BY <1>1, <2>2, <2>3 DEF Wanted
      <2> QED BY <2>2, <2>3, <2>4
<1>3. CASE s.type \in {"STRING", "BINARY"}
      <2> DEFINE t == s.text
      <2>1. t \in AnyText /\ s \in {String(t), Binary(t)}
            BY <1>3, AnySectionIs
      <2> HIDE DEF t
      <2>2. Plan(s) = <<Field(2, Len(t)), Field(Len(t), t)>>
            BY <2>1, AfterText
      <2>3. Reads = <<"number", "text">>
            BY <1>3 DEF Reads
      <2>4. Len(Plan(s)) = 2 /\ Len(Reads) = 2 /\ k \in {0, 1}
            BY <2>2, <2>3
      <2>5. CASE k = 0
            <3>1. f.width = 2
                  BY <1>1, <2>2, <2>5
            <3>2. Wanted = 2
                  BY <1>1, <2>3, <2>5 DEF Wanted
            <3> QED BY <2>4, <3>1, <3>2
      <2>6. CASE k = 1
            <3>1. f.width = Len(t) /\ vals[1] = Len(t)
                  BY <1>1, <2>2, <2>6
            <3>2. Wanted = vals[1]
                  BY <1>1, <2>3, <2>6 DEF Wanted
            <3> QED BY <2>4, <3>1, <3>2
      <2> QED BY <2>4, <2>5, <2>6
<1>4. CASE s.type = "FILEINFO"
      <2> DEFINE p == s.path
                 u == s.user
      <2>1. Plan(s) = <<Field(1, 0), Field(2, Len(p)), Field(Len(p), p), Field(2, Len(u)),
                        Field(Len(u), u), Field(2, 0), Field(2, 0), Field(2, 0)>>
            BY <1>4, AfterFile
      <2> HIDE DEF p, u
      <2>2. Reads = <<"byte", "number", "text", "number", "text", "number", "number",
                      "number">>
            BY <1>4 DEF Reads
      <2>3. Len(Plan(s)) = 8 /\ Len(Reads) = 8 /\ k \in {0, 1, 2, 3, 4, 5, 6, 7}
            BY <2>1, <2>2
      <2>4. CASE k = 0
            <3>1. f.width = 1
                  BY <1>1, <2>1, <2>4
            <3>2. Wanted = 1
                  BY <1>1, <2>2, <2>4 DEF Wanted
            <3> QED BY <2>3, <3>1, <3>2
      <2>5. CASE k \in {1, 3, 5, 6, 7}
            <3>1. Plan(s)[2].width = 2 /\ Plan(s)[4].width = 2 /\ Plan(s)[6].width = 2
                  BY <1>1, <2>1
            <3>2. Plan(s)[7].width = 2 /\ Plan(s)[8].width = 2
                  BY <1>1, <2>1
            <3>3. f.width = 2
                  BY <2>5, <3>1, <3>2
            <3>4. Reads[k + 1] = "number"
                  BY <2>2, <2>5
            <3>5. Wanted = 2
                  BY <1>1, <3>4 DEF Wanted
            <3> QED BY <2>3, <3>3, <3>5
      <2>6. CASE k = 2
            <3>1. f.width = Len(p) /\ vals[2] = Len(p)
                  BY <1>1, <2>1, <2>6
            <3>2. Wanted = vals[2]
                  BY <1>1, <2>2, <2>6 DEF Wanted
            <3> QED BY <2>3, <3>1, <3>2
      <2>7. CASE k = 4
            <3>1. f.width = Len(u) /\ vals[4] = Len(u)
                  BY <1>1, <2>1, <2>7
            <3>2. Wanted = vals[4]
                  BY <1>1, <2>2, <2>7 DEF Wanted
            <3> QED BY <2>3, <3>1, <3>2
      <2> QED BY <2>3, <2>4, <2>5, <2>6, <2>7
<1> QED BY <1>2, <1>3, <1>4, AnySectionIs DEF SectionTypes

\* And it makes the same section of all the values.
LEMMA SectionMade ==
    ASSUME NEW s \in AnySection, part = s.type
    PROVE  Section(Values(s, Len(Plan(s)))) = s
<1> DEFINE v == Values(s, Len(Plan(s)))
<1>1. \A w, x : Field(w, x).val = x
      BY FieldIs
<1>2. CASE s.type = "INTEGER"
      <2>1. Plan(s) = <<Field(2, s.value)>> /\ s = Integer(s.value)
            BY <1>2, AnySectionIs, AfterNumber
      <2>2. v[1] = s.value
            BY <1>1, <2>1 DEF Values
      <2> HIDE DEF v
      <2>3. Section(v) = Integer(s.value)
            BY <1>2, <2>2 DEF Section
      <2> QED BY <2>1, <2>3 DEF v
<1>3. CASE s.type \in {"STRING", "BINARY"}
      <2> DEFINE t == s.text
      <2>1. t \in AnyText /\ s \in {String(t), Binary(t)}
            BY <1>3, AnySectionIs
      <2>2. Plan(s) = <<Field(2, Len(t)), Field(Len(t), t)>>
            BY <2>1, AfterText
      <2>3. v[2] = t
            BY <1>1, <2>2 DEF Values
      <2>4. s.type = "STRING" => s = String(t)
            BY AnySectionIs
      <2>5. s.type = "BINARY" => s = Binary(t)
            BY AnySectionIs
      <2> HIDE DEF v, t
      <2>6. s.type = "STRING" => Section(v) = String(t)
            BY <2>3 DEF Section
      <2>7. s.type = "BINARY" => Section(v) = Binary(t)
            BY <2>3 DEF Section
      <2>8. Section(v) = s
            BY <1>3, <2>4, <2>5, <2>6, <2>7
      <2> QED BY <2>8 DEF v
<1>4. CASE s.type = "FILEINFO"
      <2> DEFINE p == s.path
                 u == s.user
      <2>1. Plan(s) = <<Field(1, 0), Field(2, Len(p)), Field(Len(p), p), Field(2, Len(u)),
                        Field(Len(u), u), Field(2, 0), Field(2, 0), Field(2, 0)>>
            BY <1>4, AfterFile
      <2>2. s = FileInfo(p, u)
            BY <1>4, AnySectionIs
      <2> HIDE DEF p, u
      <2>3. v[3] = p /\ v[5] = u
            BY <1>1, <2>1 DEF Values
      <2> HIDE DEF v
      <2>4. Section(v) = FileInfo(p, u)
            BY <1>4, <2>3 DEF Section
      <2> QED BY <2>2, <2>4 DEF v
<1> QED BY <1>2, <1>3, <1>4, AnySectionIs DEF SectionTypes

-----------------------------------------------------------------------------
(* The inductive invariant: where the reader is.                             *)

\* The message as far as it is complete: its type and i sections.
Got(i) == msg = Msg(flight.type, SubSeq(flight.sections, 1, i))

\* Before a message.
Idle ==
    flight = NoMessage /\ part = "header" /\ vals = <<>> /\ msg = NoMessage /\ stream = <<>>

\* k fields of the header have been read.
InHeader ==
    /\ part = "header" /\ msg = NoMessage
    /\ \E k \in 0..IdCount(protocol) :
           vals = IdValues(k) /\ stream = HeaderAfter(protocol, flight, k) \o Left(flight, 0)

\* i sections have been read.
Between ==
    /\ part = "next" /\ vals = <<>>
    /\ \E i \in 0..Len(flight.sections) : Got(i) /\ stream = Left(flight, i)

\* i - 1 sections and k values of the next have been read.
Within(i, k) ==
    LET s == flight.sections[i] IN
    /\ part = s.type
    /\ Got(i - 1)
    /\ vals = Values(s, k)
    /\ stream = After(s, k) \o Left(flight, i)

InSection ==
    \E i \in 1..Len(flight.sections) :
        \E k \in 0..(Len(Plan(flight.sections[i])) - 1) : Within(i, k)

Place == Idle \/ (flight \in Sent[protocol] /\ (InHeader \/ Between \/ InSection))
Arrived == ready \in Nat /\ ready <= Bytes(stream)

\* A message that is returned is the one that was sent.
Whole ==
    \/ received = NothingReceived
    \/ received.sent \in Sent[protocol] /\ received.got = received.sent

Lost ==
    /\ how \in {"aligned", "torn", "gaveup", "ended"}
    /\ how = "gaveup" => EmptyName(flight)

MsgInv ==
    /\ protocol \in {"FAP", "DCP", "FCTP"}
    /\ how = "aligned" => Arrived /\ Place
    /\ Whole
    /\ Lost

-----------------------------------------------------------------------------
(* The steps.                                                                *)

LEMMA FlightIs ==
    ASSUME MsgInv, flight \in Sent[protocol]
    PROVE  /\ flight \in AnyMessage /\ flight # NoMessage
           /\ flight.sections \in Seq(AnySection) /\ Len(flight.sections) \in Nat
           /\ \A i \in 1..Len(flight.sections) : flight.sections[i] \in AnySection
           /\ flight = Msg(flight.type, flight.sections)
<1>1. flight \in AnyMessage /\ flight # NoMessage
      BY SentIs DEF MsgInv
<1>2. flight.sections \in Seq(AnySection) /\ flight = Msg(flight.type, flight.sections)
      BY <1>1 DEF AnyMessage, Msg
<1>3. Len(flight.sections) \in Nat
      BY <1>2, LenProperties
<1>4. \A i \in 1..Len(flight.sections) : flight.sections[i] \in AnySection
      BY <1>2, ElementOfSeq
<1> QED BY <1>1, <1>2, <1>3, <1>4

LEMMA PlaceSame ==
    ASSUME Place, UNCHANGED <<protocol, flight, stream, part, vals, msg>>
    PROVE  Place'
BY DEF Place, Idle, InHeader, Between, InSection, Within, Got

LEMMA InitHolds == MsgInit => MsgInv
<1> SUFFICES ASSUME MsgInit PROVE MsgInv
    OBVIOUS
<1>1. Arrived /\ Place
      BY NoBytes DEF MsgInit, Arrived, Place, Idle
<1> QED BY <1>1 DEF MsgInit, MsgInv, Whole, Lost

LEMMA IdleIs ==
    ASSUME MsgInv, how = "aligned", flight = NoMessage
    PROVE  Idle /\ ready = 0
<1>1. Idle
      BY FlightIs DEF MsgInv, Place
<1>2. Bytes(stream) = 0
      BY <1>1, NoBytes DEF Idle
<1> QED BY <1>1, <1>2 DEF MsgInv, Arrived

LEMMA SendKeeps ==
    ASSUME MsgInv, NEW m \in Sent[protocol], Send(m)
    PROVE  MsgInv'
<1> DEFINE P == protocol
           h == HeaderAfter(P, m, 0)
           l == Left(m, 0)
<1>1. /\ Idle /\ ready = 0 /\ how = "aligned"
      /\ flight' = m /\ stream' = stream \o ToBuffer(m) /\ received' = NothingReceived
      /\ UNCHANGED <<protocol, ready, closed, part, vals, msg, how>>
      BY IdleIs DEF Send
<1>2. m \in AnyMessage /\ P \in {"FAP", "DCP", "FCTP"}
      BY SentIs DEF MsgInv
<1>3. h \in Seq(AnyField) /\ l \in Seq(AnyField)
      <2>1. m.sections \in Seq(AnySection) /\ 0 \in 0..Len(m.sections)
            BY <1>2, LenProperties DEF AnyMessage
      <2>2. 0 \in 0..(IdCount(P) + 1)
            BY DEF IdCount
      <2> QED BY <1>2, <2>1, <2>2, LeftIs, HeaderTyped
<1>4. stream' = h \o l
      <2>1. ToBuffer(m) = h \o l
            BY <1>2, BufferIs
      <2> HIDE DEF h, l
      <2>2. h \o l \in Seq(AnyField)
            BY <1>3, ConcatProperties
      <2>3. <<>> \o ToBuffer(m) = ToBuffer(m)
            BY <2>1, <2>2, ConcatEmptySeq
      <2> QED BY <1>1, <2>1, <2>3 DEF Idle
<1>5. Arrived'
      <2> HIDE DEF h, l
      <2>1. stream' \in Seq(AnyField)
            BY <1>3, <1>4, ConcatProperties
      <2> DEFINE n == Bytes(stream')
      <2>2. n \in Nat
            BY <2>1, BytesTyped
      <2>3. ready' = 0 /\ n = Bytes(stream)'
            BY <1>1
      <2> HIDE DEF n
      <2> QED BY <2>2, <2>3 DEF Arrived
<1>6. InHeader'
      <2>1. vals' = IdValues(0) /\ 0 \in 0..IdCount(P)
            BY <1>1 DEF Idle, IdValues, IdCount
      <2>2. part' = "header" /\ msg' = NoMessage
            BY <1>1 DEF Idle
      <2>3. stream' = HeaderAfter(protocol', flight', 0) \o Left(flight', 0)
            BY <1>1, <1>4
      <2> QED BY <1>1, <2>1, <2>2, <2>3 DEF InHeader
<1>7. Place'
      BY <1>1, <1>6 DEF Place
<1>8. Whole' /\ Lost'
      BY <1>1 DEF Whole, Lost
<1> QED BY <1>1, <1>2, <1>5, <1>7, <1>8 DEF MsgInv

\* What there is to read, wherever the reader is in a message.
LEMMA HeaderNext ==
    ASSUME MsgInv, flight \in Sent[protocol], NEW k \in 0..IdCount(protocol),
           stream = HeaderAfter(protocol, flight, k) \o Left(flight, 0)
    PROVE  LET f == HeaderField(protocol, flight, k)
               t == HeaderAfter(protocol, flight, k + 1) \o Left(flight, 0)
           IN  /\ f \in AnyField /\ f.width = 2 /\ t \in Seq(AnyField)
               /\ f.val = IF k = IdCount(protocol) THEN flight.type ELSE 0
               /\ stream = <<f>> \o t
               /\ k = IdCount(protocol) => t = Left(flight, 0)
<1> DEFINE P == protocol
           f == HeaderField(P, flight, k)
           h == HeaderAfter(P, flight, k + 1)
           l == Left(flight, 0)
<1>1. flight \in AnyMessage /\ flight.sections \in Seq(AnySection)
      /\ Len(flight.sections) \in Nat /\ 0 \in 0..Len(flight.sections)
      BY FlightIs
<1>2. l \in Seq(AnyField)
      BY <1>1, LeftIs
<1>3. IdCount(P) \in Nat /\ k + 1 \in 0..(IdCount(P) + 1)
      BY IdsAre
<1>4. h \in Seq(AnyField)
      BY <1>1, <1>3, HeaderTyped
<1>5. /\ f \in AnyField /\ f.width = 2
      /\ f.val = IF k = IdCount(P) THEN flight.type ELSE 0
      /\ HeaderAfter(P, flight, k) = <<f>> \o h
      BY <1>1, HeaderStep
<1>6. k = IdCount(P) => h = <<>>
      BY HeaderEnd
<1> HIDE DEF f, h, l
<1>7. <<f>> \in Seq(AnyField)
      BY <1>5, FieldLists
<1>8. stream = <<f>> \o (h \o l) /\ h \o l \in Seq(AnyField)
      <2>1. stream = (<<f>> \o h) \o l
            BY <1>5 DEF l
      <2> QED BY <1>2, <1>4, <1>7, <2>1, Associative, ConcatProperties
<1>9. <<>> \o l = l
      BY <1>2, ConcatEmptySeq
<1> QED BY <1>5, <1>6, <1>8, <1>9 DEF f, h, l

LEMMA WithinNext ==
    ASSUME MsgInv, flight \in Sent[protocol], NEW i \in 1..Len(flight.sections), NEW s,
           s = flight.sections[i], NEW k \in 0..(Len(Plan(s)) - 1), Within(i, k)
    PROVE  LET f == Plan(s)[k + 1]
               t == After(s, k + 1) \o Left(flight, i)
           IN  /\ s \in AnySection /\ f \in AnyField /\ t \in Seq(AnyField)
               /\ Wanted = f.width /\ Append(vals, f.val) = Values(s, k + 1)
               /\ f.width > 0 => stream = <<f>> \o t
               /\ f.width = 0 =>
                      \/ SkippedText(s, k) /\ f.val = <<>> /\ stream = t
                      \/ EmptyFile(s)
<1> DEFINE f == Plan(s)[k + 1]
           a == After(s, k + 1)
           l == Left(flight, i)
           b == After(s, k)
<1>1. /\ flight.sections \in Seq(AnySection) /\ Len(flight.sections) \in Nat
      /\ s \in AnySection
      BY FlightIs
<1>2. l \in Seq(AnyField)
      <2>1. i \in 0..Len(flight.sections)
            BY <1>1
      <2> QED BY <1>1, <2>1, LeftIs
<1>3. a \in Seq(AnyField)
      <2>1. k + 1 \in 0..Len(Plan(s))
            BY <1>1, SectionFields
      <2> QED BY <1>1, <2>1, SectionFields
<1>4. part = s.type /\ vals = Values(s, k) /\ stream = b \o l
      BY DEF Within
<1>5. Wanted = f.width
      BY <1>1, <1>4, SectionReads
<1>6. Append(vals, f.val) = Values(s, k + 1)
      BY <1>1, <1>4, ValuesGrow
<1>7. /\ f \in AnyField
      /\ f.width > 0 => b = <<f>> \o a
      /\ f.width = 0 => (SkippedText(s, k) /\ f.val = <<>> /\ b = a) \/ EmptyFile(s)
      BY <1>1, AfterStep
<1> HIDE DEF f, a, l, b
<1>8. a \o l \in Seq(AnyField)
      BY <1>2, <1>3, ConcatProperties
<1>9. <<f>> \in Seq(AnyField)
      BY <1>7, FieldLists
<1>10. (<<f>> \o a) \o l = <<f>> \o (a \o l)
       BY <1>2, <1>3, <1>9, Associative
<1>11. f.width > 0 => stream = <<f>> \o (a \o l)
       BY <1>4, <1>7, <1>10
<1>12. f.width = 0 => (SkippedText(s, k) /\ f.val = <<>> /\ stream = a \o l) \/ EmptyFile(s)
       BY <1>4, <1>7
<1> QED BY <1>1, <1>5, <1>6, <1>7, <1>8, <1>11, <1>12 DEF f, a, l

\* One more value of a section is known.
LEMMA AdvanceWithin ==
    ASSUME MsgInv, flight \in Sent[protocol], NEW i \in 1..Len(flight.sections), NEW s,
           s = flight.sections[i], NEW k \in 0..(Len(Plan(s)) - 1), Within(i, k),
           Advance(Values(s, k + 1)), stream' = After(s, k + 1) \o Left(flight, i),
           UNCHANGED protocol
    PROVE  flight' = flight /\ received' = received /\ Place'
<1> DEFINE n == Len(Plan(s))
           v == Values(s, k + 1)
           secs == flight.sections
<1>1. /\ secs \in Seq(AnySection) /\ Len(secs) \in Nat /\ s \in AnySection
      /\ i \in 0..Len(secs)
      BY FlightIs
<1>2. part = s.type /\ Got(i - 1) /\ vals = Values(s, k)
      BY DEF Within
<1>3. Len(Reads) = n
      BY <1>1, <1>2, SectionReads
<1>4. Len(v) = k + 1 /\ k \in Nat /\ k + 1 \in 1..n
      BY <1>1, ValuesGrow
<1>5. n \in Nat \ {0} /\ After(s, n) = <<>>
      BY <1>1, SectionFields
<1>6. Advance(v)
      OBVIOUS
<1>7. CASE k + 1 < n
      <2> HIDE DEF v
      <2>1. vals' = v /\ UNCHANGED <<part, msg, flight, received>>
            BY <1>3, <1>4, <1>6, <1>7 DEF Advance
      <2>2. k + 1 \in 0..(n - 1)
            BY <1>4, <1>5, <1>7
      <2>3. Within(i, k + 1)'
            BY <1>2, <2>1 DEF Within, Got, v
      <2>4. InSection'
            BY <2>1, <2>2, <2>3 DEF InSection
      <2> QED BY <2>1, <2>4 DEF Place
<1>8. CASE k + 1 = n
      <2>1. Section(v) = s
            BY <1>1, <1>2, <1>8, SectionMade
      <2> HIDE DEF v
      <2>2. vals' = <<>> /\ NextPart(v)
            BY <1>3, <1>4, <1>6, <1>8 DEF Advance
      <2>3. part # "header" /\ part # "next"
            BY <1>1, <1>2, AnySectionIs DEF SectionTypes
      <2>4. /\ part' = "next" /\ UNCHANGED <<flight, received>>
            /\ msg' = [msg EXCEPT !.sections = Append(@, Section(v))]
            BY <2>2, <2>3 DEF NextPart
      <2>5. msg' = Msg(flight.type, Append(SubSeq(secs, 1, i - 1), s))
            BY <1>2, <2>1, <2>4 DEF Got, Msg
      <2>6. SubSeq(secs, 1, i) = Append(SubSeq(secs, 1, i - 1), s)
            BY <1>1, PrefixAppend
      <2>7. Got(i)'
            BY <2>4, <2>5, <2>6 DEF Got
      <2>8. stream' = Left(flight, i)
            <3>1. Left(flight, i) \in Seq(AnyField)
                  BY <1>1, LeftIs
            <3> QED BY <1>5, <1>8, <3>1, ConcatEmptySeq
      <2>9. Between'
            BY <1>1, <2>2, <2>4, <2>7, <2>8 DEF Between
      <2> QED BY <2>4, <2>9 DEF Place
<1> QED BY <1>4, <1>5, <1>7, <1>8

LEMMA ArriveKeeps ==
    ASSUME MsgInv, Arrive
    PROVE  MsgInv'
<1>1. /\ how = "aligned" /\ ready < Bytes(stream) /\ ready' = ready + 1
      /\ UNCHANGED <<protocol, flight, stream, closed, part, vals, msg, how, received>>
      BY DEF Arrive
<1>2. Place' /\ Whole' /\ Lost'
      BY <1>1, PlaceSame DEF MsgInv, Whole, Lost
<1>3. Bytes(stream) \in Nat
      <2>1. CASE Idle
            BY <2>1, NoBytes DEF Idle
      <2>2. CASE flight \in Sent[protocol] /\ InHeader
            <3>1. PICK k \in 0..IdCount(protocol) :
                      stream = HeaderAfter(protocol, flight, k) \o Left(flight, 0)
                  BY <2>2 DEF InHeader
            <3> DEFINE f == HeaderField(protocol, flight, k)
                       t == HeaderAfter(protocol, flight, k + 1) \o Left(flight, 0)
            <3>2. f \in AnyField /\ t \in Seq(AnyField) /\ stream = <<f>> \o t
                  BY <2>2, <3>1, HeaderNext
            <3> HIDE DEF f, t
            <3>3. stream \in Seq(AnyField)
                  BY <3>2, FieldLists, ConcatProperties
            <3> QED BY <3>3, BytesTyped
      <2>3. CASE flight \in Sent[protocol] /\ Between
            <3>1. PICK i \in 0..Len(flight.sections) : stream = Left(flight, i)
                  BY <2>3 DEF Between
            <3>2. flight.sections \in Seq(AnySection)
                  BY <2>3, FlightIs
            <3>3. stream \in Seq(AnyField)
                  BY <3>1, <3>2, LeftIs
            <3> QED BY <3>3, BytesTyped
      <2>4. CASE flight \in Sent[protocol] /\ InSection
            <3>0. PICK i \in 1..Len(flight.sections) :
                      \E k \in 0..(Len(Plan(flight.sections[i])) - 1) : Within(i, k)
                  BY <2>4 DEF InSection
            <3>1. PICK k \in 0..(Len(Plan(flight.sections[i])) - 1) : Within(i, k)
                  BY <3>0
            <3> DEFINE s == flight.sections[i]
            <3>2. /\ flight.sections \in Seq(AnySection) /\ s \in AnySection
                  /\ Len(flight.sections) \in Nat
                  BY <2>4, FlightIs
            <3>3. Left(flight, i) \in Seq(AnyField)
                  <4>1. i \in 0..Len(flight.sections)
                        BY <3>2
                  <4> QED BY <3>2, <4>1, LeftIs
            <3>4. After(s, k) \in Seq(AnyField)
                  <4>1. k \in 0..Len(Plan(s))
                        BY <3>2, SectionFields
                  <4> QED BY <3>2, <4>1, SectionFields
            <3>5. stream = After(s, k) \o Left(flight, i)
                  BY <3>1 DEF Within
            <3>6. stream \in Seq(AnyField)
                  BY <3>3, <3>4, <3>5, ConcatProperties
            <3> QED BY <3>6, BytesTyped
      <2> QED BY <1>1, <2>1, <2>2, <2>3, <2>4 DEF MsgInv, Place
<1>4. Arrived'
      <2> DEFINE n == Bytes(stream)
      <2>1. n \in Nat /\ ready \in Nat /\ ready < n /\ ready' = ready + 1
            BY <1>1, <1>3 DEF MsgInv, Arrived
      <2>2. n = Bytes(stream)'
            BY <1>1
      <2> HIDE DEF n
      <2> QED BY <2>1, <2>2 DEF Arrived
<1> QED BY <1>1, <1>2, <1>4 DEF MsgInv

LEMMA CloseKeeps ==
    ASSUME MsgInv, Close
    PROVE  MsgInv'
<1>1. UNCHANGED <<protocol, flight, stream, ready, part, vals, msg, how, received>>
      BY DEF Close
<1>2. Place => Place'
      BY <1>1, PlaceSame
<1>3. Arrived => Arrived'
      <2>1. Bytes(stream)' = Bytes(stream)
            BY <1>1
      <2> QED BY <1>1, <2>1 DEF Arrived
<1> QED BY <1>1, <1>2, <1>3 DEF MsgInv, Whole, Lost

\* A whole field is read.
LEMMA ReadIdle ==
    ASSUME MsgInv, ReadField, Idle
    PROVE  FALSE
<1>1. /\ how = "aligned" /\ part = "header" /\ vals = <<>> /\ flight = NoMessage
      /\ ready >= Wanted
      BY DEF ReadField, Idle
<1>2. ready = 0
      BY <1>1, IdleIs
<1>3. vals = IdValues(0) /\ 0 \in 0..IdCount(protocol)
      BY <1>1 DEF IdValues, IdCount
<1>4. Wanted = 2
      BY <1>1, <1>3, HeaderReads
<1> QED BY <1>1, <1>2, <1>4

LEMMA ReadHeader ==
    ASSUME MsgInv, ReadField, flight \in Sent[protocol], InHeader
    PROVE  Place' /\ Arrived' /\ UNCHANGED <<protocol, flight, received, how>>
<1> DEFINE n == IdCount(protocol)
<1>1. PICK k \in 0..n :
          vals = IdValues(k) /\ stream = HeaderAfter(protocol, flight, k) \o Left(flight, 0)
      BY DEF InHeader
<1>2. part = "header" /\ msg = NoMessage /\ how = "aligned" /\ n \in Nat /\ k \in Nat
      BY IdsAre DEF InHeader, ReadField
<1>3. Wanted = 2 /\ Len(Reads) = n + 1
      BY <1>1, <1>2, HeaderReads
<1> DEFINE f == HeaderField(protocol, flight, k)
           t == HeaderAfter(protocol, flight, k + 1) \o Left(flight, 0)
<1>4. /\ f \in AnyField /\ f.width = 2 /\ t \in Seq(AnyField)
      /\ f.val = IF k = n THEN flight.type ELSE 0
      /\ stream = <<f>> \o t
      /\ k = n => t = Left(flight, 0)
      BY <1>1, HeaderNext
<1>5. ready \in Nat /\ ready <= Bytes(stream)
      BY <1>2 DEF MsgInv, Arrived
<1> HIDE DEF f, t, n
<1>6. /\ stream' = t /\ ready' \in Nat /\ ready' <= Bytes(t)
      /\ Advance(Append(vals, f.val))
      /\ UNCHANGED <<protocol, closed, how>>
      <2>1. Wanted = f.width
            BY <1>3, <1>4
      <2> QED BY <1>4, <1>5, <2>1, Consumed
<1>7. Arrived'
      BY <1>6 DEF Arrived
<1>8. /\ IdValues(k) \in Seq(AnyValue) /\ Len(IdValues(k)) = k
      /\ Append(IdValues(k), 0) = IdValues(k + 1)
      /\ Len(IdValues(k + 1)) = k + 1
      <2>1. k \in Nat
            BY <1>2
      <2>2. /\ IdValues(k) \in Seq(AnyValue) /\ Len(IdValues(k)) = k
            /\ Append(IdValues(k), 0) = IdValues(k + 1)
            BY <2>1, IdValuesGrow
      <2> DEFINE j == k + 1
      <2>3. j \in Nat
            BY <2>1
      <2> HIDE DEF j
      <2>4. Len(IdValues(j)) = j
            BY <2>3, IdValuesGrow
      <2> QED BY <2>2, <2>4 DEF j
<1>9. CASE k < n
      <2>1. Append(vals, f.val) = IdValues(k + 1)
            BY <1>1, <1>2, <1>4, <1>8, <1>9
      <2>2. Advance(IdValues(k + 1)) /\ k + 1 < n + 1
            BY <1>2, <1>6, <1>9, <2>1
      <2>3. vals' = IdValues(k + 1) /\ UNCHANGED <<part, msg, flight, received>>
            BY <1>3, <1>8, <2>2 DEF Advance
      <2>4. k + 1 \in 0..n
            BY <1>2, <1>9
      <2>5. stream' = HeaderAfter(protocol', flight', k + 1) \o Left(flight', 0)
            BY <1>6, <2>3 DEF t
      <2>6. k + 1 \in 0..IdCount(protocol')
            BY <1>6, <2>4 DEF n
      <2>7. InHeader'
            BY <1>2, <2>3, <2>5, <2>6 DEF InHeader
      <2> QED BY <1>6, <1>7, <2>3, <2>7 DEF Place
<1>10. CASE k = n
      <2> DEFINE v == Append(IdValues(k), flight.type)
      <2>1. flight.type \in AnyValue /\ flight = Msg(flight.type, flight.sections)
            /\ Len(flight.sections) \in Nat
            BY FlightIs, ValueIs DEF AnyMessage
      <2>2. Len(v) = n + 1 /\ v[n + 1] = flight.type
            BY <1>2, <1>8, <1>10, <2>1
      <2>3. Advance(v)
            BY <1>1, <1>4, <1>6, <1>10
      <2> HIDE DEF v
      <2>4. vals' = <<>> /\ NextPart(v)
            BY <1>2, <1>3, <2>2, <2>3 DEF Advance
      <2>5. /\ part' = "next" /\ msg' = Msg(v[Len(v)], <<>>)
            /\ UNCHANGED <<flight, received>>
            BY <1>2, <2>4 DEF NextPart
      <2>6. Got(0)'
            <3>1. SubSeq(flight.sections, 1, 0) = <<>>
                  BY <2>1, SubSeqEmpty
            <3>2. msg' = Msg(flight.type, <<>>)
                  BY <2>2, <2>5
            <3> QED BY <2>5, <3>1, <3>2 DEF Got
      <2>7. stream' = Left(flight', 0) /\ 0 \in 0..Len(flight'.sections)
            BY <1>4, <1>6, <1>10, <2>1, <2>5
      <2>8. Between'
            BY <2>4, <2>5, <2>6, <2>7 DEF Between
      <2> QED BY <1>6, <1>7, <2>5, <2>8 DEF Place
<1> QED BY <1>2, <1>9, <1>10

LEMMA ReadBetween ==
    ASSUME MsgInv, ReadField, flight \in Sent[protocol], Between
    PROVE  Place' /\ Arrived' /\ Whole' /\ UNCHANGED <<protocol, how>>
<1> DEFINE secs == flight.sections
           n == Len(secs)
<1>1. PICK i \in 0..n : Got(i) /\ stream = Left(flight, i)
      BY DEF Between
<1>2. /\ part = "next" /\ vals = <<>> /\ how = "aligned"
      /\ Wanted = 2 /\ Len(Reads) = 1
      BY NextReads DEF Between, ReadField
<1>3. /\ secs \in Seq(AnySection) /\ n \in Nat /\ flight = Msg(flight.type, secs)
      /\ \A j \in 1..n : secs[j] \in AnySection
      BY FlightIs
<1>4. ready \in Nat /\ ready <= Bytes(stream)
      BY <1>2 DEF MsgInv, Arrived
<1>5. CASE i = n
      <2> DEFINE f == Field(2, "NONEXT")
                 none == <<>>
      <2>1. f \in AnyField /\ stream = <<f>> \o none /\ none \in Seq(AnyField)
            BY <1>1, <1>3, <1>5, LeftIs, FieldLists
      <2>2. f.width = 2 /\ f.val = "NONEXT"
            BY FieldIs
      <2> HIDE DEF f, none
      <2>3. /\ stream' = none /\ ready' \in Nat /\ ready' <= Bytes(none)
            /\ Advance(Append(vals, f.val))
            /\ UNCHANGED <<protocol, closed, how>>
            <3>1. Wanted = f.width
                  BY <1>2, <2>2
            <3> QED BY <1>4, <2>1, <3>1, Consumed
      <2> DEFINE v == Append(vals, f.val)
      <2>4. Len(v) = 1 /\ v[1] = "NONEXT"
            BY <1>2, <2>2
      <2>5. Advance(v)
            BY <2>3
      <2> HIDE DEF v
      <2>6. vals' = <<>> /\ NextPart(v)
            BY <1>2, <2>4, <2>5 DEF Advance
      <2>7. /\ part' = "header" /\ msg' = NoMessage /\ flight' = NoMessage
            /\ received' = [sent |-> flight, got |-> msg]
            BY <1>2, <2>4, <2>6 DEF NextPart
      <2>8. msg = flight
            <3>1. SubSeq(secs, 1, n) = secs
                  BY <1>3, SubSeqFull
            <3> QED BY <1>1, <1>3, <1>5, <3>1 DEF Got
      <2>9. Whole'
            BY <2>3, <2>7, <2>8 DEF Whole
      <2>10. Idle'
             BY <2>3, <2>6, <2>7 DEF Idle, none
      <2>11. Arrived'
             BY <2>3 DEF Arrived
      <2> QED BY <2>3, <2>9, <2>10, <2>11 DEF Place
<1>6. CASE i # n
      <2> DEFINE j == i + 1
                 s == secs[j]
                 f == Field(2, s.type)
                 t == After(s, 0) \o Left(flight, j)
      <2>1. j \in 1..n /\ j - 1 = i /\ j \in 0..n
            BY <1>3, <1>6
      <2> HIDE DEF j
      <2>2. s \in AnySection
            BY <1>3, <2>1
      <2>3. s.type \in SectionTypes
            BY <2>2, AnySectionIs
      <2>4. f \in AnyField /\ f.width = 2 /\ f.val = s.type
            BY <2>3, FieldIs, ValueIs
      <2>5. t \in Seq(AnyField)
            <3>1. After(s, 0) \in Seq(AnyField)
                  BY <2>2, FieldsTyped
            <3>2. Left(flight, j) \in Seq(AnyField)
                  BY <1>3, <2>1, LeftIs
            <3> QED BY <3>1, <3>2, ConcatProperties
      <2>6. stream = <<f>> \o t
            BY <1>1, <1>3, <2>1, LeftIs
      <2> HIDE DEF f, t
      <2>7. /\ stream' = t /\ ready' \in Nat /\ ready' <= Bytes(t)
            /\ Advance(Append(vals, f.val))
            /\ UNCHANGED <<protocol, closed, how>>
            <3>1. Wanted = f.width
                  BY <1>2, <2>4
            <3> QED BY <1>4, <2>4, <2>5, <2>6, <3>1, Consumed
      <2> DEFINE v == Append(vals, f.val)
      <2>8. Len(v) = 1 /\ v[1] = s.type
            BY <1>2, <2>4
      <2>9. Advance(v)
            BY <2>7
      <2> HIDE DEF v
      <2>10. vals' = <<>> /\ NextPart(v)
             BY <1>2, <2>8, <2>9 DEF Advance
      <2>11. s.type # "NONEXT"
             BY <2>3 DEF SectionTypes
      <2>12. part' = s.type /\ UNCHANGED <<msg, flight, received>>
             <3> HIDE DEF s
             <3> QED BY <1>2, <2>8, <2>10, <2>11 DEF NextPart
      <2>13. Within(j, 0)'
             <3>1. Got(j - 1)'
                   BY <1>1, <2>1, <2>12 DEF Got
             <3>2. vals' = Values(s, 0)
                   BY <2>10, NoValues
             <3> QED BY <2>7, <2>12, <3>1, <3>2 DEF Within, t
      <2>14. 0 \in 0..(Len(Plan(s)) - 1)
             <3>1. Len(Plan(s)) \in Nat \ {0}
                   BY <2>2, SectionFields
             <3> QED BY <3>1
      <2>15. InSection'
             BY <2>1, <2>12, <2>13, <2>14 DEF InSection
      <2>16. Arrived' /\ Whole'
             BY <2>7, <2>12 DEF Arrived, Whole, MsgInv
      <2> QED BY <2>7, <2>12, <2>15, <2>16 DEF Place
<1> QED BY <1>5, <1>6

LEMMA ReadWithin ==
    ASSUME MsgInv, ReadField, flight \in Sent[protocol], InSection
    PROVE  Place' /\ Arrived' /\ UNCHANGED <<protocol, flight, received, how>>
<1>1. PICK i \in 1..Len(flight.sections) :
          \E k \in 0..(Len(Plan(flight.sections[i])) - 1) : Within(i, k)
      BY DEF InSection
<1> DEFINE s == flight.sections[i]
<1>2. PICK k \in 0..(Len(Plan(s)) - 1) : Within(i, k)
      BY <1>1
<1> DEFINE f == Plan(s)[k + 1]
           t == After(s, k + 1) \o Left(flight, i)
<1>3. /\ s \in AnySection /\ f \in AnyField /\ t \in Seq(AnyField)
      /\ Wanted = f.width /\ Append(vals, f.val) = Values(s, k + 1)
      /\ f.width > 0 => stream = <<f>> \o t
      BY <1>2, WithinNext
<1>4. how = "aligned" /\ Wanted > 0 /\ ready \in Nat /\ ready <= Bytes(stream)
      BY DEF MsgInv, Arrived, ReadField
<1> HIDE DEF f, t
<1>5. /\ stream' = t /\ ready' \in Nat /\ ready' <= Bytes(t)
      /\ Advance(Append(vals, f.val))
      /\ UNCHANGED <<protocol, closed, how>>
      <2>1. stream = <<f>> \o t
            BY <1>3, <1>4
      <2> QED BY <1>3, <1>4, <2>1, Consumed
<1>6. Advance(Values(s, k + 1)) /\ stream' = After(s, k + 1) \o Left(flight, i)
      BY <1>3, <1>5 DEF t
<1>7. flight' = flight /\ received' = received /\ Place'
      BY <1>2, <1>5, <1>6, AdvanceWithin
<1>8. Arrived'
      BY <1>5 DEF Arrived
<1> QED BY <1>5, <1>7, <1>8

LEMMA ReadFieldKeeps ==
    ASSUME MsgInv, ReadField
    PROVE  MsgInv'
<1>1. how = "aligned" /\ Place
      BY DEF MsgInv, ReadField
<1>2. ASSUME Place', Arrived', Whole', UNCHANGED <<protocol, how>> PROVE MsgInv'
      BY <1>1, <1>2 DEF MsgInv, Lost
<1>3. ASSUME UNCHANGED <<protocol, received>> PROVE Whole'
      BY <1>3 DEF MsgInv, Whole
<1>4. CASE Idle
      BY <1>4, ReadIdle
<1>5. CASE flight \in Sent[protocol] /\ InHeader
      BY <1>2, <1>3, <1>5, ReadHeader
<1>6. CASE flight \in Sent[protocol] /\ Between
      BY <1>2, <1>6, ReadBetween
<1>7. CASE flight \in Sent[protocol] /\ InSection
      BY <1>2, <1>3, <1>7, ReadWithin
<1> QED BY <1>1, <1>4, <1>5, <1>6, <1>7 DEF Place

\* Where a read of no bytes can come.
LEMMA NothingWanted ==
    ASSUME MsgInv, how = "aligned", Wanted = 0
    PROVE  flight \in Sent[protocol] /\ InSection
<1>1. CASE Idle
      <2>1. vals = IdValues(0) /\ 0 \in 0..IdCount(protocol) /\ part = "header"
            BY <1>1 DEF IdValues, IdCount, Idle
      <2>2. Wanted = 2
            BY <2>1, HeaderReads
      <2> QED BY <2>2
<1>2. CASE InHeader
      <2>1. PICK k \in 0..IdCount(protocol) : vals = IdValues(k)
            BY <1>2 DEF InHeader
      <2>2. part = "header"
            BY <1>2 DEF InHeader
      <2>3. Wanted = 2
            BY <2>1, <2>2, HeaderReads
      <2> QED BY <2>3
<1>3. CASE Between
      BY <1>3, NextReads DEF Between
<1> QED BY <1>1, <1>2, <1>3 DEF MsgInv, Place

LEMMA SkipTextKeeps ==
    ASSUME MsgInv, SkipText
    PROVE  MsgInv'
<1>1. /\ how = "aligned" /\ part \in {"STRING", "BINARY"} /\ Wanted = 0
      /\ Advance(Append(vals, <<>>))
      /\ UNCHANGED <<protocol, stream, ready, closed, how>>
      BY DEF SkipText, Skipped
<1>2. flight \in Sent[protocol] /\ InSection
      BY <1>1, NothingWanted
<1>3. PICK i \in 1..Len(flight.sections) :
          \E k \in 0..(Len(Plan(flight.sections[i])) - 1) : Within(i, k)
      BY <1>2 DEF InSection
<1> DEFINE s == flight.sections[i]
<1>4. PICK k \in 0..(Len(Plan(s)) - 1) : Within(i, k)
      BY <1>3
<1> DEFINE f == Plan(s)[k + 1]
           t == After(s, k + 1) \o Left(flight, i)
<1>5. /\ Wanted = f.width /\ Append(vals, f.val) = Values(s, k + 1)
      /\ f.width = 0 => (SkippedText(s, k) /\ f.val = <<>> /\ stream = t) \/ EmptyFile(s)
      BY <1>2, <1>4, WithinNext
<1>6. part = s.type
      BY <1>4 DEF Within
<1>7. ~EmptyFile(s)
      BY <1>1, <1>6 DEF EmptyFile
<1> HIDE DEF f, t
<1>8. f.val = <<>> /\ stream' = t /\ Advance(Values(s, k + 1))
      BY <1>1, <1>5, <1>7
<1>9. stream' = After(s, k + 1) \o Left(flight, i)
      BY <1>8 DEF t
<1>10. flight' = flight /\ received' = received /\ Place'
       BY <1>1, <1>2, <1>4, <1>8, <1>9, AdvanceWithin
<1>11. Arrived'
       <2>1. Bytes(stream)' = Bytes(stream)
             BY <1>1
       <2> QED BY <1>1, <2>1 DEF MsgInv, Arrived
<1> QED BY <1>1, <1>10, <1>11 DEF MsgInv, Whole, Lost

LEMMA ReadNothingKeeps ==
    ASSUME MsgInv, ReadNothing
    PROVE  MsgInv'
<1>1. /\ how = "aligned" /\ Wanted = 0 /\ ~Skipped /\ how' = "gaveup"
      /\ UNCHANGED <<protocol, flight, received>>
      BY DEF ReadNothing
<1>2. flight \in Sent[protocol] /\ InSection
      BY <1>1, NothingWanted
<1>3. PICK i \in 1..Len(flight.sections) :
          \E k \in 0..(Len(Plan(flight.sections[i])) - 1) : Within(i, k)
      BY <1>2 DEF InSection
<1> DEFINE s == flight.sections[i]
<1>4. PICK k \in 0..(Len(Plan(s)) - 1) : Within(i, k)
      BY <1>3
<1>5. SkippedText(s, k) \/ EmptyFile(s)
      BY <1>1, <1>2, <1>4, WithinNext
<1>6. part = s.type
      BY <1>4 DEF Within
<1>7. EmptyFile(s)
      BY <1>1, <1>5, <1>6 DEF SkippedText, Skipped
<1>8. EmptyName(flight)
      BY <1>7 DEF EmptyFile, EmptyName
<1> QED BY <1>1, <1>8 DEF MsgInv, Whole, Lost

LEMMA NextKeeps == MsgInv /\ [MsgNext]_msgvars => MsgInv'
<1> SUFFICES ASSUME MsgInv, [MsgNext]_msgvars PROVE MsgInv'
    OBVIOUS
<1>1. ASSUME NEW m \in Sent[protocol], Send(m) PROVE MsgInv'
      BY <1>1, SendKeeps
<1>2. CASE Arrive
      BY <1>2, ArriveKeeps
<1>3. CASE Close
      BY <1>3, CloseKeeps
<1>4. CASE ReadField
      BY <1>4, ReadFieldKeeps
<1>5. CASE SkipText
      BY <1>5, SkipTextKeeps
<1>6. CASE ReadShort
      BY <1>6 DEF ReadShort, MsgInv, Whole, Lost
<1>7. CASE ReadNothing
      BY <1>7, ReadNothingKeeps
<1>8. CASE ReadEnd
      BY <1>8 DEF ReadEnd, MsgInv, Whole, Lost
<1>9. CASE UNCHANGED msgvars
      <2>1. UNCHANGED <<protocol, flight, stream, ready, part, vals, msg, how, received>>
            BY <1>9 DEF msgvars
      <2>2. Place => Place'
            BY <2>1, PlaceSame
      <2>3. Arrived => Arrived'
            <3>1. Bytes(stream)' = Bytes(stream)
                  BY <2>1
            <3> QED BY <2>1, <3>1 DEF Arrived
      <2> QED BY <2>1, <2>2, <2>3 DEF MsgInv, Whole, Lost
<1> QED BY <1>1, <1>2, <1>3, <1>4, <1>5, <1>6, <1>7, <1>8, <1>9 DEF MsgNext, Read

\* In every state the reader knows which field comes next and what it is part
\* of, unless a read has fallen short, an empty name has been read, or the
\* sender is gone: what the whole of fsmsg_from_socket relies on.
THEOREM MsgInvHolds == MsgSpec => []MsgInv
<1> QED BY InitHolds, NextKeeps, PTL DEF MsgSpec

-----------------------------------------------------------------------------
(* The properties.                                                           *)

\* fsmsg_from_socket returns the message fsmsg_send was given, and never a
\* part of it or one made of two.
THEOREM ReceivedIsSentHolds == MsgSpec => []ReceivedIsSent
<1>1. MsgInv => ReceivedIsSent
      BY DEF MsgInv, Whole, ReceivedIsSent, NothingReceived
<1> QED BY <1>1, MsgInvHolds, PTL

\* Writer and reader agree on every field: the reader never asks for more or
\* less than the field has, and gives up only a message with an empty name.
THEOREM LostOnlyByHolds == MsgSpec => []LostOnlyBy
<1>1. MsgInv => LostOnlyBy
      BY DEF MsgInv, Lost, LostOnlyBy
<1> QED BY <1>1, MsgInvHolds, PTL

\* Each message that arrives passes the check of its sections, which follows
\* no null pointer (fap_validate_sections, dcp_validate_sections).
THEOREM AcceptedHolds == MsgSpec => []Accepted
<1>1. MsgInv => Accepted
      <2> SUFFICES ASSUME MsgInv, protocol # "FCTP", received # NothingReceived,
                          ~(protocol = "DCP" /\ received.got.type = "ERROR")
                   PROVE  ValidateSections(protocol, received.got) = "VALID"
          BY DEF Accepted
      <2>1. protocol \in {"FAP", "DCP"} /\ received.got \in Sent[protocol]
            BY DEF MsgInv, Whole
      <2> QED BY <2>1, SentIsValid
<1> QED BY <1>1, MsgInvHolds, PTL
=============================================================================
