-------------------------------- MODULE Config --------------------------------
(* Reading a configuration file: readline and read_config of src/util.c.  The *)
(* same buffer takes one line after the other and is never cleared, and       *)
(* strtok works on it without knowing where the line ends.                    *)
EXTENDS Naturals, Sequences, FiniteSets, Functions, Tables

CONSTANTS
    Files,          \* the files, as sequences of characters
    Params,         \* the registered names; a name is one character
    MaxLine         \* MAX_LINE

Newline == "\n"
Blank   == " "      \* a tab is the same
Nul     == "0"      \* what strtok puts at the end of a token
Unset   == "?"      \* what the buffer holds before anything is read

ParamsAssumption ==
    IsFiniteSet(Params) /\ Params \cap {Newline, Blank, Nul, Unset, "#"} = {}
MaxLineAssumption == MaxLine \in Nat \ {0}

\* The files are text.
FilesAreText ==
    \A f \in Files : f \in Seq(STRING) /\ Range(f) \cap {Nul, Unset} = {}

ASSUME ConfAssumptions == ParamsAssumption /\ MaxLineAssumption /\ FilesAreText

VARIABLES
    file,
    rest,           \* what has not been read of it
    buffer,         \* linebuffer
    value,          \* *cur->value of each parameter
    found,          \* i: the parameter lines so far
    pc

confvars == <<file, rest, buffer, value, found, pc>>

NoValue == <<>>

ConfInit ==
    /\ file \in Files
    /\ rest = file
    /\ buffer = [i \in 1..MaxLine |-> Unset]
    /\ value = [p \in Params |-> NoValue]
    /\ found = 0
    /\ pc = "reading"

-----------------------------------------------------------------------------
(* readline                                                                  *)

\* The first position from i on with a character of the given kind, or the
\* one after the last.
First(s, i, kinds) == Smallest({j \in i..Len(s) : s[j] \in kinds} \cup {Len(s) + 1})

\* The first with a character of any other kind.
FirstOther(s, i, kinds) ==
    Smallest({j \in i..Len(s) : s[j] \notin kinds} \cup {Len(s) + 1})

Overwritten(chars) ==
    [i \in 1..MaxLine |-> IF i <= Len(chars) THEN chars[i] ELSE buffer[i]]

Line(len, chars) ==
    [len |-> len, buffer |-> Overwritten(chars),
     rest |-> SubSeq(rest, Len(chars) + 1, Len(rest))]

\* Faulty: a last line without a line end is returned as it is.
ReadLineRaw ==
    LET end == First(rest, 1, {Newline})
        len == IF end <= Len(rest) THEN end ELSE Len(rest)
    IN  CASE rest = <<>>   -> Line(0, <<>>)
          [] end > MaxLine -> Line(0, SubSeq(rest, 1, MaxLine))
          [] OTHER         -> Line(len, SubSeq(rest, 1, len))

\* A last line without a line end gets one.  A line that does not fit in the
\* buffer is the end of the file.
ReadLine ==
    LET end == First(rest, 1, {Newline}) IN
    CASE rest = <<>>   -> Line(0, <<>>)
      [] end > MaxLine -> Line(0, SubSeq(rest, 1, MaxLine))
      [] OTHER         -> Line(end, IF end <= Len(rest) THEN SubSeq(rest, 1, end)
                                    ELSE Append(rest, Newline))

-----------------------------------------------------------------------------
(* read_config                                                               *)

\* strtok(linebuffer, "\t "): where the first token starts and ends.
Start(b) == FirstOther(b, 1, {Blank})
End(b)   == First(b, Start(b), {Blank, Nul})
Token(b) == SubSeq(b, Start(b), End(b) - 1)

Cut(b, i) == IF i \in 1..MaxLine THEN [b EXCEPT ![i] = Nul] ELSE b

\* strtok(NULL, "\n"): the value runs to the end of the line.  If there is
\* nothing before the end of the line, it is what older lines have left in
\* the buffer behind it.
ValueStart(b) == FirstOther(b, End(b) + 1, {Newline})
ValueEnd(b)   == First(b, ValueStart(b), {Newline, Nul})
Value(b)      == SubSeq(b, ValueStart(b), ValueEnd(b) - 1)

\* Past what was ever written anything may stand, the end of a text included.
Undefined(b)  == ValueEnd(b) > MaxLine \/ Unset \in Range(Value(b))

IsComment(b) == b[1] = "#"
Named(b)     == {p \in Params : Token(b) = <<p>>}

\* Faulty: too few parameters go unnoticed.
FewFound == found <= Cardinality(Params)

AllFound == found = Cardinality(Params)

\* The end of the file, or a line that is too long.
Finish ==
    /\ pc = "reading"
    /\ ReadLine.len = 0
    /\ pc' = IF AllFound THEN "done" ELSE "exit"
    /\ rest' = ReadLine.rest
    /\ buffer' = ReadLine.buffer
    /\ UNCHANGED <<file, value, found>>

\* A comment, an empty line, an unknown name, or a name and nothing else.
SkipLine ==
    LET b == ReadLine.buffer IN
    /\ pc = "reading"
    /\ ReadLine.len > 0
    /\ IsComment(b) \/ Named(b) = {}
    /\ rest' = ReadLine.rest
    /\ buffer' = IF IsComment(b) THEN b ELSE Cut(b, End(b))
    /\ UNCHANGED <<file, value, found, pc>>

SetParam ==
    LET b == ReadLine.buffer IN
    /\ pc = "reading"
    /\ ReadLine.len > 0
    /\ ~IsComment(b)
    /\ \E p \in Named(b) :
           \/ /\ Value(b) # <<>>
              /\ value' = [value EXCEPT ![p] = Value(b)]
              /\ UNCHANGED pc
           \/ /\ Value(b) = <<>> \/ Undefined(b)
              /\ pc' = "crash"         \* strdup of NULL
              /\ UNCHANGED value
    /\ found' = found + 1
    /\ rest' = ReadLine.rest
    /\ buffer' = Cut(Cut(b, End(b)), ValueEnd(b))
    /\ UNCHANGED file

ConfNext == Finish \/ SkipLine \/ SetParam

ConfSpec == ConfInit /\ [][ConfNext]_confvars

-----------------------------------------------------------------------------
(* Properties.                                                               *)

\* Where the lines of a file start, and the line that starts there, without
\* its end and the blanks before it.
Starts(s)    == {i \in 1..Len(s) : i = 1 \/ s[i - 1] = Newline}
LineAt(s, i) == SubSeq(s, FirstOther(s, i, {Blank}), First(s, i, {Newline}) - 1)

\* The lines that name p, with a value after the name or none.
Names(s, p) == {i \in Starts(s) : \E v \in {LineAt(s, i)} :
                    Len(v) >= 2 /\ v[1] = p /\ v[2] = Blank}
Bare(s, p)  == {i \in Names(s, p) : Len(LineAt(s, i)) = 2}
Given(s, p) == {SubSeq(LineAt(s, i), 3, Len(LineAt(s, i))) : i \in Names(s, p) \ Bare(s, p)}

Seen == SubSeq(file, 1, Len(file) - Len(rest))

\* A parameter has a value that some line read so far gives it, and not a
\* piece of another line, unless a line names it and gives no value.
ValueIsOwn ==
    \A p \in Params :
        value[p] # NoValue => value[p] \in Given(Seen, p) \/ Bare(Seen, p) # {}

\* A file that gives every parameter once, in lines that fit, is accepted,
\* whatever comments, empty lines and unknown names are in it.
WellFormed ==
    /\ \A i \in Starts(file) : First(file, i, {Newline}) - i < MaxLine
    /\ \A p \in Params : Cardinality(Names(file, p)) = 1 /\ Bare(file, p) = {}

WellFormedAccepted ==
    WellFormed => /\ pc \notin {"exit", "crash"}
                  /\ pc = "done" => \A p \in Params : value[p] \in Given(file, p)

\* The programs start without a parameter only if another one is there twice:
\* the parameter lines are counted, not the parameters.
CompleteUnlessRepeated ==
    pc = "done" /\ (\E p \in Params : value[p] = NoValue) =>
        \E p \in Params : Cardinality(Names(file, p)) > 1
==============================================================================
