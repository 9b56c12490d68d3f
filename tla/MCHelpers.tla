------------------------------ MODULE MCHelpers ------------------------------
(* The parts of the programs that run in one thread without looking at any    *)
(* other: the message codec (ProtoMsg), paths in the directory's tree         *)
(* (DirTree) and the configuration reader (Config).  They share nothing, so   *)
(* a behaviour is one of one of them.                                         *)
EXTENDS ProtoMsg, DirTree, Config

CONSTANT MaxPieces

VARIABLE subject

\* A text of one character, of two, and paths of up to three levels, some of
\* them with more slashes than needed.
MCTexts == {<<1>>, <<1, 2>>}
MCPaths ==
    {<<"a">>, <<"b">>, <<"a", "b">>, <<"b", "a">>, <<"a", "b", "a">>,
     <<"a", "">>, <<"", "b">>, <<"a", "b", "">>, <<"">>}

\* Lines of all kinds, the last two without a line end.
MCParams == {"a", "b"}
Pieces ==
    {<<"#", "a", " ", "x", "\n">>, <<"\n">>, <<"c", " ", "v", "\n">>,
     <<"a", " ", "v", "\n">>, <<"b", " ", "w", "x", "\n">>, <<" ", "a", " ", " ", "x", "\n">>,
     <<"a", " ", "\n">>, <<"b", "\n">>, <<"b", " ", "v", "v", "v", "v", "\n">>,
     <<"b", " ", "x">>, <<"b", " ", "v", "v", "v">>}
MCFiles == {FlattenSeq(f) : f \in UNION {[1..n -> Pieces] : n \in 0..MaxPieces}}

allvars == <<subject, msgvars, treevars, confvars>>

\* The parts that a behaviour is not about stay in one of their initial states.
Init ==
    /\ subject \in {"message", "tree", "config"}
    /\ MsgInit /\ TreeInit /\ ConfInit
    /\ subject # "message" => protocol = "FAP"
    /\ subject # "config"  => file = <<>>

Next ==
    \/ subject = "message" /\ MsgNext /\ UNCHANGED <<subject, treevars, confvars>>
    \/ subject = "tree"    /\ TreeNext /\ UNCHANGED <<subject, msgvars, confvars>>
    \/ subject = "config"  /\ ConfNext /\ UNCHANGED <<subject, msgvars, treevars>>

Spec == Init /\ [][Next]_allvars /\ MsgFairness
==============================================================================
