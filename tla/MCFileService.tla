---------------------------- MODULE MCFileService ----------------------------
(* Small instances of FileService.                                           *)
EXTENDS FileService

\* The users of one server name two files and no file, those of the other
\* only the file that both can name.
MCPaths   == {"a", "b"}
MCEntered == <<{"a", "b", Slash}, {"a"}>>

\* One file that the users of both servers name.
MCOnePath    == {"a"}
MCOneEntered == [s \in Servers |-> {"a"}]
==============================================================================
