----------------------------- MODULE MCDirectory -----------------------------
(* Small instances of Directory.  The names of files are interchangeable.    *)
EXTENDS DirectoryNamespace, TLC

NameSymmetry == Permutations(Names)
==============================================================================
