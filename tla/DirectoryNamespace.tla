-------------------------- MODULE DirectoryNamespace --------------------------
(* The refinement mapping under which Directory, when no file server sends   *)
(* UPDATE, implements Namespace: READ is list, CREATE is create.             *)
EXTENDS Directory

\* The threads between reading the request of connection c and answering it.
Serving(c) == {i \in Slots : fileservers[i].sd = c /\ pc[i] \in LockPcs \cup CriticalPcs}

IdleCall            == [status |-> "idle"]
PendingCall(r)      ==
    CASE r.kind = "CREATE" -> [status |-> "pending", op |-> "create", name |-> r.path]
      [] r.kind = "READ"   -> [status |-> "pending", op |-> "list", name |-> "all"]
      [] OTHER             -> IdleCall
DoneCall(outcome, seen) == [status |-> "done", outcome |-> outcome, seen |-> seen]

\* A create takes effect when the node is linked (add_child), a list when the
\* names are copied.
CallOf(c) ==
    IF rep[c].kind = "FILEINFO" THEN DoneCall("ok", rep[c].names)
    ELSE IF rep[c].errn = "EXISTS" THEN DoneCall("exists", <<>>)
    ELSE IF \E i \in Serving(c) : pc[i] = "createOwn"
         THEN LET i == CHOOSE i \in Serving(c) : TRUE
              IN  DoneCall("ok", <<msg[i].path>>)
    ELSE IF Serving(c) # {} THEN PendingCall(msg[CHOOSE i \in Serving(c) : TRUE])
    ELSE PendingCall(req[c])

NS == INSTANCE Namespace WITH
          Callers   <- Conns,
          FileNames <- Names,
          listing   <- ChildNames(Root),
          call      <- [c \in Conns |-> CallOf(c)],
          gone      <- {c \in Conns : link[c] = "dead"}

\* Every behaviour without UPDATE is one of the namespace service: concurrent
\* CREATE and READ requests behave as if each ran alone at one instant
\* (create_file, read_dir), also when their senders die while they run.
ImplementsNamespace == NS!NSpec
==============================================================================
