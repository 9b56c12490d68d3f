------------------------------ MODULE Namespace ------------------------------
(* What the directory promises the file servers about names: a create adds a *)
(* free name to the listing and fails for a taken one, a list returns the    *)
(* listing, and each happens at one instant between the call and its return. *)
(* Locks, threads and the shape of the tree do not appear.                   *)
EXTENDS Sequences

CONSTANTS Callers, FileNames

VARIABLES
    listing,    \* the names, oldest first
    call,       \* the call of each caller: idle, pending or done
    gone        \* the callers that left, whose results nobody reads

nvars == <<listing, call, gone>>

Idle                == [status |-> "idle"]
Pending(op, name)   == [status |-> "pending", op |-> op, name |-> name]
Done(outcome, seen) == [status |-> "done", outcome |-> outcome, seen |-> seen]

Listed == {listing[k] : k \in DOMAIN listing}

NInit ==
    /\ listing = <<>>
    /\ call = [c \in Callers |-> Idle]
    /\ gone = {}

Invoke(c) ==
    /\ c \notin gone
    /\ call[c] = Idle
    /\ \/ call' = [call EXCEPT ![c] = Pending("list", "all")]
       \/ \E name \in FileNames : call' = [call EXCEPT ![c] = Pending("create", name)]
    /\ UNCHANGED <<listing, gone>>

Create(c, name) ==
    /\ call[c] = Pending("create", name)
    /\ name \notin Listed
    /\ listing' = Append(listing, name)
    /\ call' = [call EXCEPT ![c] = Done("ok", <<name>>)]
    /\ UNCHANGED gone

CreateTaken(c, name) ==
    /\ call[c] = Pending("create", name)
    /\ name \in Listed
    /\ call' = [call EXCEPT ![c] = Done("exists", <<>>)]
    /\ UNCHANGED <<listing, gone>>

List(c) ==
    /\ call[c] = Pending("list", "all")
    /\ call' = [call EXCEPT ![c] = Done("ok", listing)]
    /\ UNCHANGED <<listing, gone>>

Return(c) ==
    /\ call[c].status = "done"
    /\ call' = [call EXCEPT ![c] = Idle]
    /\ UNCHANGED <<listing, gone>>

Leave(c) ==
    /\ c \notin gone
    /\ gone' = gone \cup {c}
    /\ \/ UNCHANGED call
       \/ call[c].status = "done" /\ call' = [call EXCEPT ![c] = Idle]
    /\ UNCHANGED listing

\* A call of a caller that left may still take effect, or just end.
Discard(c) ==
    /\ c \in gone
    /\ call[c] # Idle
    /\ call' = [call EXCEPT ![c] = Idle]
    /\ UNCHANGED <<listing, gone>>

NNext ==
    \E c \in Callers :
        \/ Invoke(c) \/ List(c) \/ Return(c) \/ Leave(c) \/ Discard(c)
        \/ \E name \in FileNames : Create(c, name) \/ CreateTaken(c, name)

NSpec == NInit /\ [][NNext]_nvars
==============================================================================
