-------------------------- MODULE CallbackContract --------------------------
(***************************************************************************)
(* What the library promises to the code that uses one connection: which   *)
(* callbacks of TcpServiceBase (or UdpServiceBase) it may make, one at a   *)
(* time, and in which order.  A connection attempt is either answered with *)
(* the connection (on_connect or on_accept) or with a null pointer; an     *)
(* open connection gets on_recv and on_send until on_close; a callback     *)
(* that rejects the connection is the last one that is handed data.        *)
(*                                                                         *)
(* MaxLate is how many on_recv and how many on_send callbacks may still    *)
(* arrive after on_close.  readme.md promises 0; the code keeps to 1.      *)
(***************************************************************************)
EXTENDS Naturals

CONSTANT MaxLate

VARIABLES
    phase,      \* "new", "open", "closed" or "failed"
    active,     \* the callback that is running, "none" between two of them
    late,       \* how many data callbacks began after on_close, by name
    deaf        \* the user refused the connection, or what it received

vars == <<phase, active, late, deaf>>

DataCallbacks == {"on_recv", "on_send"}
Introductions == {"on_connect", "on_accept"}
Callbacks == DataCallbacks \cup Introductions \cup {"connect_failed", "on_close"}

TypeOK ==
    /\ phase \in {"new", "open", "closed", "failed"}
    /\ active \in Callbacks \cup {"none"}
    /\ late \in [DataCallbacks -> 0..MaxLate]
    /\ deaf \in BOOLEAN

Init ==
    /\ phase = "new"
    /\ active = "none"
    /\ late = [c \in DataCallbacks |-> 0]
    /\ deaf = FALSE

\* The user is handed the connection.
Introduce(c) ==
    /\ active = "none"
    /\ phase = "new"
    /\ phase' = "open"
    /\ active' = c
    /\ UNCHANGED <<late, deaf>>

\* The user is told that there will be no connection.
Refuse ==
    /\ active = "none"
    /\ phase = "new"
    /\ phase' = "failed"
    /\ active' = "connect_failed"
    /\ UNCHANGED <<late, deaf>>

Deliver(c) ==
    /\ active = "none"
    /\ phase = "open" \/ (phase = "closed" /\ late[c] < MaxLate)
    /\ c = "on_recv" => ~deaf
    /\ late' = IF phase = "open" THEN late ELSE [late EXCEPT ![c] = @ + 1]
    /\ active' = c
    /\ UNCHANGED <<phase, deaf>>

Close ==
    /\ active = "none"
    /\ phase = "open"
    /\ phase' = "closed"
    /\ active' = "on_close"
    /\ UNCHANGED <<late, deaf>>

Return ==
    /\ active # "none"
    /\ active' = "none"
    /\ deaf' \in IF active \in Introductions \cup {"on_recv"}
                 THEN {deaf, TRUE} ELSE {deaf}
    /\ UNCHANGED <<phase, late>>

Next ==
    \/ \E c \in Introductions : Introduce(c)
    \/ Refuse
    \/ \E c \in DataCallbacks : Deliver(c)
    \/ Close
    \/ Return

Spec == Init /\ [][Next]_vars

=============================================================================
