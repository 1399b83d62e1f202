---------------------------- MODULE GamepadDevice ----------------------------
(***************************************************************************)
(* What the simulator promises of the gamepad of an instance, without       *)
(* saying how it is kept: one call of create() or destroy() at a time; a    *)
(* holder takes the device in a create(), when nobody has it, and once; the *)
(* record is not taken from the holder that has the device; and no call     *)
(* ends before the record names it.  GamepadHolder implements it.           *)
(***************************************************************************)
CONSTANTS Clients, Holders, None

VARIABLES
    owner,      \* the client in create() or destroy()
    call,       \* which of the two it is in
    running,    \* the holders that have the device
    past,       \* the holders that had it
    record      \* the holder one would be told of

vars == <<owner, call, running, past, record>>

Init ==
    /\ owner = None
    /\ call = "none"
    /\ running = {}
    /\ past = {}
    /\ record = None

Enter(c) ==
    /\ owner = None
    /\ owner' = c
    /\ call' \in {"create", "destroy"}
    /\ UNCHANGED <<running, past, record>>

Attach(h) ==
    /\ call = "create"
    /\ running = {}
    /\ h \notin past
    /\ record = None
    /\ running' = {h}
    /\ UNCHANGED <<owner, call, past, record>>

Publish(h) ==
    /\ owner # None
    /\ h \in running
    /\ record = None
    /\ record' = h
    /\ UNCHANGED <<owner, call, running, past>>

\* A holder may end at any time, whoever wants it or nobody.
Detach(h) ==
    /\ h \in running
    /\ running' = running \ {h}
    /\ past' = past \cup {h}
    /\ UNCHANGED <<owner, call, record>>

Withdraw ==
    /\ running = {}
    /\ record' = None
    /\ UNCHANGED <<owner, call, running, past>>

\* A call may take the record away as it ends.
Leave ==
    /\ owner # None
    /\ \A h \in running : record = h
    /\ owner' = None
    /\ call' = "none"
    /\ \/ record' = record
       \/ running = {} /\ record' = None
    /\ UNCHANGED <<running, past>>

Next ==
    \/ \E c \in Clients : Enter(c)
    \/ \E h \in Holders : Attach(h) \/ Publish(h) \/ Detach(h)
    \/ Withdraw \/ Leave

Spec == Init /\ [][Next]_vars

=============================================================================
