---------------------------- MODULE GamepadHolder ----------------------------
(***************************************************************************)
(* The lifecycle of one simulated gamepad: pf_sim/gamepad.py.              *)
(*                                                                         *)
(* Any number of client processes call create(), destroy(), status() and   *)
(* request() on one instance.  create() spawns a holder process, which     *)
(* publishes gamepad.json and serves gamepad.sock until it is told to quit,*)
(* is signalled, or fails.  create() and destroy() hold an flock; status() *)
(* and request() do not, and the holder takes no lock at all.              *)
(*                                                                         *)
(* A member of Holders stands for one spawn: its token, its start time and *)
(* (with pidOf) its PID.  A client that stops waiting, by a timeout or by  *)
(* dying, leaves its connection behind in the holder's backlog.            *)
(***************************************************************************)
EXTENDS Naturals, Sequences, FiniteSets

CONSTANTS
    Clients,            \* processes that call the functions of gamepad.py
    Runners,            \* the clients that live on after a call (matrix, scenario)
    Holders,            \* spawns of the holder, each with a fresh token
    Pids,
    Backlog,            \* server.listen(4)
    MaxCrashes,         \* bound on clients killed during a call
    RecycleInWindow,    \* may a PID be reused between a /proc read and os.kill?
    None, Foreign, Torn

ASSUME ConstantsAssumption ==
    /\ Runners \subseteq Clients
    /\ Backlog \in Nat
    /\ MaxCrashes \in Nat
    /\ RecycleInWindow \in BOOLEAN
    /\ {None, Foreign, Torn} \cap Holders = {}
    /\ None \notin Clients
    /\ None \notin Pids
    /\ None # Foreign
    /\ None # Torn

VARIABLES
    lock,       \* owner of the flock on gamepad.lock
    sock,       \* the holder whose socket is bound at gamepad.sock
    state,      \* gamepad.json: no file, a torn file, or the holder it names
    node,       \* does input.fifo (the event node) exist?
    hpc,        \* where each holder is in hold()
    pidOf,      \* the PID a holder was given
    parent,     \* the client a holder is still a child of
    occupant,   \* the process table: who has each PID
    queue,      \* connections a holder has not yet answered
    cpc,        \* where each client is
    op,         \* the call a client is in
    cont,       \* what _stop_recorded_holder returns to
    target,     \* the state dictionary a client works on
    child,      \* the holder a create() spawned
    answer,     \* the token in the response a client received
    outcome,    \* what a client's call returned or raised
    crashes     \* clients killed during a call so far

files == <<sock, state, node>>
table == <<hpc, pidOf, parent, occupant>>
locals == <<op, cont, target, child>>
vars == <<lock, files, table, queue, cpc, locals, answer, outcome, crashes>>

Ops == {"create", "destroy", "status", "tap"}
Conts == {"replace", "fail", "destroy", "stale", "none"}

TimedButForQuit == {"asked", "polled", "tapping"}

Waiting == {"asked", "polled", "quitting", "tapping"}
Kinds == {"status", "quit", "tap"}
Outcomes == {"none", "up", "degraded", "absent", "failed", "would_not_stop",
             "destroyed", "stale_cleaned", "ok", "error"}
ClientPcs == {"idle", "lock", "check", "read", "quit", "recheck", "kill",
              "waitdead", "clear", "spawn", "poll", "access", "tap", "exit"}
             \cup Waiting
HolderPcs == {"free", "init", "bind", "publish", "write", "serve",
              "close", "close_state", "close_fifo", "zombie", "dead"}
Requests == [from : Clients, kind : Kinds, open : BOOLEAN]

-----------------------------------------------------------------------------
(* Processes and files.                                                    *)

\* Running hold() and not on its way out.
Live(h) == hpc[h] \in {"init", "bind", "publish", "write", "serve"}

Running(h) == hpc[h] \notin {"free", "zombie", "dead"}

Listening(h) == hpc[h] \in {"publish", "write", "serve"}

\* proc_start(pid) of the recorded PID is the recorded start time.  A zombie
\* still has its /proc entry.
IdentityMatches(h) == occupant[pidOf[h]] = h

\* os.kill(pid, 0) asks about the PID, whoever has it now.
Alive(h) == occupant[pidOf[h]] # None

\* A process whose parent has not waited for it stays in the process table.
Die(h) ==
    /\ hpc' = [hpc EXCEPT ![h] = IF parent[h] = None THEN "dead" ELSE "zombie"]
    /\ occupant' = IF parent[h] = None
                   THEN [occupant EXCEPT ![pidOf[h]] = None] ELSE occupant
    /\ queue' = [queue EXCEPT ![h] = <<>>]
    /\ UNCHANGED <<pidOf, parent>>

\* The children of a process that ends are init's, which reaps the dead ones.
Orphan(c) ==
    LET reaped == {h \in Holders : parent[h] = c /\ hpc[h] = "zombie"}
    IN  /\ parent' = [h \in Holders |-> IF parent[h] = c THEN None ELSE parent[h]]
        /\ hpc' = [h \in Holders |-> IF h \in reaped THEN "dead" ELSE hpc[h]]
        /\ occupant' = [p \in Pids |-> IF occupant[p] \in reaped
                                       THEN None ELSE occupant[p]]
        /\ UNCHANGED pidOf

-----------------------------------------------------------------------------
(* request(): one connection, one line each way.                           *)

Connectable == /\ sock \in Holders
               /\ Listening(sock)
               /\ Len(queue[sock]) < Backlog

Send(c, kind) ==
    /\ queue' = [queue EXCEPT ![sock] =
                    Append(@, [from |-> c, kind |-> kind, open |-> TRUE])]
    /\ answer' = [answer EXCEPT ![c] = None]

\* The client closes its end; what it sent is still in the holder's backlog.
HangUp(c) ==
    /\ queue' = [h \in Holders |-> [i \in DOMAIN queue[h] |->
                    IF queue[h][i].from = c
                    THEN [queue[h][i] EXCEPT !.open = FALSE] ELSE queue[h][i]]]
    /\ answer' = [answer EXCEPT ![c] = None]

-----------------------------------------------------------------------------
(* Calls.                                                                  *)

GoTo(c, pc) == cpc' = [cpc EXCEPT ![c] = pc]

\* A bound of the model: a spawn is left for each create() under way.
SpawnsLeft == Cardinality({c \in Clients : op[c] = "create" /\ cpc[c] # "idle"})
                < Cardinality({h \in Holders : hpc[h] = "free"})

Start(c, o) ==
    /\ cpc[c] = "idle"
    /\ o = "create" => SpawnsLeft
    /\ op' = [op EXCEPT ![c] = o]
    /\ GoTo(c, CASE o \in {"create", "destroy"} -> "lock"
                 [] o = "status" -> "check"
                 [] OTHER -> "tap")
    /\ UNCHANGED <<lock, files, table, queue, cont, target, child, answer,
                   outcome, crashes>>

\* Leaving the call also leaves the with-block of _lifecycle_lock.
Return(c, result) ==
    /\ outcome' = [outcome EXCEPT ![c] = result]
    /\ GoTo(c, "exit")
    /\ lock' = IF lock = c THEN None ELSE lock

Forget(c) ==
    /\ GoTo(c, "idle")
    /\ op' = [op EXCEPT ![c] = "status"]
    /\ cont' = [cont EXCEPT ![c] = "none"]
    /\ target' = [target EXCEPT ![c] = None]
    /\ child' = [child EXCEPT ![c] = None]
    /\ outcome' = [outcome EXCEPT ![c] = "none"]

\* After its call a command-line client exits, and a runner goes on.
Exit(c) ==
    /\ cpc[c] = "exit"
    /\ IF c \in Runners THEN UNCHANGED table ELSE Orphan(c)
    /\ Forget(c)
    /\ UNCHANGED <<lock, files, queue, answer, crashes>>

\* SIGKILL or Ctrl-C during a call: the kernel drops the flock, nothing is undone.
Crash(c) ==
    /\ cpc[c] \notin {"idle", "exit"}
    /\ crashes < MaxCrashes
    /\ crashes' = crashes + 1
    /\ Orphan(c)
    /\ HangUp(c)
    /\ Forget(c)
    /\ lock' = IF lock = c THEN None ELSE lock
    /\ UNCHANGED files

LockWithoutWaiting(c) ==
    /\ cpc[c] = "lock"
    /\ lock' = c
    /\ GoTo(c, IF op[c] = "create" THEN "check" ELSE "read")
    /\ UNCHANGED <<files, table, queue, locals, answer, outcome, crashes>>

Lock(c) ==
    /\ cpc[c] = "lock"
    /\ lock = None
    /\ lock' = c
    /\ GoTo(c, IF op[c] = "create" THEN "check" ELSE "read")
    /\ UNCHANGED <<files, table, queue, locals, answer, outcome, crashes>>

-----------------------------------------------------------------------------
(* status(): read gamepad.json, then ask the socket who is there.          *)

\* The record names a live process and its node, and the socket answers.
AskStatus(c) ==
    /\ cpc[c] \in {"check", "poll"}
    /\ state \in Holders
    /\ IdentityMatches(state)
    /\ node
    /\ Connectable
    /\ Send(c, "status")
    /\ target' = [target EXCEPT ![c] = state]
    /\ GoTo(c, IF cpc[c] = "check" THEN "asked" ELSE "polled")
    /\ UNCHANGED <<lock, files, table, op, cont, child, outcome, crashes>>

\* status() returned something else than "up" to a call that is not polling.
NotUp(c, result, recorded, alive) ==
    IF op[c] = "status"
    THEN /\ Return(c, result)
         /\ UNCHANGED <<target, cont>>
    ELSE /\ GoTo(c, IF alive THEN "quit" ELSE "clear")
         /\ target' = [target EXCEPT ![c] = recorded]
         /\ cont' = [cont EXCEPT ![c] = "replace"]
         /\ UNCHANGED <<lock, outcome>>

StatusFromFiles(c) ==
    /\ cpc[c] = "check"
    /\ IF state \in Holders
       THEN /\ ~(IdentityMatches(state) /\ node /\ Connectable)
            /\ NotUp(c, "degraded", state, IdentityMatches(state))
       ELSE NotUp(c, "absent", None, FALSE)
    /\ UNCHANGED <<files, table, queue, op, child, answer, crashes>>

-----------------------------------------------------------------------------
(* Answers, and requests that time out or are reset.                       *)

StatusAnswered(c) ==
    /\ cpc[c] = "asked"
    /\ answer[c] # None
    /\ IF answer[c] = target[c]
       THEN Return(c, "up") /\ UNCHANGED <<target, cont>>
       ELSE NotUp(c, "degraded", target[c], TRUE)
    /\ answer' = [answer EXCEPT ![c] = None]
    /\ UNCHANGED <<files, table, queue, op, child, crashes>>

PollAnswered(c) ==
    /\ cpc[c] = "polled"
    /\ answer[c] # None
    /\ GoTo(c, IF answer[c] = target[c] /\ target[c] = child[c]
               THEN "access" ELSE "poll")
    /\ answer' = [answer EXCEPT ![c] = None]
    /\ UNCHANGED <<lock, files, table, queue, locals, outcome, crashes>>

QuitAnswered(c) ==
    /\ cpc[c] = "quitting"
    /\ answer[c] # None
    /\ GoTo(c, IF answer[c] = target[c] THEN "waitdead" ELSE "recheck")
    /\ answer' = [answer EXCEPT ![c] = None]
    /\ UNCHANGED <<lock, files, table, queue, locals, outcome, crashes>>

TapAnswered(c) ==
    /\ cpc[c] = "tapping"
    /\ answer[c] # None
    /\ Return(c, "ok")
    /\ answer' = [answer EXCEPT ![c] = None]
    /\ UNCHANGED <<files, table, queue, locals, crashes>>

RequestFails(c) ==
    /\ cpc[c] \in Waiting
    /\ HangUp(c)
    /\ CASE cpc[c] = "asked" -> NotUp(c, "degraded", target[c], TRUE)
         [] cpc[c] = "polled" ->
              GoTo(c, "poll") /\ UNCHANGED <<lock, outcome, target, cont>>
         [] cpc[c] = "quitting" ->
              GoTo(c, "recheck") /\ UNCHANGED <<lock, outcome, target, cont>>
         [] OTHER -> Return(c, "error") /\ UNCHANGED <<target, cont>>
    /\ UNCHANGED <<files, table, op, child, crashes>>

\* The CLI's tap calls request() and nothing else.
Tap(c) ==
    /\ cpc[c] = "tap"
    /\ IF Connectable
       THEN /\ Send(c, "tap")
            /\ GoTo(c, "tapping")
            /\ UNCHANGED <<lock, outcome>>
       ELSE /\ Return(c, "error")
            /\ UNCHANGED <<queue, answer>>
    /\ UNCHANGED <<files, table, locals, crashes>>

-----------------------------------------------------------------------------
(* _stop_recorded_holder().                                                *)

\* An unmatched identity is left alone: the call returns False.
StopStale(c) ==
    /\ cpc[c] = "quit"
    /\ ~IdentityMatches(target[c])
    /\ GoTo(c, "clear")
    /\ cont' = [cont EXCEPT ![c] = IF @ = "destroy" THEN "stale" ELSE @]
    /\ UNCHANGED <<lock, files, table, queue, op, target, child, answer, outcome, crashes>>

RequestQuit(c) ==
    /\ cpc[c] = "quit"
    /\ IdentityMatches(target[c])
    /\ IF Connectable
       THEN Send(c, "quit") /\ GoTo(c, "quitting")
       ELSE GoTo(c, "recheck") /\ UNCHANGED <<queue, answer>>
    /\ UNCHANGED <<lock, files, table, locals, outcome, crashes>>

KillWithoutRecheck(c) ==
    /\ cpc[c] = "recheck"
    /\ GoTo(c, "kill")
    /\ UNCHANGED <<lock, files, table, queue, locals, answer, outcome, crashes>>

Recheck(c) ==
    /\ cpc[c] = "recheck"
    /\ GoTo(c, IF IdentityMatches(target[c]) THEN "kill" ELSE "waitdead")
    /\ UNCHANGED <<lock, files, table, queue, locals, answer, outcome, crashes>>

\* os.kill(pid, SIGTERM): whoever has the PID now.  The holder installs no
\* handler, so its finally block does not run.
Kill(c) ==
    /\ cpc[c] = "kill"
    /\ GoTo(c, "waitdead")
    /\ LET victim == occupant[pidOf[target[c]]]
       IN  CASE victim = Foreign ->
                  /\ occupant' = [occupant EXCEPT ![pidOf[target[c]]] = None]
                  /\ UNCHANGED <<hpc, pidOf, parent, queue>>
             [] victim \in Holders /\ Running(victim) -> Die(victim)
             [] OTHER -> UNCHANGED <<table, queue>>
    /\ UNCHANGED <<lock, files, locals, answer, outcome, crashes>>

\* child.poll() and os.waitpid() reap a zombie that is the client's own.
Reapable(c) == /\ IdentityMatches(target[c])
               /\ hpc[target[c]] = "zombie"
               /\ parent[target[c]] = c

WaitDead(c) ==
    /\ cpc[c] = "waitdead"
    /\ \/ /\ Reapable(c)
          /\ hpc' = [hpc EXCEPT ![target[c]] = "dead"]
          /\ occupant' = [occupant EXCEPT ![pidOf[target[c]]] = None]
          /\ parent' = [parent EXCEPT ![target[c]] = None]
          /\ UNCHANGED pidOf
       \/ ~Alive(target[c]) /\ UNCHANGED table
    /\ GoTo(c, "clear")
    /\ UNCHANGED <<lock, files, queue, locals, answer, outcome, crashes>>

\* The timeout is not checked: the caller goes on as if the holder had died.
IgnoreWouldNotStop(c) ==
    /\ cpc[c] = "waitdead"
    /\ Alive(target[c])
    /\ ~Reapable(c)
    /\ GoTo(c, "clear")
    /\ UNCHANGED <<lock, files, table, queue, locals, answer, outcome, crashes>>

WouldNotStop(c) ==
    /\ cpc[c] = "waitdead"
    /\ Alive(target[c])
    /\ ~Reapable(c)
    /\ Return(c, "would_not_stop")
    /\ UNCHANGED <<files, table, queue, locals, answer, crashes>>

-----------------------------------------------------------------------------
(* create() and destroy().                                                 *)

\* Both files are unlinked; create() goes on to spawn, the others are done.
Clear(c) ==
    /\ cpc[c] = "clear"
    /\ sock' = None
    /\ state' = None
    /\ CASE cont[c] = "replace" -> GoTo(c, "spawn") /\ UNCHANGED <<lock, outcome>>
         [] cont[c] = "fail"    -> Return(c, "failed")
         [] cont[c] = "destroy" -> Return(c, "destroyed")
         [] OTHER               -> Return(c, "stale_cleaned")
    /\ UNCHANGED <<node, table, queue, locals, answer, crashes>>

Spawn(c) ==
    /\ cpc[c] = "spawn"
    /\ \E h \in Holders, p \in Pids :
         /\ hpc[h] = "free"
         /\ occupant[p] = None
         /\ hpc' = [hpc EXCEPT ![h] = "init"]
         /\ pidOf' = [pidOf EXCEPT ![h] = p]
         /\ occupant' = [occupant EXCEPT ![p] = h]
         /\ parent' = [parent EXCEPT ![h] = c]
         /\ child' = [child EXCEPT ![c] = h]
    /\ GoTo(c, "poll")
    /\ UNCHANGED <<lock, files, queue, op, cont, target, answer, outcome, crashes>>

\* wait_event_node_readable(): the FIFO is the caller's own, mode 0600.
Access(c) ==
    /\ cpc[c] = "access"
    /\ IF node
       THEN Return(c, "up") /\ UNCHANGED cont
       ELSE /\ GoTo(c, "quit")
            /\ cont' = [cont EXCEPT ![c] = "fail"]
            /\ UNCHANGED <<lock, outcome>>
    /\ UNCHANGED <<files, table, queue, op, target, child, answer, crashes>>

GiveUpAtDeadline(c) ==
    /\ cpc[c] = "poll"
    /\ Return(c, "failed")
    /\ UNCHANGED <<files, table, queue, locals, answer, crashes>>

\* Three seconds without "up": the spawned process itself is stopped.
Deadline(c) ==
    /\ cpc[c] = "poll"
    /\ target' = [target EXCEPT ![c] = child[c]]
    /\ cont' = [cont EXCEPT ![c] = "fail"]
    /\ GoTo(c, "quit")
    /\ UNCHANGED <<lock, files, table, queue, op, child, answer, outcome, crashes>>

DestroyAbsent(c) ==
    /\ cpc[c] = "read"
    /\ state \notin Holders
    /\ Return(c, "absent")
    /\ UNCHANGED <<files, table, queue, locals, answer, crashes>>

TornDestroyRecorded(c) ==
    /\ cpc[c] = "read"
    /\ state # None
    /\ target' = [target EXCEPT ![c] = state]
    /\ cont' = [cont EXCEPT ![c] = "destroy"]
    /\ GoTo(c, "quit")
    /\ UNCHANGED <<lock, files, table, queue, op, child, answer, outcome, crashes>>

DestroyUnlinksFirst(c) ==
    /\ cpc[c] = "read"
    /\ state \in Holders
    /\ target' = [target EXCEPT ![c] = state]
    /\ cont' = [cont EXCEPT ![c] = "destroy"]
    /\ state' = None
    /\ GoTo(c, "quit")
    /\ UNCHANGED <<lock, sock, node, table, queue, op, child, answer, outcome, crashes>>

DestroyRecorded(c) ==
    /\ cpc[c] = "read"
    /\ state \in Holders
    /\ target' = [target EXCEPT ![c] = state]
    /\ cont' = [cont EXCEPT ![c] = "destroy"]
    /\ GoTo(c, "quit")
    /\ UNCHANGED <<lock, files, table, queue, op, child, answer, outcome, crashes>>

-----------------------------------------------------------------------------
(* hold(): the holder process.                                             *)

HGoTo(h, pc) == hpc' = [hpc EXCEPT ![h] = pc]

\* Removes an old socket; creates the FIFO or takes over one that exists.
HPrepare(h) ==
    /\ hpc[h] = "init"
    /\ sock' = None
    /\ node' = TRUE
    /\ HGoTo(h, "bind")
    /\ UNCHANGED <<lock, state, pidOf, parent, occupant, queue, cpc, locals,
                   answer, outcome, crashes>>

\* A path that exists again fails bind() and sends hold() into its finally.
HBind(h) ==
    /\ hpc[h] = "bind"
    /\ IF sock = None
       THEN sock' = h /\ HGoTo(h, "publish")
       ELSE HGoTo(h, "close") /\ UNCHANGED sock
    /\ UNCHANGED <<lock, state, node, pidOf, parent, occupant, queue, cpc, locals,
                   answer, outcome, crashes>>

\* write_text() truncates, then writes.
HTruncate(h) ==
    /\ hpc[h] = "publish"
    /\ state' = Torn
    /\ HGoTo(h, "write")
    /\ UNCHANGED <<lock, sock, node, pidOf, parent, occupant, queue, cpc, locals,
                   answer, outcome, crashes>>

HPublish(h) ==
    /\ hpc[h] = "write"
    /\ state' = h
    /\ HGoTo(h, "serve")
    /\ UNCHANGED <<lock, sock, node, pidOf, parent, occupant, queue, cpc, locals,
                   answer, outcome, crashes>>

\* One connection.  The response goes out after the try block: a client that
\* has hung up breaks the pipe, and hold() ends as it does after "quit".
HAnswer(h) ==
    /\ hpc[h] = "serve"
    /\ queue[h] # <<>>
    /\ LET r == Head(queue[h])
       IN  /\ answer' = IF r.open THEN [answer EXCEPT ![r.from] = h] ELSE answer
           /\ HGoTo(h, IF r.open /\ r.kind # "quit" THEN "serve" ELSE "close")
    /\ queue' = [queue EXCEPT ![h] = Tail(@)]
    /\ UNCHANGED <<lock, files, pidOf, parent, occupant, cpc, locals, outcome, crashes>>

\* The finally block: the server and whatever waits on it, then three unlinks.
HCloseSocket(h) ==
    /\ hpc[h] = "close"
    /\ sock' = None
    /\ queue' = [queue EXCEPT ![h] = <<>>]
    /\ HGoTo(h, "close_state")
    /\ UNCHANGED <<lock, state, node, pidOf, parent, occupant, cpc, locals,
                   answer, outcome, crashes>>

HUnlinkState(h) ==
    /\ hpc[h] = "close_state"
    /\ state' = None
    /\ HGoTo(h, "close_fifo")
    /\ UNCHANGED <<lock, sock, node, pidOf, parent, occupant, queue, cpc, locals,
                   answer, outcome, crashes>>

HUnlinkFifo(h) ==
    /\ hpc[h] = "close_fifo"
    /\ node' = FALSE
    /\ Die(h)
    /\ UNCHANGED <<lock, sock, state, cpc, locals, answer, outcome, crashes>>

\* The holder is killed from outside, or fails to start.
HKilled(h) ==
    /\ Running(h)
    /\ Die(h)
    /\ UNCHANGED <<lock, files, cpc, locals, answer, outcome, crashes>>

-----------------------------------------------------------------------------
(* The rest of the machine takes and gives back PIDs.                      *)

\* A bound of the model: a PID is left for each spawn that is left.
PidsToSpare == Cardinality({p \in Pids : occupant[p] = None})
                 > Cardinality({h \in Holders : hpc[h] = "free"})

Recycle(p) ==
    /\ occupant[p] = None
    /\ PidsToSpare
    /\ \/ RecycleInWindow
       \/ \A c \in Clients : cpc[c] = "kill" => pidOf[target[c]] # p
    /\ occupant' = [occupant EXCEPT ![p] = Foreign]
    /\ UNCHANGED <<lock, files, hpc, pidOf, parent, queue, cpc, locals, answer,
                   outcome, crashes>>

ForeignExit(p) ==
    /\ occupant[p] = Foreign
    /\ occupant' = [occupant EXCEPT ![p] = None]
    /\ UNCHANGED <<lock, files, hpc, pidOf, parent, queue, cpc, locals, answer,
                   outcome, crashes>>

-----------------------------------------------------------------------------
Init ==
    /\ lock = None
    /\ sock = None
    /\ state = None
    /\ node = FALSE
    /\ hpc = [h \in Holders |-> "free"]
    /\ pidOf \in [Holders -> {None}]
    /\ parent = [h \in Holders |-> None]
    /\ occupant = [p \in Pids |-> None]
    /\ queue = [h \in Holders |-> <<>>]
    /\ cpc = [c \in Clients |-> "idle"]
    /\ op = [c \in Clients |-> "status"]
    /\ cont = [c \in Clients |-> "none"]
    /\ target = [c \in Clients |-> None]
    /\ child = [c \in Clients |-> None]
    /\ answer = [c \in Clients |-> None]
    /\ outcome = [c \in Clients |-> "none"]
    /\ crashes = 0

\* What a client that has been called does until the call is over.
ClientStep(c) ==
    \/ Lock(c) \/ AskStatus(c) \/ StatusFromFiles(c) \/ Tap(c)
    \/ StatusAnswered(c) \/ PollAnswered(c) \/ QuitAnswered(c) \/ TapAnswered(c)
    \/ RequestFails(c)
    \/ StopStale(c) \/ RequestQuit(c) \/ Recheck(c) \/ Kill(c)
    \/ WaitDead(c) \/ WouldNotStop(c)
    \/ Clear(c) \/ Spawn(c) \/ Access(c) \/ Deadline(c)
    \/ DestroyAbsent(c) \/ DestroyRecorded(c) \/ Exit(c)

HolderStep(h) ==
    \/ HPrepare(h) \/ HBind(h) \/ HTruncate(h) \/ HPublish(h) \/ HAnswer(h)
    \/ HCloseSocket(h) \/ HUnlinkState(h) \/ HUnlinkFifo(h)

Next ==
    \/ \E c \in Clients : ClientStep(c) \/ Crash(c) \/ \E o \in Ops : Start(c, o)
    \/ \E h \in Holders : HolderStep(h) \/ HKilled(h)
    \/ \E p \in Pids : Recycle(p) \/ ForeignExit(p)

Spec == Init /\ [][Next]_vars

\* A client that runs keeps running, and its clock reaches the deadline of the
\* polling loop however often a poll succeeds in asking.  Nothing is assumed of
\* the holder or of the other clients.
FairSpec ==
    /\ Spec
    /\ \A c \in Clients : WF_vars(ClientStep(c)) /\ SF_vars(Deadline(c))

-----------------------------------------------------------------------------
(* Properties.                                                             *)

\* The values of the variables; in particular the process table never gives a
\* client a record (target) that is not a holder where one is needed.
TypeOK ==
    /\ lock \in Clients \cup {None}
    /\ sock \in Holders \cup {None}
    /\ state \in Holders \cup {None, Torn}
    /\ node \in BOOLEAN
    /\ hpc \in [Holders -> HolderPcs]
    /\ pidOf \in [Holders -> Pids \cup {None}]
    /\ parent \in [Holders -> Clients \cup {None}]
    /\ occupant \in [Pids -> Holders \cup {None, Foreign}]
    /\ queue \in [Holders -> Seq(Requests)]
    /\ cpc \in [Clients -> ClientPcs]
    /\ op \in [Clients -> Ops]
    /\ cont \in [Clients -> Conts]
    /\ target \in [Clients -> Holders \cup {None}]
    /\ child \in [Clients -> Holders \cup {None}]
    /\ answer \in [Clients -> Holders \cup {None}]
    /\ outcome \in [Clients -> Outcomes]
    /\ crashes \in Nat

\* The flock, the stop of the recorded holder and the wait for its death leave
\* at most one holder that runs the device, however calls, timeouts, kills and
\* dying holders interleave (unless a client is killed during a call).
OneHolder ==
    crashes = 0 => \A g, h \in Holders : Live(g) /\ Live(h) => g = h

\* gamepad.py:262, "A timeout must not turn the attempted create into an
\* unreachable device": while no create() or destroy() is under way, the holder
\* that runs is the one gamepad.json names, so that destroy() can find it.
NoUnreachableHolder ==
    crashes = 0 /\ lock = None => \A h \in Holders : Live(h) => state = h

\* The unlinks of callers, of starting holders and of holders on their way out
\* never take the socket of the holder that serves the device.
ServingHolderKeepsSocket ==
    crashes = 0 => \A h \in Holders : hpc[h] = "serve" => sock = h

\* The same of the FIFO: gamepad.py:291-292, frames go to a FIFO that pf-shell
\* consumes.  The unlink at line 347 has no such guard.
ServingHolderKeepsFifo ==
    crashes = 0 => \A h \in Holders : hpc[h] = "serve" => node

Returns(c, results) == outcome'[c] \in results /\ outcome'[c] # outcome[c]

\* gamepad.py:281: when destroy() returns, whichever of its three results it
\* returns, no holder runs the device any more.
DestroyLeavesNoHolder ==
    [][\A c \in Clients :
         crashes' = 0 /\ Returns(c, {"destroyed", "stale_cleaned", "absent"})
           /\ op[c] = "destroy"
         => \A h \in Holders : ~Live(h)']_vars

\* gamepad.py:281, "a matching holder is verified dead": whatever has been killed
\* or left behind, the holder a destroy() says it destroyed no longer runs.
DestroyedHolderIsDead ==
    [][\A c \in Clients : Returns(c, {"destroyed"}) => ~Running(target[c])']_vars

\* gamepad.py:205, "Stop only the process whose non-reusable identity is
\* recorded": a process that is no holder never ends by a client's signal.
OnlyHoldersAreSignalled ==
    [][\A c \in Clients, p \in Pids :
         cpc[c] = "kill" /\ cpc'[c] = "waitdead" /\ occupant[p] = Foreign
         => occupant'[p] = Foreign]_vars

\* What a create() or destroy() under way is, and which holder could be found.
CallUnderWay == IF lock = None THEN "none" ELSE op[lock]
RecordedHolder == IF state \in Holders THEN state ELSE None

Device == INSTANCE GamepadDevice WITH
    owner <- lock, call <- CallUnderWay, record <- RecordedHolder,
    running <- {h \in Holders : Live(h)},
    past <- {h \in Holders : hpc[h] # "free" /\ ~Live(h)}

\* gamepad.py:204-285: as long as no client is killed during a call, holders take
\* the device one at a time and only for a create(); until it stops, none loses its
\* record to an unlink, and none is left without one when the flock is given back.
ImplementsDevice == Device!Spec

\* Every wait under the flock is bounded: a caller gives it back, whatever the
\* holder and the other callers do or fail to do.
LockIsReleased == \A c \in Clients : lock = c ~> lock # c

=============================================================================
