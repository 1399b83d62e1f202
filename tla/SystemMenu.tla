----------------------------- MODULE SystemMenu ------------------------------
(***************************************************************************)
(* pf_sim/system_menu.py: send() presses the Menu control of an instance     *)
(* only after it has proved, from run.json, the manifest and the contract,   *)
(* that the launcher binds it.  Composed with Toolchain, which activates     *)
(* other files meanwhile, and with what up() and apply() of the backend do   *)
(* for the shell: where it is started from and what is recorded about it.    *)
(***************************************************************************)
EXTENDS Toolchain

CONSTANTS
    Overlap,    \* may build(), up() and send() run at the same time?
    Foreign,    \* a shell given with --shell-bin or PF_SIM_SHELL_BIN
    Binds       \* the contracts that bind SystemMenu to BTN_MODE

ASSUME MenuAssumption ==
    /\ Overlap \in BOOLEAN
    /\ Foreign \notin Content \cup {None, Torn}
    /\ Binds \subseteq Content

VARIABLES
    run,        \* run.json: launcher_rev, shell_sha256 and shell_bin
    shell,      \* the binary the running shell was started from
    ipc,        \* where up() or apply() is
    upRev,      \* the launcher_rev that up() has read
    mpc,        \* where send() is
    seen,       \* what it has read of run.json
    trusted,    \* what it has read of the manifest
    bytes,      \* the contract it has read
    sent        \* the press of the last call

instance == <<run, shell, ipc, upRev>>
menu == <<mpc, seen, trusted, bytes, sent>>
vars == <<toolchain, instance, menu>>

Shells == Content \cup {Foreign}
Runs == [rev : Revs, shell : Shells \cup {Torn}, own : BOOLEAN]

-----------------------------------------------------------------------------
(* up(), apply() and down(), as far as the shell goes.                      *)

\* With no manifest the revision is that of pins.toml, which may be any.
UpManifest ==
    /\ ipc = "idle"
    /\ shell = None
    /\ upRev' \in IF manifest \in {None, Torn} THEN Revs ELSE {manifest.rev}
    /\ ipc' = "describe"
    /\ UNCHANGED <<toolchain, run, shell, menu>>

UpDescribeAnything ==
    /\ ipc = "describe"
    /\ run' = [rev |-> upRev, shell |-> bin, own |-> FALSE]
    /\ ipc' = "spawn"
    /\ upRev' = None
    /\ UNCHANGED <<toolchain, shell, menu>>

\* The shell is hashed here and started seconds later.
UpDescribe ==
    /\ ipc = "describe"
    /\ \E own \in BOOLEAN :
          IF ~own /\ bin = None
          THEN ipc' = "idle" /\ UNCHANGED run
          ELSE /\ run' = [rev |-> upRev, shell |-> IF own THEN Foreign ELSE bin, own |-> own]
               /\ ipc' = "spawn"
    /\ upRev' = None
    /\ UNCHANGED <<toolchain, shell, menu>>

\* What is at the path of run.json now; a torn binary does not start.
ShellStarts ==
    LET file == IF run.own THEN Foreign ELSE bin
    IN  shell' = IF file = Torn THEN None ELSE file

UpSpawn ==
    /\ ipc = "spawn"
    /\ ShellStarts
    /\ ipc' = "idle"
    /\ UNCHANGED <<toolchain, run, upRev, menu>>

\* The shell is started anew, and run.json keeps the hash.
Apply ==
    /\ ipc = "idle"
    /\ shell # None
    /\ ShellStarts
    /\ UNCHANGED <<toolchain, run, ipc, upRev, menu>>

Down ==
    /\ ipc = "idle"
    /\ shell # None
    /\ shell' = None
    /\ UNCHANGED <<toolchain, run, ipc, upRev, menu>>

-----------------------------------------------------------------------------
(* send().                                                                 *)

MGoTo(where) == mpc' = where

Refuse ==
    /\ mpc' = "idle"
    /\ seen' = None
    /\ trusted' = None
    /\ bytes' = None
    /\ UNCHANGED sent

MenuRun ==
    /\ mpc = "idle"
    /\ run # None
    /\ seen' = [rev |-> run.rev, shell |-> run.shell]
    /\ sent' = None
    /\ MGoTo("manifest")
    /\ UNCHANGED <<toolchain, instance, trusted, bytes>>

MenuRevision ==
    /\ mpc = "manifest"
    /\ IF manifest \in Manifests /\ seen.rev = manifest.rev
       THEN trusted' = manifest /\ MGoTo("contract") /\ UNCHANGED <<seen, bytes, sent>>
       ELSE Refuse
    /\ UNCHANGED <<toolchain, instance>>

MenuManifest ==
    /\ mpc = "manifest"
    /\ IF manifest \in Manifests /\ seen = [rev |-> manifest.rev, shell |-> manifest.shell]
       THEN trusted' = manifest /\ MGoTo("contract") /\ UNCHANGED <<seen, bytes, sent>>
       ELSE Refuse
    /\ UNCHANGED <<toolchain, instance>>

MenuContract ==
    /\ mpc = "contract"
    /\ IF contract # None /\ contract = trusted.contract /\ contract \in Binds
       THEN bytes' = contract /\ MGoTo("press") /\ UNCHANGED <<seen, trusted, sent>>
       ELSE Refuse
    /\ UNCHANGED <<toolchain, instance>>

MenuPress ==
    /\ mpc = "press"
    /\ shell # None
    /\ sent' = [recorded |-> seen.shell, contract |-> bytes, running |-> shell]
    /\ mpc' = "idle"
    /\ seen' = None
    /\ trusted' = None
    /\ bytes' = None
    /\ UNCHANGED <<toolchain, instance>>

\* The gamepad or the shell does not answer.
MenuFails ==
    /\ mpc = "press"
    /\ Refuse
    /\ UNCHANGED <<toolchain, instance>>

-----------------------------------------------------------------------------
Init ==
    /\ ToolchainInit
    /\ run = None
    /\ shell = None
    /\ ipc = "idle"
    /\ upRev = None
    /\ mpc = "idle"
    /\ seen = None
    /\ trusted = None
    /\ bytes = None
    /\ sent = None

BuildersIdle == \A b \in Builders : bpc[b] = "idle"

ToolchainStep ==
    /\ Overlap \/ (ipc = "idle" /\ mpc = "idle")
    /\ \E b \in Builders : BuilderStep(b)
    /\ UNCHANGED <<instance, menu>>

InstanceStep ==
    /\ Overlap \/ (BuildersIdle /\ mpc = "idle")
    /\ UpManifest \/ UpDescribe \/ UpSpawn \/ Apply \/ Down

MenuStep ==
    /\ Overlap \/ (BuildersIdle /\ ipc = "idle")
    /\ MenuRun \/ MenuManifest \/ MenuContract \/ MenuPress \/ MenuFails

Next == ToolchainStep \/ InstanceStep \/ MenuStep

Spec == Init /\ [][Next]_vars

-----------------------------------------------------------------------------
\* The values of the variables, files that may be torn included.
TypeOK ==
    /\ ToolchainTypeOK
    /\ run \in Runs \cup {None}
    /\ shell \in Shells \cup {None}
    /\ ipc \in {"idle", "describe", "spawn"}
    /\ upRev \in Revs \cup {None}
    /\ mpc \in {"idle", "manifest", "contract", "press"}
    /\ seen \in [rev : Revs, shell : Shells \cup {Torn}] \cup {None}
    /\ trusted \in Manifests \cup {None}
    /\ bytes \in Content \cup {None}
    /\ sent \in [recorded : Shells, contract : Content, running : Shells] \cup {None}

\* docs/gui-dev-loop.md:84-86: the press is sent only on the word of the very
\* contract that was built with the shell run.json records, although three files
\* are read one after the other while builds replace, tear or abandon them.
MenuFailsClosed ==
    sent # None => sent.recorded = sent.contract /\ sent.contract \in Binds

\* docs/gui-dev-loop.md:84-85, "requires the running shell hash ... to match": the
\* shell that gets the press is the one the contract was built with.
RunningShellIsProven == sent # None => sent.running = sent.contract

=============================================================================
