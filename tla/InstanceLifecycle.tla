-------------------------- MODULE InstanceLifecycle --------------------------
(***************************************************************************)
(* What up(), apply() and down() promise of an instance, without saying     *)
(* which processes, files or signals keep the promise: components start in  *)
(* the order in which they need each other, none beside its like, for the   *)
(* profile asked for; and what a call says on return is so.  DesktopBackend *)
(* implements it for one caller at a time.                                  *)
(***************************************************************************)
CONSTANTS Clients, Profiles, Slots, None

VARIABLES
    doing,      \* the call of each client
    asked,      \* the profile it was called with
    told,       \* what its last call returned
    running,    \* the processes that run, each a component and a number of its own
    profile,    \* the profile they run for
    pad         \* the gamepad exists

calls == <<doing, asked, told>>
vars == <<calls, running, profile, pad>>

Components == {"weston", "authorityd", "supervisor", "shell"}
Kinds(processes) == {p[1] : p \in processes}

Ups == {"up", "replace"}
Downs == {"down", "reap"}

Expected(p) == IF p.authority THEN {"weston", "authorityd", "supervisor", "shell"}
                              ELSE {"weston", "shell"}

\* k and what cannot do without it.
NeedsIt(k) ==
    CASE k = "weston"     -> {"weston", "authorityd", "supervisor", "shell"}
      [] k = "authorityd" -> {"authorityd", "supervisor", "shell"}
      [] k = "supervisor" -> {"supervisor", "shell"}
      [] k = "shell"      -> {"shell"}

Init ==
    /\ doing = [c \in Clients |-> "none"]
    /\ asked \in [Clients -> Profiles]
    /\ told = [c \in Clients |-> "none"]
    /\ running = {}
    /\ profile = None
    /\ pad = FALSE

Begin(c) ==
    /\ doing[c] = "none"
    /\ \E k \in Ups \cup Downs \cup {"apply"} : doing' = [doing EXCEPT ![c] = k]
    /\ \E p \in Profiles : asked' = [asked EXCEPT ![c] = p]
    /\ told' = [told EXCEPT ![c] = "none"]
    /\ UNCHANGED <<running, profile, pad>>

\* A second process of a kind that runs is not a start.
Start(c, p) ==
    /\ doing[c] \in Ups \cup {"apply"}
    /\ p[1] = "weston" => doing[c] \in Ups
    /\ profile = asked[c]
    /\ p[1] \in Expected(profile)
    /\ Kinds(running) \cap NeedsIt(p[1]) = {}
    /\ running' = running \cup {p}
    /\ UNCHANGED <<calls, profile, pad>>

\* By a signal, or without one.
Stop ==
    /\ running' \in SUBSET running
    /\ UNCHANGED <<calls, profile, pad>>

\* Only weston outlives a change of profile.
Describe(c) ==
    /\ \/ doing[c] \in Ups /\ running = {}
       \/ doing[c] = "apply" /\ (asked[c] # profile => Kinds(running) \subseteq {"weston"})
    /\ profile' = asked[c]
    /\ UNCHANGED <<calls, running, pad>>

MakePad(c) ==
    /\ doing[c] \in Ups
    /\ running = {}
    /\ pad' = TRUE
    /\ UNCHANGED <<calls, running, profile>>

\* By destroy(), or by itself.
LosePad ==
    /\ pad' = FALSE
    /\ UNCHANGED <<calls, running, profile>>

End(c, how) ==
    /\ doing[c] # "none"
    /\ doing' = [doing EXCEPT ![c] = "none"]
    /\ told' = [told EXCEPT ![c] = how]
    /\ UNCHANGED <<asked, running, profile>>

EndUp(c) ==
    /\ doing[c] \in Ups
    /\ profile = asked[c]
    /\ Kinds(running) = Expected(profile)
    /\ End(c, "ok")
    /\ UNCHANGED pad

\* The shell an apply() ends with is there; weston or another may have died.
EndApply(c) ==
    /\ doing[c] = "apply"
    /\ profile = asked[c]
    /\ "shell" \in Kinds(running) /\ Kinds(running) \subseteq Expected(profile)
    /\ End(c, "ok")
    /\ UNCHANGED pad

\* The end of a down(), and of an up() that has failed and cleaned up.
EndDown(c) ==
    /\ running = {}
    /\ pad' = FALSE
    /\ \/ doing[c] \in Downs /\ End(c, "ok")
       \/ doing[c] \in Ups /\ End(c, "cleaned")

EndError(c) == End(c, "error") /\ UNCHANGED pad

Next ==
    \/ Stop \/ LosePad
    \/ \E c \in Clients :
          \/ Begin(c) \/ Describe(c) \/ MakePad(c)
          \/ \E p \in Components \X Slots : Start(c, p)
          \/ EndUp(c) \/ EndApply(c) \/ EndDown(c) \/ EndError(c)

Spec == Init /\ [][Next]_vars

=============================================================================
