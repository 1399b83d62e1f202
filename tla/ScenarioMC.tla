----------------------------- MODULE ScenarioMC ------------------------------
(* Small instances of Scenario for TLC.                                     *)
EXTENDS Scenario

Plain == [first |-> TRUE, scale |-> "100", contrast |-> "default"]
Large == [scale |-> "200", contrast |-> "hc"]
Small == [scale |-> "100", contrast |-> "default"]

Default == [name |-> "default", authority |-> TRUE, prefs |-> Plain, power |-> "one battery",
            data |-> "favorites", history |-> None]
FirstRun == [Default EXCEPT !.name = "first-run", !.prefs.first = FALSE, !.data = None]
Degraded == [Default EXCEPT !.name = "degraded", !.authority = FALSE, !.power = "two batteries", !.data = None]

FourProfiles == [n \in {"default", "first-run", "degraded"} |->
                   CASE n = "default" -> Default [] n = "first-run" -> FirstRun
                     [] OTHER -> Degraded]

\* The default profile with other batteries, copied under another name.
Copies == {[toml |-> [name |-> "default", authority |-> TRUE, prefs |-> Plain,
                      power |-> "two batteries"],
            data |-> None, lock |-> FALSE, history |-> None]}

Profile(name) == [op |-> "profile", profile |-> name, preset |-> Small]
TapStep(t) == [op |-> "input", tap |-> t]
AppStep(receipt) == [op |-> "app", receipt |-> receipt]
WaitFor(kind, value) == [op |-> "wait_for", predicate |-> <<kind, value>>]
AssertThat(kind, value) == [op |-> "assert", predicate |-> <<kind, value>>]

Script(name, preset, steps, keep) ==
    [keep |-> keep, profile |-> name, preset |-> preset, steps |-> steps,
     names |-> {name} \cup {steps[i].profile : i \in {j \in DOMAIN steps : steps[j].op = "profile"}}]

\* Navigation, a profile change in an instance that is kept, and a session in what a
\* snapshot has saved.
ThreeScripts == {
    Script("first-run", Large, <<TapStep("start"), WaitFor("screen", "home")>>, FALSE),
    Script("first-run", Large, <<Profile("degraded")>>, TRUE),
    Script("saved", Small, <<[op |-> "launch"], AppStep("Crash"),
                             WaitFor("session_state", "idle")>>, FALSE)}

=============================================================================
