---------------------------- MODULE UinputDomain -----------------------------
(***************************************************************************)
(* pf_sim/uinput_domain_guard.py: whether this host may create kernel      *)
(* input devices.  probe_host() asks systemd-detect-virt, the device tree, *)
(* the marker of a builder and loginctl, and only what it still needs;     *)
(* evaluate() decides.  A host is a record of what each of them answers.   *)
(***************************************************************************)
EXTENDS Naturals, Sequences

CurrentCompatibles == {"pocketforge,tsp", "allwinner,sun50i-a133", "allwinner,sun50i-a100"}
LegacyCompatibles == {"allwinner,a133", "arm,sun50iw10p1"}

\* The exit status 0, 1 or another; a program that is missing or takes too long.
Exits == {"zero", "one", "other", "raises"}

\* Files as they can be met.
DeviceTrees == [read : {"read", "missing", "fails"}, terminated : BOOLEAN, decodes : BOOLEAN,
                values : SUBSET STRING]
Markers == [open : {"opens", "missing", "symlink", "fails"}, stat : BOOLEAN, regular : BOOLEAN,
            root : BOOLEAN, writable : BOOLEAN]

\* A line of list-sessions, and what show-session says of it: whole, that is Type and
\* Seat once each and nothing else, and whether the seat has a name.
Sessions == [named : BOOLEAN, shown : BOOLEAN, seat : BOOLEAN]
Hosts == [container : Exits, vm : Exits, tree : DeviceTrees, marker : Markers,
          listed : BOOLEAN, sessions : Seq(Sessions)]

-----------------------------------------------------------------------------
(* The probes.                                                             *)

CommandCheck(exit) ==
    CASE exit = "zero" -> "yes"
      [] exit = "one" -> "no"
      [] OTHER -> "error"

Unreadable(tree) == tree.read = "fails" \/ (tree.read = "read" /\ ~(tree.terminated /\ tree.decodes))

ProbeDt(tree) ==
    CASE tree.read = "missing" -> "missing"
      [] Unreadable(tree) -> "error"
      [] OTHER -> "ok"

Compatibles(tree) == IF ProbeDt(tree) = "ok" THEN tree.values ELSE {}

ProbeMarker(marker) ==
    CASE marker.open = "missing" -> "missing"
      [] marker.open = "symlink" -> "invalid"
      [] marker.open = "fails" \/ (marker.open = "opens" /\ ~marker.stat) -> "error"
      [] OTHER -> IF marker.regular /\ marker.root /\ ~marker.writable THEN "valid" ELSE "invalid"

\* The sessions are shown one after the other until one gives the answer.
Answers(session) == ~session.named \/ ~session.shown \/ session.seat

ProbeLogind(listed, sessions) ==
    LET answering == {i \in DOMAIN sessions : Answers(sessions[i])}
        first == sessions[CHOOSE i \in answering : \A j \in answering : i <= j]
    IN  CASE ~listed -> "unreadable"
          [] listed /\ answering = {} -> "no-seat"
          [] OTHER -> IF first.named /\ first.shown THEN "seat" ELSE "unreadable"

ProbeHost(host) ==
    LET container == CommandCheck(host.container)
        vm == IF container = "no" THEN CommandCheck(host.vm) ELSE "no"
        marker == IF vm = "yes" THEN ProbeMarker(host.marker) ELSE "missing"
    IN  [container |-> container, vm |-> vm,
         dt |-> ProbeDt(host.tree), compatibles |-> Compatibles(host.tree),
         marker |-> marker,
         logind |-> IF vm = "yes" /\ marker = "valid"
                    THEN ProbeLogind(host.listed, host.sessions) ELSE "not-probed"]

-----------------------------------------------------------------------------
(* evaluate(), in the order of its returns, and what relies on it.  The    *)
(* answers about seats that only a caller's own probe can hold are left    *)
(* out.                                                                    *)

Allow(domain) == [allowed |-> TRUE, domain |-> domain]
Deny(domain) == [allowed |-> FALSE, domain |-> domain]

BuilderVerdict(probe) ==
    CASE probe.marker = "error" -> Deny("probe-error")
      [] probe.marker \notin {"error", "valid"} -> Deny("untrusted-vm")
      [] probe.marker = "valid" /\ probe.logind = "no-seat" -> Allow("pf-builder-vm")
      [] probe.marker = "valid" /\ probe.logind = "seat" -> Deny("vm-with-seat")
      [] OTHER -> Deny("probe-error")

Evaluate(probe) ==
    LET current == probe.dt = "ok" /\ CurrentCompatibles \subseteq probe.compatibles
        legacy == probe.dt = "ok" /\ LegacyCompatibles \subseteq probe.compatibles
    IN  IF probe.container = "error" THEN Deny("probe-error")
        ELSE IF probe.container = "yes" THEN Deny("container")
        ELSE IF probe.vm = "error" \/ probe.dt = "error" THEN Deny("probe-error")
        ELSE IF probe.vm = "yes" /\ current THEN Allow("pfvd-guest")
        ELSE IF probe.vm = "no" /\ (current \/ legacy) THEN Allow("dut")
        ELSE IF probe.vm = "yes" THEN BuilderVerdict(probe)
        ELSE IF probe.dt = "ok" /\ probe.compatibles # {} THEN Deny("dut-mismatch")
        ELSE Deny("bare-metal")

\* guarded_open() opens the path, or raises.
GuardedOpen(host) == Evaluate(ProbeHost(host)).allowed

-----------------------------------------------------------------------------
(* What the answers have to be for a device to be created, whatever the    *)
(* order in which they are asked for.                                      *)

IsDevice(tree, compatibles) ==
    tree.read = "read" /\ ~Unreadable(tree) /\ compatibles \subseteq tree.values

IsBuilder(marker) ==
    marker.open = "opens" /\ marker.stat /\ marker.regular /\ marker.root /\ ~marker.writable

HasNoSeat(host) ==
    host.listed /\ \A i \in DOMAIN host.sessions :
                      host.sessions[i].named /\ host.sessions[i].shown /\ ~host.sessions[i].seat

Trusted(host) ==
    /\ host.container = "one"
    /\ ~Unreadable(host.tree)
    /\ \/ host.vm = "zero" /\ IsDevice(host.tree, CurrentCompatibles)
       \/ host.vm = "one" /\ (\/ IsDevice(host.tree, CurrentCompatibles)
                              \/ IsDevice(host.tree, LegacyCompatibles))
       \/ host.vm = "zero" /\ IsBuilder(host.marker) /\ HasNoSeat(host)

=============================================================================
