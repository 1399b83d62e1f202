------------------------- MODULE UinputDomain_proofs --------------------------
(***************************************************************************)
(* The guard is fail closed: for every host, whatever its programs and     *)
(* files answer and however many sessions it has.                          *)
(***************************************************************************)
EXTENDS UinputDomain, TLAPS

\* _probe_logind() answers "no-seat" only after it has seen every session.
LEMMA LogindSeesAll ==
    ASSUME NEW listed \in BOOLEAN, NEW sessions \in Seq(Sessions)
    PROVE  ProbeLogind(listed, sessions) = "no-seat" <=>
             listed /\ \A i \in DOMAIN sessions : ~Answers(sessions[i])
  BY DEF ProbeLogind

\* The marker of a builder is believed only if it is one.
LEMMA MarkerIsBuilder ==
    ASSUME NEW marker \in Markers
    PROVE  ProbeMarker(marker) = "valid" <=> IsBuilder(marker)
  BY DEF ProbeMarker, IsBuilder, Markers

\* The device tree.
LEMMA TreeIsDevice ==
    ASSUME NEW tree \in DeviceTrees, NEW compatibles
    PROVE  /\ ProbeDt(tree) = "error" <=> Unreadable(tree)
           /\ ProbeDt(tree) = "ok" /\ compatibles \subseteq Compatibles(tree)
                <=> IsDevice(tree, compatibles)
  BY DEF ProbeDt, Compatibles, IsDevice, Unreadable, DeviceTrees

\* uinput_domain_guard.py:67-94 and 181-203: guarded_open() opens the path exactly on
\* a host that its answers prove to be a device, a guest of one, or a builder
\* without a seat.
THEOREM GuardIsExact ==
    ASSUME NEW host \in Hosts
    PROVE  GuardedOpen(host) <=> Trusted(host)
<1> DEFINE probe == ProbeHost(host)
           current == IsDevice(host.tree, CurrentCompatibles)
           legacy == IsDevice(host.tree, LegacyCompatibles)
<1>1. /\ host.tree \in DeviceTrees
      /\ host.marker \in Markers
      /\ host.listed \in BOOLEAN
      /\ host.sessions \in Seq(Sessions)
      /\ host.container \in Exits
      /\ host.vm \in Exits
  BY DEF Hosts
<1>2. /\ probe.container = CommandCheck(host.container)
      /\ probe.vm = IF probe.container = "no" THEN CommandCheck(host.vm) ELSE "no"
      /\ probe.dt = ProbeDt(host.tree)
      /\ probe.compatibles = Compatibles(host.tree)
      /\ probe.marker = IF probe.vm = "yes" THEN ProbeMarker(host.marker) ELSE "missing"
      /\ probe.logind = IF probe.vm = "yes" /\ probe.marker = "valid"
                        THEN ProbeLogind(host.listed, host.sessions) ELSE "not-probed"
  BY DEF ProbeHost
<1>3. /\ probe.dt = "error" <=> Unreadable(host.tree)
      /\ probe.dt = "ok" /\ CurrentCompatibles \subseteq probe.compatibles <=> current
      /\ probe.dt = "ok" /\ LegacyCompatibles \subseteq probe.compatibles <=> legacy
  BY <1>1, <1>2, TreeIsDevice
<1>4. HasNoSeat(host) <=> ProbeLogind(host.listed, host.sessions) = "no-seat"
  BY <1>1, LogindSeesAll DEF HasNoSeat, Answers
<1>5. BuilderVerdict(probe).allowed <=> probe.marker = "valid" /\ probe.logind = "no-seat"
  BY DEF BuilderVerdict, Allow, Deny
<1>6. ASSUME probe.container = "no", probe.vm = "yes"
      PROVE  BuilderVerdict(probe).allowed <=> IsBuilder(host.marker) /\ HasNoSeat(host)
  BY <1>1, <1>2, <1>4, <1>5, <1>6, MarkerIsBuilder
<1>7. /\ probe.container = "no" <=> host.container = "one"
      /\ probe.container = "no" =>
           /\ probe.vm = "yes" <=> host.vm = "zero"
           /\ probe.vm = "no" <=> host.vm = "one"
           /\ probe.vm \in {"yes", "no", "error"}
      /\ probe.container \in {"yes", "no", "error"}
  BY <1>1, <1>2 DEF CommandCheck, Exits
<1>8. GuardedOpen(host) <=>
        /\ probe.container = "no"
        /\ probe.vm # "error" /\ probe.dt # "error"
        /\ \/ probe.vm = "yes" /\ (current \/ BuilderVerdict(probe).allowed)
           \/ probe.vm = "no" /\ (current \/ legacy)
  BY <1>3, <1>7 DEF GuardedOpen, Evaluate, Allow, Deny
<1> QED
  BY <1>3, <1>6, <1>7, <1>8 DEF Trusted

=============================================================================
