--------------------------- MODULE UinputDomainMC ----------------------------
(* The guard against its promise over small hosts: TLC evaluates it.       *)
EXTENDS UinputDomain

SmallTrees ==
    [read : {"read", "missing", "fails"}, terminated : BOOLEAN, decodes : BOOLEAN,
     values : {{}, {"arm,sun50iw10p1"}, CurrentCompatibles, LegacyCompatibles}]

SomeSessions == {session \in Sessions : session.named}

SmallHosts ==
    [container : Exits, vm : Exits, tree : SmallTrees,
     marker : [open : {"opens", "missing", "symlink", "fails"}, stat : BOOLEAN,
               regular : BOOLEAN, root : {TRUE}, writable : BOOLEAN],
     listed : BOOLEAN, sessions : {<<>>} \cup (SomeSessions \X SomeSessions)]

\* Every answer, and two sessions in either order.
ASSUME SmallHostsAreGuarded ==
    \A host \in SmallHosts : GuardedOpen(host) <=> Trusted(host)

=============================================================================
