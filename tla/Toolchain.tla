------------------------------ MODULE Toolchain ------------------------------
(***************************************************************************)
(* pf_sim/toolchain.py: build() compiles a launcher revision, or takes it    *)
(* from its cache, and activates it: it copies the shell, the device         *)
(* contract and the manifest that names both by hash to where the instances  *)
(* look for them.  No lock is held and a build may be killed anywhere; a     *)
(* plain copy or write that is under way leaves a torn file, a copy that is  *)
(* renamed into place does not.                                             *)
(*                                                                         *)
(* Content stands for bytes and for their hash.  A build of an unclean       *)
(* checkout yields content of its own.                                      *)
(***************************************************************************)
CONSTANTS
    Builders,       \* processes that run `toolchain build`
    Revs,           \* launcher revisions
    CrashInCache,   \* may a build be killed while it writes over a cache entry?
    None, Torn

Trees == {"clean", "dirty"}
Content == Revs \X Trees
Manifests == [rev : Revs, shell : Content \cup {Torn}, contract : Content \cup {Torn}]

ASSUME ToolchainAssumption ==
    /\ CrashInCache \in BOOLEAN
    /\ None \notin Content \cup Revs \cup Manifests
    /\ Torn \notin Content \cup Manifests \cup {None}

VARIABLES
    bin,        \* toolchain/bin/pf-shell
    contract,   \* toolchain/device-contract.json
    manifest,   \* toolchain/manifest.json
    cache,      \* toolchain/builds/REV: shell, contract and manifest
    bpc,        \* where each builder is
    rev,        \* the revision it builds
    tree,       \* the state of its checkout
    made        \* the manifest it holds

active == <<bin, contract, manifest>>
builders == <<bpc, rev, tree, made>>
toolchain == <<active, cache, builders>>

Entries == [shell : Content \cup {None, Torn}, contract : Content \cup {None, Torn},
            manifest : Manifests \cup {None, Torn}]
Uncached == [shell |-> None, contract |-> None, manifest |-> None]

BGoTo(b, where) == bpc' = [bpc EXCEPT ![b] = where]

\* The call is over, one way or the other.
BReturn(b) ==
    /\ BGoTo(b, "idle")
    /\ made' = [made EXCEPT ![b] = None]
    /\ tree' = [tree EXCEPT ![b] = "clean"]
    /\ rev' = [rev EXCEPT ![b] = None]

BNext(b, where) == BGoTo(b, where) /\ UNCHANGED <<rev, tree, made>>

\* A cache entry counts as soon as its manifest exists, which is written last.
Build(b) ==
    /\ bpc[b] = "idle"
    /\ \E r \in Revs, force \in BOOLEAN :
          /\ rev' = [rev EXCEPT ![b] = r]
          /\ BGoTo(b, IF cache[r].manifest # None /\ ~force THEN "reuse" ELSE "compile")
    /\ UNCHANGED <<active, cache, tree, made>>

-----------------------------------------------------------------------------
(* The cached revision.                                                    *)

\* A torn manifest does not parse.
ReuseManifest(b) ==
    /\ bpc[b] = "reuse"
    /\ IF cache[rev[b]].manifest = Torn
       THEN BReturn(b)
       ELSE /\ made' = [made EXCEPT ![b] = cache[rev[b]].manifest]
            /\ BGoTo(b, "reuse_shell")
            /\ UNCHANGED <<rev, tree>>
    /\ UNCHANGED <<active, cache>>

ReuseShell(b) ==
    /\ bpc[b] = "reuse_shell"
    /\ bin' = cache[rev[b]].shell
    /\ BNext(b, "reuse_contract")
    /\ UNCHANGED <<contract, manifest, cache>>

ReuseOldContract(b) ==
    /\ bpc[b] = "reuse_contract"
    /\ BNext(b, "open_manifest")
    /\ UNCHANGED <<active, cache>>

ReuseContract(b) ==
    /\ bpc[b] = "reuse_contract"
    /\ contract' = cache[rev[b]].contract
    /\ BNext(b, "open_manifest")
    /\ UNCHANGED <<bin, manifest, cache>>

-----------------------------------------------------------------------------
(* A fresh build.                                                          *)

\* git and cargo: any of them may fail.
Compile(b) ==
    /\ bpc[b] = "compile"
    /\ \/ /\ \E t \in Trees : tree' = [tree EXCEPT ![b] = t]
          /\ BGoTo(b, "shell")
          /\ UNCHANGED <<rev, made>>
       \/ BReturn(b)
    /\ UNCHANGED <<active, cache>>

ActivateShell(b) ==
    /\ bpc[b] = "shell"
    /\ bin' = <<rev[b], tree[b]>>
    /\ BNext(b, "open_contract")
    /\ UNCHANGED <<contract, manifest, cache>>

OpenContract(b) ==
    /\ bpc[b] = "open_contract"
    /\ contract' = Torn
    /\ BNext(b, "contract")
    /\ UNCHANGED <<bin, manifest, cache>>

CopyContract(b) ==
    /\ bpc[b] = "contract"
    /\ contract' = <<rev[b], tree[b]>>
    /\ BNext(b, "describe")
    /\ UNCHANGED <<bin, manifest, cache>>

\* The hashes are taken of the files where they were activated.
Describe(b) ==
    /\ bpc[b] = "describe"
    /\ made' = [made EXCEPT ![b] = [rev |-> rev[b], shell |-> bin, contract |-> contract]]
    /\ BGoTo(b, "status")
    /\ UNCHANGED <<active, cache, rev, tree>>

AnyStatus(b) ==
    /\ bpc[b] = "status"
    /\ BNext(b, "cache_files")
    /\ UNCHANGED <<active, cache>>

\* The checkout is looked at only now, with the binaries already activated.
CheckStatus(b) ==
    /\ bpc[b] = "status"
    /\ IF tree[b] = "dirty" THEN BReturn(b) ELSE BNext(b, "cache_files")
    /\ UNCHANGED <<active, cache>>

Entry(b, entry) == cache' = [cache EXCEPT ![rev[b]] = entry]

\* The shell and the contract are copied into the entry, opened (which truncates
\* them) and filled, and then the manifest.
CacheFiles(b) ==
    /\ \/ /\ bpc[b] = "cache_files"
          /\ Entry(b, [cache[rev[b]] EXCEPT !.shell = Torn, !.contract = Torn])
          /\ BNext(b, "fill_files")
       \/ /\ bpc[b] = "fill_files"
          /\ Entry(b, [cache[rev[b]] EXCEPT !.shell = bin, !.contract = contract])
          /\ BNext(b, "cache_manifest")
    /\ UNCHANGED active

CacheManifest(b) ==
    /\ \/ /\ bpc[b] = "cache_manifest"
          /\ Entry(b, [cache[rev[b]] EXCEPT !.manifest = Torn])
          /\ BNext(b, "fill_manifest")
       \/ /\ bpc[b] = "fill_manifest"
          /\ Entry(b, [cache[rev[b]] EXCEPT !.manifest = made[b]])
          /\ BNext(b, "open_manifest")
    /\ UNCHANGED active

OpenManifest(b) ==
    /\ bpc[b] = "open_manifest"
    /\ manifest' = Torn
    /\ BNext(b, "manifest")
    /\ UNCHANGED <<bin, contract, cache>>

WriteManifest(b) ==
    /\ bpc[b] = "manifest"
    /\ manifest' = made[b]
    /\ BReturn(b)
    /\ UNCHANGED <<bin, contract, cache>>

\* A new entry may be left unfinished: it does not count until its manifest is begun.
BuilderKilled(b) ==
    /\ bpc[b] # "idle"
    /\ \/ CrashInCache
       \/ bpc[b] \notin {"fill_files", "cache_manifest", "fill_manifest"}
       \/ cache[rev[b]].manifest = None
    /\ BReturn(b)
    /\ UNCHANGED <<active, cache>>

-----------------------------------------------------------------------------
ToolchainInit ==
    /\ bin = None
    /\ contract = None
    /\ manifest = None
    /\ cache = [r \in Revs |-> Uncached]
    /\ bpc = [b \in Builders |-> "idle"]
    /\ rev = [b \in Builders |-> None]
    /\ tree = [b \in Builders |-> "clean"]
    /\ made = [b \in Builders |-> None]

BuilderStep(b) ==
    \/ Build(b) \/ ReuseManifest(b) \/ ReuseShell(b) \/ ReuseContract(b)
    \/ Compile(b) \/ ActivateShell(b) \/ OpenContract(b) \/ CopyContract(b)
    \/ Describe(b) \/ CheckStatus(b) \/ CacheFiles(b) \/ CacheManifest(b)
    \/ OpenManifest(b) \/ WriteManifest(b) \/ BuilderKilled(b)

-----------------------------------------------------------------------------
ToolchainTypeOK ==
    /\ bin \in Content \cup {None, Torn}
    /\ contract \in Content \cup {None, Torn}
    /\ manifest \in Manifests \cup {None, Torn}
    /\ cache \in [Revs -> Entries]
    /\ bpc \in [Builders -> {"idle", "reuse", "reuse_shell", "reuse_contract", "compile",
                             "shell", "open_contract", "contract", "describe", "status",
                             "cache_files", "fill_files", "cache_manifest",
                             "fill_manifest", "open_manifest", "manifest"}]
    /\ rev \in [Builders -> Revs \cup {None}]
    /\ tree \in [Builders -> Trees]
    /\ made \in [Builders -> Manifests \cup {None}]

\* A manifest speaks of one build of its revision, from a clean checkout, wherever
\* it lies and whatever was killed or refused before (toolchain.py:91-101).
ManifestIsOneBuild ==
    \A m \in {manifest} \cup {cache[r].manifest : r \in Revs} :
        m \in Manifests => /\ m.shell = <<m.rev, "clean">>
                           /\ m.contract = <<m.rev, "clean">>

\* What build() returns is what is active: the shell and the contract are those the
\* manifest names, of the revision asked for, fresh or from the cache.
BuildReturnsActive ==
    [][\A b \in Builders : bpc[b] = "manifest" /\ bpc'[b] = "idle" /\ manifest' # Torn
         => manifest' = [rev |-> rev[b], shell |-> bin', contract |-> contract']]_toolchain

=============================================================================
