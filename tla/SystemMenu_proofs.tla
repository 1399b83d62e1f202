--------------------------- MODULE SystemMenu_proofs --------------------------
(***************************************************************************)
(* One builder at a time: what the manifest, the cache and the Menu press   *)
(* are worth, for any revisions, contracts and shells, whatever is killed.  *)
(***************************************************************************)
EXTENDS SystemMenu, TLAPS

\* build() takes no lock: one build at a time is left to the user.
OneBuilder == \A b, c \in Builders : b = c

OneBuild(r) == [rev |-> r, shell |-> <<r, "clean">>, contract |-> <<r, "clean">>]

Activated == {"open_contract", "contract", "describe", "status"}
Caching == {"cache_files", "fill_files", "cache_manifest", "fill_manifest"}
Holding == Caching \cup {"open_manifest", "manifest", "reuse_shell", "reuse_contract"}

\* What a builder relies on at each place.
Relies(b) ==
    /\ bpc[b] # "idle" => rev[b] \in Revs
    /\ bpc[b] = "reuse" => cache[rev[b]].manifest # None
    /\ bpc[b] \in Activated => bin = <<rev[b], tree[b]>>
    /\ bpc[b] \in {"describe", "status"} => contract = <<rev[b], tree[b]>>
    /\ bpc[b] = "status" => made[b] = [rev |-> rev[b], shell |-> <<rev[b], tree[b]>>,
                                       contract |-> <<rev[b], tree[b]>>]
    /\ bpc[b] \in Holding => made[b] = OneBuild(rev[b])

Files ==
    /\ manifest \in Manifests => manifest = OneBuild(manifest.rev)
    /\ \A r \in Revs : cache[r].manifest \in Manifests => cache[r].manifest = OneBuild(r)

ToolInv == ToolchainTypeOK /\ (\A b \in Builders : Relies(b)) /\ Files

-----------------------------------------------------------------------------
LEMMA OneBuildIsAManifest ==
    ASSUME NEW r \in Revs
    PROVE  OneBuild(r) \in Manifests /\ OneBuild(r).rev = r
  BY DEF OneBuild, Manifests, Content, Trees

\* Overwriting parts of a cache entry.
LEMMA EntryWithFiles ==
    ASSUME NEW e \in Entries, NEW x \in Content \cup {None, Torn},
           NEW y \in Content \cup {None, Torn}
    PROVE  /\ [e EXCEPT !.shell = x, !.contract = y] \in Entries
           /\ [e EXCEPT !.shell = x, !.contract = y].manifest = e.manifest
           /\ [e EXCEPT !.shell = x, !.contract = y].shell = x
           /\ [e EXCEPT !.shell = x, !.contract = y].contract = y
  BY DEF Entries

LEMMA EntryWithManifest ==
    ASSUME NEW e \in Entries, NEW m \in Manifests \cup {None, Torn}
    PROVE  /\ [e EXCEPT !.manifest = m] \in Entries
           /\ [e EXCEPT !.manifest = m].manifest = m
           /\ [e EXCEPT !.manifest = m].shell = e.shell
           /\ [e EXCEPT !.manifest = m].contract = e.contract
  BY DEF Entries

LEMMA ToolInit == ToolchainInit => ToolInv
<1> SUFFICES ASSUME ToolchainInit
             PROVE  ToolInv
  OBVIOUS
<1> USE ToolchainAssumption DEF ToolchainInit
<1>1. ToolchainTypeOK
  BY DEF ToolchainTypeOK, Trees, Entries, Uncached
<1>2. \A b \in Builders : Relies(b)
  BY DEF Relies, Activated, Holding, Caching
<1>3. Files
  BY DEF Files, Uncached
<1> QED
  BY <1>1, <1>2, <1>3 DEF ToolInv

\* A builder that returns holds nothing and relies on nothing.
LEMMA Returning ==
    ASSUME ToolInv, OneBuilder, NEW b \in Builders, BReturn(b), UNCHANGED cache,
           bin' \in Content \cup {None, Torn}, contract' \in Content \cup {None, Torn},
           manifest' \in Manifests \cup {None, Torn},
           manifest' \in Manifests => manifest' = OneBuild(manifest'.rev)
    PROVE  ToolInv'
<1> USE DEF BReturn, BGoTo, ToolInv
<1>1. ToolchainTypeOK'
  BY DEF ToolchainTypeOK, Trees
<1>2. \A c \in Builders : Relies(c)'
  BY DEF ToolchainTypeOK, Relies, Activated, Holding, Caching, OneBuilder
<1>3. Files'
  BY DEF Files
<1> QED
  BY <1>1, <1>2, <1>3

LEMMA BuildStep ==
    ASSUME ToolInv, OneBuilder, NEW b \in Builders, Build(b)
    PROVE  ToolInv'
<1> USE DEF Build, BGoTo, active, ToolInv
<1>1. ToolchainTypeOK'
  BY DEF ToolchainTypeOK
<1>2. Relies(b)'
  BY ToolchainAssumption DEF ToolchainTypeOK, Relies, Activated, Holding, Caching
<1>3. Files'
  BY DEF Files
<1> QED
  BY <1>1, <1>2, <1>3 DEF OneBuilder

\* A cached revision.
LEMMA ReuseStep ==
    ASSUME ToolInv, OneBuilder, NEW b \in Builders,
           ReuseManifest(b) \/ ReuseShell(b) \/ ReuseContract(b)
    PROVE  ToolInv'
<1> USE DEF BNext, BGoTo, active, ToolInv
<1>1. CASE ReuseManifest(b)
  <2>1. CASE cache[rev[b]].manifest = Torn
    BY <1>1, <2>1, Returning DEF ReuseManifest, ToolchainTypeOK, Files
  <2>2. CASE cache[rev[b]].manifest # Torn
    <3>1. cache[rev[b]].manifest \in Manifests /\ rev[b] \in Revs
      BY <1>1, <2>2 DEF ReuseManifest, Relies, ToolchainTypeOK, Entries
    <3>2. ToolchainTypeOK'
      BY <1>1, <2>2, <3>1 DEF ReuseManifest, ToolchainTypeOK
    <3>3. made'[b] = OneBuild(rev[b])
      BY <1>1, <2>2, <3>1 DEF ReuseManifest, Files, ToolchainTypeOK
    <3>4. Relies(b)'
      BY <1>1, <2>2, <3>1, <3>3
         DEF ReuseManifest, Relies, ToolchainTypeOK, Activated, Holding, Caching
    <3>5. Files'
      BY <1>1, <2>2 DEF ReuseManifest, Files
    <3> QED
      BY <3>2, <3>4, <3>5 DEF OneBuilder
  <2> QED
    BY <2>1, <2>2
<1>2. CASE ReuseShell(b) \/ ReuseContract(b)
  <2>1. rev[b] \in Revs
    BY <1>2 DEF ReuseShell, ReuseContract, Relies
  <2>2. ToolchainTypeOK'
    BY <1>2, <2>1 DEF ReuseShell, ReuseContract, ToolchainTypeOK, Entries
  <2>3. Relies(b)'
    BY <1>2 DEF ReuseShell, ReuseContract, Relies, ToolchainTypeOK, Activated, Holding, Caching
  <2>4. Files'
    BY <1>2 DEF ReuseShell, ReuseContract, Files
  <2> QED
    BY <2>2, <2>3, <2>4 DEF OneBuilder
<1> QED
  BY <1>1, <1>2

\* A fresh build, as far as its manifest.
LEMMA CompileStep ==
    ASSUME ToolInv, OneBuilder, NEW b \in Builders, Compile(b)
    PROVE  ToolInv'
<1> USE DEF BGoTo, active, ToolInv
<1>1. CASE BReturn(b)
  BY <1>1, Returning DEF Compile, ToolchainTypeOK, Files
<1>2. CASE ~BReturn(b)
  <2>1. ToolchainTypeOK'
    BY <1>2 DEF Compile, ToolchainTypeOK
  <2>2. Relies(b)'
    BY <1>2 DEF Compile, Relies, ToolchainTypeOK, Activated, Holding, Caching
  <2>3. Files'
    BY <1>2 DEF Compile, Files
  <2> QED
    BY <2>1, <2>2, <2>3 DEF OneBuilder
<1> QED
  BY <1>1, <1>2

LEMMA ActivateStep ==
    ASSUME ToolInv, OneBuilder, NEW b \in Builders,
           ActivateShell(b) \/ OpenContract(b) \/ CopyContract(b)
    PROVE  ToolInv'
<1> USE DEF BNext, BGoTo, ActivateShell, OpenContract, CopyContract, ToolInv
<1>1. rev[b] \in Revs /\ tree[b] \in Trees
  BY DEF Relies, ToolchainTypeOK
<1>2. ToolchainTypeOK'
  BY <1>1 DEF ToolchainTypeOK, Content
<1>3. Relies(b)'
  BY DEF Relies, ToolchainTypeOK, Activated, Holding, Caching
<1>4. Files'
  BY DEF Files
<1> QED
  BY <1>2, <1>3, <1>4 DEF OneBuilder

LEMMA DescribeStep ==
    ASSUME ToolInv, OneBuilder, NEW b \in Builders, Describe(b) \/ CheckStatus(b)
    PROVE  ToolInv'
<1> USE DEF BGoTo, active, ToolInv
<1>1. rev[b] \in Revs /\ tree[b] \in Trees
  BY DEF Describe, CheckStatus, Relies, ToolchainTypeOK
<1>2. CASE Describe(b)
  <2>1. [rev |-> rev[b], shell |-> bin, contract |-> contract] \in Manifests
    <3>1. bin = <<rev[b], tree[b]>> /\ contract = <<rev[b], tree[b]>>
      BY <1>2 DEF Describe, Relies, Activated
    <3>2. bin \in Content /\ contract \in Content
      BY <1>1, <3>1 DEF Content
    <3> QED
      BY <1>1, <3>2 DEF Manifests
  <2>2. ToolchainTypeOK'
    BY <1>2, <2>1 DEF Describe, ToolchainTypeOK
  <2>3. Relies(b)'
    BY <1>2 DEF Describe, Relies, ToolchainTypeOK, Activated, Holding, Caching
  <2>4. Files'
    BY <1>2 DEF Describe, Files
  <2> QED
    BY <2>2, <2>3, <2>4 DEF OneBuilder
<1>3. CASE CheckStatus(b)
  <2>1. CASE tree[b] = "dirty"
    BY <1>3, <2>1, Returning DEF CheckStatus, ToolchainTypeOK, Files
  <2>2. CASE tree[b] = "clean"
    <3>1. ToolchainTypeOK'
      BY <1>3, <2>2 DEF CheckStatus, BNext, ToolchainTypeOK
    <3>2. Relies(b)'
      BY <1>3, <2>2
         DEF CheckStatus, BNext, Relies, ToolchainTypeOK, Activated, Holding, Caching, OneBuild
    <3>3. Files'
      BY <1>3, <2>2 DEF CheckStatus, BNext, Files
    <3> QED
      BY <3>1, <3>2, <3>3 DEF OneBuilder
  <2> QED
    BY <1>1, <2>1, <2>2 DEF Trees
<1> QED
  BY <1>2, <1>3

LEMMA CacheStep ==
    ASSUME ToolInv, OneBuilder, NEW b \in Builders, CacheFiles(b) \/ CacheManifest(b)
    PROVE  ToolInv'
<1> USE DEF BNext, BGoTo, active, ToolInv
<1>1. /\ rev[b] \in Revs /\ cache[rev[b]] \in Entries
      /\ made[b] = OneBuild(rev[b]) /\ bpc[b] \in Caching
      /\ bpc[b] \in {"fill_files", "cache_manifest"} =>
           bin \in Content \cup {None, Torn} /\ contract \in Content \cup {None, Torn}
  BY DEF CacheFiles, CacheManifest, Relies, ToolchainTypeOK, Holding, Caching
<1>2. PICK e \in Entries : /\ cache' = [cache EXCEPT ![rev[b]] = e]
                           /\ e.manifest \in {cache[rev[b]].manifest, Torn, made[b]}
  <2>1. CASE CacheFiles(b) /\ bpc[b] = "cache_files"
    <3> DEFINE e == [cache[rev[b]] EXCEPT !.shell = Torn, !.contract = Torn]
    <3>1. e \in Entries /\ e.manifest = cache[rev[b]].manifest
      <4>1. Torn \in Content \cup {None, Torn}
        OBVIOUS
      <4> QED
        BY <1>1, <4>1 DEF Entries
    <3>2. cache' = [cache EXCEPT ![rev[b]] = e]
      BY <2>1 DEF CacheFiles, Entry
    <3> QED
      BY <3>1, <3>2
  <2>2. CASE CacheFiles(b) /\ bpc[b] = "fill_files"
    <3> DEFINE e == [cache[rev[b]] EXCEPT !.shell = bin, !.contract = contract]
    <3>1. e \in Entries /\ e.manifest = cache[rev[b]].manifest
      <4>1. bin \in Content \cup {None, Torn} /\ contract \in Content \cup {None, Torn}
        BY <1>1, <2>2
      <4> QED
        BY <1>1, <4>1 DEF Entries
    <3>2. cache' = [cache EXCEPT ![rev[b]] = e]
      BY <2>2 DEF CacheFiles, Entry
    <3> QED
      BY <3>1, <3>2
  <2>3. CASE CacheManifest(b) /\ bpc[b] = "cache_manifest"
    <3> DEFINE e == [cache[rev[b]] EXCEPT !.manifest = Torn]
    <3>1. e \in Entries /\ e.manifest = Torn
      BY <1>1, <2>3, EntryWithManifest
    <3>2. cache' = [cache EXCEPT ![rev[b]] = e]
      BY <2>3 DEF CacheManifest, Entry
    <3> QED
      BY <3>1, <3>2
  <2>4. CASE CacheManifest(b) /\ bpc[b] = "fill_manifest"
    <3> DEFINE e == [cache[rev[b]] EXCEPT !.manifest = made[b]]
    <3>1. e \in Entries /\ e.manifest = made[b]
      BY <1>1, <2>4, EntryWithManifest, OneBuildIsAManifest
    <3>2. cache' = [cache EXCEPT ![rev[b]] = e]
      BY <2>4 DEF CacheManifest, Entry
    <3> QED
      BY <3>1, <3>2
  <2> QED
    BY <2>1, <2>2, <2>3, <2>4 DEF CacheFiles, CacheManifest
<1>3. ToolchainTypeOK'
  BY <1>1, <1>2 DEF CacheFiles, CacheManifest, ToolchainTypeOK
<1>4. Relies(b)'
  BY <1>1, <1>2
     DEF CacheFiles, CacheManifest, Relies, ToolchainTypeOK, Activated, Holding, Caching
<1>5. Files'
  <2>1. e.manifest \in Manifests => e.manifest = OneBuild(rev[b])
    BY <1>1, <1>2, ToolchainAssumption DEF Files
  <2>2. manifest' = manifest
    BY DEF CacheFiles, CacheManifest
  <2> QED
    BY <1>1, <1>2, <2>1, <2>2 DEF Files, ToolchainTypeOK
<1> QED
  BY <1>3, <1>4, <1>5 DEF OneBuilder

LEMMA FinishStep ==
    ASSUME ToolInv, OneBuilder, NEW b \in Builders,
           OpenManifest(b) \/ WriteManifest(b) \/ BuilderKilled(b)
    PROVE  ToolInv'
<1> USE DEF active, ToolInv
<1>1. CASE OpenManifest(b)
  <2>1. ToolchainTypeOK'
    BY <1>1 DEF OpenManifest, BNext, BGoTo, ToolchainTypeOK
  <2>2. Relies(b)'
    BY <1>1 DEF OpenManifest, BNext, BGoTo, Relies, ToolchainTypeOK, Activated, Holding, Caching
  <2>3. Files'
    BY <1>1, ToolchainAssumption DEF OpenManifest, Files
  <2> QED
    BY <2>1, <2>2, <2>3, <1>1 DEF OneBuilder, OpenManifest, BNext
<1>2. CASE WriteManifest(b)
  <2>1. manifest' = OneBuild(rev[b]) /\ rev[b] \in Revs
    BY <1>2 DEF WriteManifest, Relies, Holding
  <2> QED
    BY <1>2, <2>1, Returning, OneBuildIsAManifest DEF WriteManifest, ToolchainTypeOK
<1>3. CASE BuilderKilled(b)
  BY <1>3, Returning DEF BuilderKilled, ToolchainTypeOK, Files
<1> QED
  BY <1>1, <1>2, <1>3

LEMMA ToolStep ==
    ASSUME ToolInv, OneBuilder, [Next]_vars
    PROVE  ToolInv'
<1>1. CASE UNCHANGED toolchain
  BY <1>1 DEF toolchain, active, builders, ToolInv, ToolchainTypeOK, Relies, Files
<1>2. CASE ToolchainStep
  <2>1. PICK b \in Builders : BuilderStep(b)
    BY <1>2 DEF ToolchainStep
  <2> QED
    BY <2>1, BuildStep, ReuseStep, CompileStep, ActivateStep, DescribeStep, CacheStep, FinishStep
       DEF BuilderStep
<1> QED
  BY <1>1, <1>2
     DEF Next, vars, InstanceStep, MenuStep, UpManifest, UpDescribe, UpSpawn, Apply, Down,
         MenuRun, MenuManifest, MenuContract, MenuPress, MenuFails

LEMMA ToolInvariant ==
    ASSUME OneBuilder
    PROVE  Spec => []ToolInv
<1>1. Init => ToolInv
  BY ToolInit DEF Init
<1>2. ToolInv /\ [Next]_vars => ToolInv'
  BY ToolStep
<1> QED
  BY <1>1, <1>2, PTL DEF Spec

\* toolchain.py:91-101: with one build at a time a manifest speaks of one clean
\* build, for any revisions, however many builds were refused or killed anywhere.
THEOREM ManifestsAreOneBuild ==
    ASSUME OneBuilder
    PROVE  Spec => []ManifestIsOneBuild
<1>1. ToolInv => ManifestIsOneBuild
  <2> SUFFICES ASSUME ToolInv,
                      NEW m \in {manifest} \cup {cache[r].manifest : r \in Revs},
                      m \in Manifests
               PROVE  m.shell = <<m.rev, "clean">> /\ m.contract = <<m.rev, "clean">>
    BY DEF ManifestIsOneBuild
  <2>1. \E r : m = OneBuild(r)
    BY DEF ToolInv, Files
  <2> QED
    BY <2>1 DEF OneBuild
<1> QED
  BY <1>1, ToolInvariant, PTL

-----------------------------------------------------------------------------
(* What a build leaves active.                                             *)

Whole(r) == cache[r].shell = <<r, "clean">> /\ cache[r].contract = <<r, "clean">>

\* What is active while a builder describes it, and what it takes from the cache.
Settled(b) ==
    /\ bpc[b] \in Caching \cup {"open_manifest", "manifest"} =>
         bin = <<rev[b], "clean">> /\ contract = <<rev[b], "clean">>
    /\ bpc[b] = "reuse_contract" => bin = <<rev[b], "clean">>
    /\ bpc[b] \in {"reuse_shell", "reuse_contract", "cache_manifest", "fill_manifest"} =>
         Whole(rev[b])
    /\ bpc[b] = "manifest" => manifest = Torn

\* An entry that counts is whole, unless a builder is filling it.
Cached ==
    \A r \in Revs : cache[r].manifest # None =>
        Whole(r) \/ \E b \in Builders : bpc[b] = "fill_files" /\ rev[b] = r

ActiveInv == (\A b \in Builders : Settled(b)) /\ Cached

\* While nobody writes to the cache the entries stay as they are.
LEMMA CachedKept ==
    ASSUME Cached, UNCHANGED cache, OneBuilder, NEW b \in Builders,
           bpc[b] # "fill_files" \/ cache[rev[b]].manifest = None
    PROVE  Cached'
  BY DEF Cached, Whole, OneBuilder

LEMMA ActiveStep ==
    ASSUME ToolInv, ActiveInv, OneBuilder, ~CrashInCache, NEW b \in Builders, BuilderStep(b)
    PROVE  ActiveInv'
<1> USE DEF ActiveInv, BNext, BGoTo, active
<1> SUFFICES Settled(b)' /\ Cached'
  BY DEF OneBuilder
<1> USE DEF ToolInv, ToolchainTypeOK
<1>1. CASE Build(b)
  <2>1. Cached'
    BY <1>1, CachedKept DEF Build
  <2>2. Settled(b)'
    BY <1>1 DEF Build, Settled, Caching
  <2> QED
    BY <2>1, <2>2
<1>2. CASE ReuseManifest(b)
  <2>1. Cached'
    BY <1>2, CachedKept DEF ReuseManifest
  <2>2. rev[b] \in Revs /\ Whole(rev[b])
    BY <1>2 DEF ReuseManifest, Relies, Cached, OneBuilder
  <2>3. Settled(b)'
    BY <1>2, <2>2 DEF ReuseManifest, BReturn, Settled, Caching, Whole
  <2> QED
    BY <2>1, <2>3
<1>3. CASE ReuseShell(b) \/ ReuseContract(b)
  <2>1. Cached'
    BY <1>3, CachedKept DEF ReuseShell, ReuseContract
  <2>2. Settled(b)'
    BY <1>3 DEF ReuseShell, ReuseContract, Settled, Caching, Whole
  <2> QED
    BY <2>1, <2>2
<1>4. CASE Compile(b) \/ ActivateShell(b) \/ OpenContract(b) \/ CopyContract(b) \/ Describe(b)
  <2>1. Cached'
    BY <1>4, CachedKept DEF Compile, ActivateShell, OpenContract, CopyContract, Describe
  <2>2. Settled(b)'
    BY <1>4
       DEF Compile, ActivateShell, OpenContract, CopyContract, Describe, BReturn, Settled, Caching
  <2> QED
    BY <2>1, <2>2
<1>5. CASE CheckStatus(b)
  <2>1. Cached'
    BY <1>5, CachedKept DEF CheckStatus
  <2>2. tree[b] = "dirty" \/ tree[b] = "clean"
    BY DEF Trees
  <2>3. bin = <<rev[b], tree[b]>> /\ contract = <<rev[b], tree[b]>>
    BY <1>5 DEF CheckStatus, Relies, Activated
  <2>4. Settled(b)'
    BY <1>5, <2>2, <2>3 DEF CheckStatus, BReturn, Settled, Caching
  <2> QED
    BY <2>1, <2>4
<1>6. CASE CacheFiles(b) \/ CacheManifest(b)
  <2>1. rev[b] \in Revs /\ cache[rev[b]] \in Entries
    BY <1>6 DEF CacheFiles, CacheManifest, Relies
  <2>2. bin = <<rev[b], "clean">> /\ contract = <<rev[b], "clean">>
    BY <1>6 DEF CacheFiles, CacheManifest, Settled, Caching
  <2>3. \A r \in Revs : r # rev[b] => cache'[r] = cache[r]
    BY <1>6, <2>1 DEF CacheFiles, CacheManifest, Entry
  <2>4. \/ bpc'[b] = "fill_files" /\ rev' = rev
        \/ bpc'[b] = "cache_manifest" /\ rev' = rev /\ Whole(rev[b])'
        \/ bpc'[b] \in {"fill_manifest", "open_manifest"} /\ rev' = rev /\ Whole(rev[b])'
    <3>1. CASE CacheFiles(b) /\ bpc[b] = "cache_files"
      BY <3>1 DEF CacheFiles
    <3>2. CASE CacheFiles(b) /\ bpc[b] = "fill_files"
      <4>1. cache'[rev[b]] = [cache[rev[b]] EXCEPT !.shell = bin, !.contract = contract]
        BY <2>1, <3>2 DEF CacheFiles, Entry
      <4>2. cache'[rev[b]].shell = bin /\ cache'[rev[b]].contract = contract
        BY <2>1, <4>1 DEF Entries
      <4> QED
        BY <2>2, <3>2, <4>2 DEF CacheFiles, Whole
    <3>3. CASE CacheManifest(b)
      <4>1. /\ cache'[rev[b]].shell = cache[rev[b]].shell
            /\ cache'[rev[b]].contract = cache[rev[b]].contract
        <5>1. \E m : cache'[rev[b]] = [cache[rev[b]] EXCEPT !.manifest = m]
          BY <2>1, <3>3 DEF CacheManifest, Entry
        <5> QED
          BY <2>1, <5>1 DEF Entries
      <4>2. Whole(rev[b]) /\ bpc'[b] \in {"fill_manifest", "open_manifest"} /\ rev' = rev
        BY <3>3 DEF CacheManifest, Settled
      <4> QED
        BY <4>1, <4>2 DEF Whole
    <3> QED
      BY <1>6, <3>1, <3>2, <3>3 DEF CacheFiles
  <2>5. Cached'
    BY <2>3, <2>4, <1>6 DEF Cached, Whole, OneBuilder, CacheFiles, CacheManifest
  <2>6. Settled(b)'
    BY <2>2, <2>4, <1>6 DEF Settled, Caching, CacheFiles, CacheManifest
  <2> QED
    BY <2>5, <2>6
<1>7. CASE OpenManifest(b) \/ WriteManifest(b) \/ BuilderKilled(b)
  <2>1. Cached'
    BY <1>7, CachedKept DEF OpenManifest, WriteManifest, BuilderKilled
  <2>2. Settled(b)'
    BY <1>7 DEF OpenManifest, WriteManifest, BuilderKilled, BReturn, Settled, Caching
  <2> QED
    BY <2>1, <2>2
<1> QED
  BY <1>1, <1>2, <1>3, <1>4, <1>5, <1>6, <1>7 DEF BuilderStep

\* Every step is one of a builder, or leaves the toolchain alone.
LEMMA StepOfWhom ==
    ASSUME [Next]_vars
    PROVE  UNCHANGED toolchain \/ \E b \in Builders : BuilderStep(b)
BY DEF Next, vars, ToolchainStep, InstanceStep, MenuStep, UpManifest, UpDescribe, UpSpawn,
       Apply, Down, MenuRun, MenuManifest, MenuContract, MenuPress, MenuFails

LEMMA ActiveInvariant ==
    ASSUME OneBuilder, ~CrashInCache
    PROVE  Spec => [](ToolInv /\ ActiveInv)
<1>1. Init => ActiveInv
  BY DEF Init, ToolchainInit, Uncached, ActiveInv, Settled, Caching, Cached
<1>2. ToolInv /\ ActiveInv /\ [Next]_vars => ActiveInv'
  <2>1. ASSUME ActiveInv, UNCHANGED toolchain
        PROVE  ActiveInv'
    BY <2>1 DEF toolchain, active, builders, ActiveInv, Settled, Cached, Whole
  <2> QED
    BY <2>1, StepOfWhom, ActiveStep
<1> QED
  BY <1>1, <1>2, ToolInvariant, PTL DEF Spec

\* toolchain.py:177-218: what build() returns is what it leaves active, fresh or from
\* the cache, for any revisions, when one build runs at a time and none is killed
\* over a cache entry.
THEOREM BuildsReturnWhatIsActive ==
    ASSUME OneBuilder, ~CrashInCache
    PROVE  Spec => BuildReturnsActive
<1> DEFINE Returns ==
        \A b \in Builders : bpc[b] = "manifest" /\ bpc'[b] = "idle" /\ manifest' # Torn
           => manifest' = [rev |-> rev[b], shell |-> bin', contract |-> contract']
<1>1. ToolInv /\ ActiveInv /\ [Next]_vars => [Returns]_toolchain
  <2> SUFFICES ASSUME ToolInv, ActiveInv, NEW c \in Builders, BuilderStep(c),
                      NEW b \in Builders, bpc[b] = "manifest", bpc'[b] = "idle",
                      manifest' # Torn
               PROVE  manifest' = [rev |-> rev[b], shell |-> bin', contract |-> contract']
    BY StepOfWhom
  <2>1. WriteManifest(b) \/ UNCHANGED manifest
    <3>1. CASE b = c
      BY <3>1
         DEF BuilderStep, Build, ReuseManifest, ReuseShell, ReuseContract, Compile, ActivateShell,
             OpenContract, CopyContract, Describe, CheckStatus, CacheFiles, CacheManifest,
             OpenManifest, BuilderKilled, active
    <3>2. CASE b # c
      BY <3>2
         DEF BuilderStep, Build, ReuseManifest, ReuseShell, ReuseContract, Compile, ActivateShell,
             OpenContract, CopyContract, Describe, CheckStatus, CacheFiles, CacheManifest,
             OpenManifest, WriteManifest, BuilderKilled, BReturn, BNext, BGoTo, active,
             ToolInv, ToolchainTypeOK
    <3> QED
      BY <3>1, <3>2
  <2>2. manifest = Torn
    BY DEF ActiveInv, Settled
  <2>3. WriteManifest(b)
    BY <2>1, <2>2
  <2>4. bin' = <<rev[b], "clean">> /\ contract' = <<rev[b], "clean">>
    BY <2>3 DEF WriteManifest, ActiveInv, Settled
  <2>5. manifest' = OneBuild(rev[b])
    BY <2>3 DEF WriteManifest, ToolInv, Relies, Holding
  <2> QED
    BY <2>4, <2>5 DEF OneBuild
<1> HIDE DEF Returns
<1>2. [](ToolInv /\ ActiveInv) /\ [][Next]_vars => [][Returns]_toolchain
  BY <1>1, PTL
<1>3. Spec => [][Returns]_toolchain
  BY <1>2, ActiveInvariant, PTL DEF Spec
<1> QED
  BY <1>3 DEF BuildReturnsActive, Returns

-----------------------------------------------------------------------------
(* The Menu press.                                                         *)

\* What up(), apply() and send() hold at each place.
InstanceInv ==
    /\ run \in Runs \cup {None}
    /\ shell \in Shells \cup {None}
    /\ ipc \in {"idle", "describe", "spawn"}
    /\ upRev \in Revs \cup {None}
    /\ ipc = "describe" => upRev \in Revs
    /\ ipc = "spawn" \/ shell # None => run \in Runs

Seen == [rev : Revs, shell : Shells \cup {Torn}]

MenuInv ==
    /\ mpc \in {"idle", "manifest", "contract", "press"}
    /\ seen \in Seen \cup {None}
    /\ trusted \in Manifests \cup {None}
    /\ bytes \in Content \cup {None}
    /\ sent \in [recorded : Shells, contract : Content, running : Shells] \cup {None}
    /\ mpc = "manifest" => seen \in Seen
    /\ mpc \in {"contract", "press"} =>
         /\ trusted \in Manifests /\ trusted = OneBuild(trusted.rev)
         /\ seen \in Seen /\ seen.shell = trusted.shell
    /\ mpc = "press" => bytes = trusted.contract /\ bytes \in Binds
    /\ sent # None => sent.recorded = sent.contract /\ sent.contract \in Binds

LEMMA InstanceStepHolds ==
    ASSUME ToolInv, InstanceInv, [Next]_vars
    PROVE  InstanceInv'
<1> USE ToolchainAssumption, MenuAssumption DEF InstanceInv
<1>1. CASE UpManifest
  BY <1>1 DEF UpManifest, ToolInv, ToolchainTypeOK, Manifests
<1>2. CASE UpDescribe
  <2>1. bin # None => bin \in Shells \cup {Torn}
    BY DEF Shells, ToolInv, ToolchainTypeOK
  <2> QED
    BY <1>2, <2>1 DEF UpDescribe, Runs, Shells
<1>3. CASE UpSpawn \/ Apply
  <2>1. shell' \in Shells \cup {None}
    BY <1>3 DEF UpSpawn, Apply, ShellStarts, Shells, ToolInv, ToolchainTypeOK
  <2> QED
    BY <1>3, <2>1 DEF UpSpawn, Apply
<1>4. CASE Down
  BY <1>4 DEF Down
<1>5. CASE UNCHANGED instance
  BY <1>5 DEF instance
<1> QED
  BY <1>1, <1>2, <1>3, <1>4, <1>5
     DEF Next, vars, ToolchainStep, InstanceStep, MenuStep,
         MenuRun, MenuManifest, MenuContract, MenuPress, MenuFails

LEMMA MenuStepHolds ==
    ASSUME ToolInv, InstanceInv, MenuInv, [Next]_vars
    PROVE  MenuInv'
<1> USE ToolchainAssumption, MenuAssumption DEF MenuInv, MGoTo
<1>1. CASE MenuRun
  <2>1. seen' \in Seen
    BY <1>1 DEF MenuRun, InstanceInv, Runs, Seen
  <2> QED
    BY <1>1, <2>1 DEF MenuRun
<1>2. CASE MenuManifest
  <2>1. CASE manifest \in Manifests /\ seen = [rev |-> manifest.rev, shell |-> manifest.shell]
    <3>1. manifest = OneBuild(manifest.rev) /\ seen.shell = manifest.shell
      BY <2>1 DEF ToolInv, Files
    <3>2. trusted' = manifest /\ mpc' = "contract" /\ UNCHANGED <<seen, bytes, sent>>
      BY <1>2, <2>1 DEF MenuManifest
    <3> QED
      BY <2>1, <3>1, <3>2, <1>2 DEF MenuManifest
  <2>2. CASE Refuse
    BY <2>2 DEF Refuse
  <2> QED
    BY <1>2, <2>1, <2>2 DEF MenuManifest
<1>3. CASE MenuContract
  BY <1>3 DEF MenuContract, Refuse, ToolInv, ToolchainTypeOK
<1>4. CASE MenuPress
  <2>1. trusted.rev \in Revs /\ seen.shell = trusted.contract /\ bytes = trusted.contract
    <3>1. trusted \in Manifests /\ trusted = OneBuild(trusted.rev)
      BY <1>4 DEF MenuPress
    <3>2. trusted.rev \in Revs
      BY <3>1 DEF Manifests
    <3>3. trusted.shell = <<trusted.rev, "clean">> /\ trusted.contract = <<trusted.rev, "clean">>
      BY <3>1 DEF OneBuild
    <3> QED
      BY <1>4, <3>2, <3>3 DEF MenuPress
  <2>2. seen.shell = bytes /\ bytes \in Binds /\ bytes \in Content /\ bytes \in Shells
    BY <1>4, <2>1 DEF MenuPress, Shells
  <2>3. sent' = [recorded |-> bytes, contract |-> bytes, running |-> shell] /\ shell \in Shells
    BY <1>4, <2>2 DEF MenuPress, InstanceInv
  <2> QED
    BY <1>4, <2>2, <2>3 DEF MenuPress
<1>5. CASE MenuFails
  BY <1>5 DEF MenuFails, Refuse
<1>6. CASE UNCHANGED menu
  BY <1>6 DEF menu
<1> QED
  BY <1>1, <1>2, <1>3, <1>4, <1>5, <1>6
     DEF Next, vars, ToolchainStep, InstanceStep, MenuStep, UpManifest, UpDescribe, UpSpawn,
         Apply, Down

LEMMA MenuInvariant ==
    ASSUME OneBuilder
    PROVE  Spec => [](ToolInv /\ InstanceInv /\ MenuInv)
<1>1. Init => InstanceInv /\ MenuInv
  BY DEF Init, InstanceInv, MenuInv
<1>2. ToolInv /\ InstanceInv /\ MenuInv /\ [Next]_vars => InstanceInv' /\ MenuInv'
  BY InstanceStepHolds, MenuStepHolds
<1> QED
  BY <1>1, <1>2, ToolInvariant, PTL DEF Spec

\* The files, the records and what send() holds have the values they may have.
THEOREM TypesAreKept ==
    ASSUME OneBuilder
    PROVE  Spec => []TypeOK
<1>1. ToolInv /\ InstanceInv /\ MenuInv => TypeOK
  BY DEF ToolInv, InstanceInv, MenuInv, TypeOK, Seen
<1> QED
  BY <1>1, MenuInvariant, PTL

\* system_menu.py:34-82: the press goes out only on the word of the contract built
\* with the shell that run.json records, whatever contracts bind, with up(), apply(),
\* down() and a build between any two of its reads.
THEOREM MenuPressIsProven ==
    ASSUME OneBuilder
    PROVE  Spec => []MenuFailsClosed
<1>1. MenuInv => MenuFailsClosed
  BY DEF MenuInv, MenuFailsClosed
<1> QED
  BY <1>1, MenuInvariant, PTL

=============================================================================
