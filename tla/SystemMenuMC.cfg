\* One build at a time over two revisions, killed anywhere but over the files of a cache entry.
CONSTANTS
    Builders = {b1}
    Revs = {r1, r2}
    CrashInCache = FALSE
    Overlap = TRUE
    None = None
    Torn = Torn
    Foreign = Foreign
    Binds <- CleanBinds
SPECIFICATION Spec
SYMMETRY Symmetry
INVARIANTS TypeOK ManifestIsOneBuild MenuFailsClosed
PROPERTIES BuildReturnsActive
