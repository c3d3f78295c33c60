\* A partial release is completed after main has advanced.
CONSTANTS
    Operators = {o1}
    Versions = {v1}
    api = api
    web = web
    Packages <- BothPackages
    NoImage = NoImage
    Practices <- AsDocumented
    MaxCommits = 2
SPECIFICATION ReleaseSpec
INVARIANTS
    PartialReleaseCompletable
CHECK_DEADLOCK FALSE
