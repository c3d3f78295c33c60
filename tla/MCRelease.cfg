\* Two operators with several agreements between them; two commits.
CONSTANTS
    Operators = {o1, o2}
    Versions = {v1}
    api = api
    web = web
    Packages <- BothPackages
    NoImage = NoImage
    Practices <- FourPractices
    MaxCommits = 2
SPECIFICATION ReleaseSpec
SYMMETRY OperatorSymmetry
INVARIANTS
    ReleaseTypeOK
    LabelTellsContent
    NoPredictablePartial
    LabelledFromMain
    OneCommitPerVersion
PROPERTIES
    TagsImmutable
CHECK_DEADLOCK FALSE
