\* Two logins at a time, of two users, from two browsers.
CONSTANTS
    b1 = b1
    b2 = b2
    Browsers = {b1, b2}
    MaxStarts = 2
    l1 = l1
    l2 = l2
    Logins = {l1, l2}
    ann = ann
    bob = bob
    Subjects = {ann, bob}
    x = x
    y = y
    owner = owner
    Mails = {x, y, owner}
    OwnerMail = owner
    Nobody = Nobody
    Entries <- SomeEntries
    Directories <- Realms
    Settings <- OpenAndClosed
    MaxEdits = 1
    MaxLosses = 2
    MaxCrashes = 1
SPECIFICATION Spec
SYMMETRY SsoSymmetry
CONSTRAINT FewFaults
INVARIANTS
    SsoTypeOK
    SessionMeansMember
    SettledUnderClaims
    AccountsHaveOneSubject
    SomeLoginMoves
PROPERTIES
    HonoursStandingStart
    AccessFollowsToken
    KeepsAccess
CHECK_DEADLOCK FALSE
