SPECIFICATION Spec
CONSTANTS
    r1 = r1
    r2 = r2
    Repo = {r1, r2}
    MaxEvents = 3
    Internal = {3}
    MaxFaults = 2
SYMMETRY Symmetry
INVARIANTS
    StateAndOutboxAgree
    OneCommitPerScope
    PublishedAfterCommit
    CancellationSurfaces
PROPERTIES
    CommitsOwnScopeOnly
