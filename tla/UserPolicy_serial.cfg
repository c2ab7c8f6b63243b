SPECIFICATION Spec
CONSTANTS
    a = a
    b = b
    Slugs <- TwoSlugs
    Signups <- ThreeSignups
    MaxRestarts = 2
    Faults <- Serial
INVARIANTS
    SignedUpRecognized
    LeftoverIsLogged
PROPERTY
    BootRepairs
CHECK_DEADLOCK FALSE
