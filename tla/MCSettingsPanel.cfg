SPECIFICATION Spec
CONSTANTS
    Requests = {r1, r2}
    Installed <- MCInstalled
    MaxCrashes = 0
INVARIANT OthersPreserved
