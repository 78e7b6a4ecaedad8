\* One request in the file at boot, one arriving later; concurrent admin calls; restart.
SPECIFICATION Spec
CONSTANTS
    r1 = r1
    r2 = r2
    a1 = a1
    a2 = a2
    Requests = {r1, r2}
    Preloaded = {r1}
    None = None
    Admins = {a1, a2}
    MaxKeys = 3
    MaxBoots = 2
SYMMETRY AdminSymmetry
\* Once every request is decided, further calls are refused without effect.
CHECK_DEADLOCK FALSE
INVARIANTS
    OneDecisionPerBoot NoOrphanKey ReleasedKeyLive DecisionFinal
