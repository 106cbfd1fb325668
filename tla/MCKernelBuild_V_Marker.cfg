SPECIFICATION Spec
CONSTANTS
    Chain <- TheChain
    Patched <- TheTree
    Shadowed <- ShadowedEdits
    NotIdempotent <- NotIdempotentScripts
    MaxFaults = 0
    MaxHandRuns = 0
INVARIANT StepsEffective
CHECK_DEADLOCK FALSE
