SPECIFICATION Spec
CONSTANTS
    Chain <- TheChain
    Patched <- TheTree
    Shadowed <- ShadowedEdits
    NotIdempotent <- NotIdempotentScripts
    MaxFaults = 1
    MaxHandRuns = 1
INVARIANTS BuiltIsWhole ScriptsWhole PristineNeverFails RestartLeavesNoTrace
PROPERTIES RerunChangesNothing ImplementsLedger
CHECK_DEADLOCK FALSE
