SPECIFICATION Spec
CONSTANTS
    Clients = {agent, rest}
    Rest = rest
    Keys = {k}
    Leaves = {"name", "psk", "cert"}
    Secret = {"psk"}
    Public = {"cert"}
    EditLists <- MCEditLists
    MaxReloads = 1
    NoKey = NoKey
    Nobody = Nobody
INVARIANTS TypeOK ServedIsConfigured  ModeHonoured StagedIsHolders  
PROPERTIES CommitsWhole LockReleased
