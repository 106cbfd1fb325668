SPECIFICATION Spec
CONSTANTS
    Zones = {z}
    Fans = {f1}
    Temps = {0, 2, 3}
    Setpoint = 1
    CritTemp = 3
    Kp = 1
    Ki = 2
    PwmMax = 6
    Deadband = 2
    FloorMin = 1
    FloorMax = 4
    FloorStart = 3
    StallBump = 2
    StallMargin = 1
    UpStep = 1
    NearStep = 1
    FarStep = 2
    MeasureTol = 1
    Blackout = 1
    DownTicks = 2
    StepSettle = 1
    Cooldown = 2
    MaxStarts = 2
INVARIANTS NackRetried
CHECK_DEADLOCK FALSE
