SPECIFICATION CaptureSpec
CONSTANTS
    d1 = d1
    k1 = k1
    k2 = k2
    m1 = m1
    m2 = m2
    None = None
    Monitors = {m1, m2}
    MaxEvents = 2
    Devices = {d1}
    Keys = {k1, k2}
    BuiltIn = {d1}
    Disablers = {}
    Inputs = {"plug", "ignore", "temporarily", "ready"}
    MaxTasks = 3
INVARIANTS
    NothingLeftDown
    AtMostOneTapListens
    StoppedMonitorsAreSafe
PROPERTIES
    KeyDownGetsThrough
    ClosedOnlyWhenUnwanted
    WantedDeviceIsSeized
    UnwantedDeviceIsLeft
    ConfigurationIsApplied
    DroppedMonitorIsDestroyed
CHECK_DEADLOCK FALSE
