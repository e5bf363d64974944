SPECIFICATION Spec
CONSTANTS
    Flags = {"left_shift", "right_shift"}
    caps_lock = "caps_lock"
    Devices = {0, 1, 2}
    device_0 = 0
    MaxEntries = 8
    InputKeys <- SplitKeyboards
    Variables = {"v"}
    Unset = Unset
    None = None
    any = any
    keyboard_type = "ansi"
    ModifierFlagsOf <- MCModifierFlagsOf
    Unit = 100
    SimultaneousThreshold = 1
    AloneTimeout = 2
    HeldDownThreshold = 1
    DelayedActionDelay = 1
    Configurations <- MCConfigurations
    Reorder = TRUE
    MaxInputs = 3
    MaxTime = 3
INVARIANTS NoStuckOutputKey ModifiersFollowKeys RememberedKeysAreDown EventsHavePass
CHECK_DEADLOCK FALSE
