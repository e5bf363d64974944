\* The built-in keyboard is disabled while one of its keys is down.
SPECIFICATION Spec
CONSTANTS
    d1 = d1
    d2 = d2
    k1 = k1
    Devices = {d1, d2}
    Keys = {k1}
    BuiltIn = {d1}
    Disablers = {d2}
    Inputs = {}
    MaxTasks = 3
INVARIANTS
    NoKeyLeftDown
CHECK_DEADLOCK FALSE
