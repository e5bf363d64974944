CONSTANTS
    key_a = key_a
    shift = shift
    fn = fn
    keyboard_page = keyboard_page
    top_case_page = top_case_page
    Flags = {shift_flag, caps_lock}
    caps_lock = caps_lock
    Devices = {d0, d1}
    device_0 = d0
    MaxEntries = 4
    Usages = {key_a, shift, fn}
    ModifierUsages = {shift, fn}
    Pages = {keyboard_page, top_case_page}
    PageOf <- MCPageOf
    Buttons = {}
    None = None
    Wait = 1
    MaxDelay = 1
    MaxTime = 2
    MaxEvents = 3

SPECIFICATION OutputsSpec
INVARIANTS WaitBeforeKeyDown ReportIsLastSnapshot PressedKeysArePosted ScopeIsExact
PROPERTY ImplementsCounter
CHECK_DEADLOCK FALSE
