\* Two keyboards that share a key and a modifier; the virtual keyboard may be
\* reset at any time.
CONSTANTS
    key_a = key_a
    key_caps_lock = key_caps_lock
    key_shift = key_shift
    key_fn = key_fn
    shift = shift
    fn = fn
    caps = caps
    keyboard_page = keyboard_page
    top_case_page = top_case_page
    Usages = {key_a, key_shift, key_caps_lock}
    ModifierUsages = {key_shift}
    Pages = {keyboard_page}
    PageOf <- MCPageOf
    Buttons = {}
    None = None
    Wait = 1
    MaxDelay = 1
    MaxTime = 1000000
    MaxEvents = 3
    MaxLateTasks = 1
    MaxBacklog = 2
    Flags = {shift, caps}
    caps_lock = caps
    Devices = {d0, d1, d2}
    device_0 = d0
    MaxEntries = 3
    FlagOrder <- ShiftCaps
    UsageOf <- MCUsageOf
    KeyboardDevices = {d1, d2}
    KeyUsages = {key_a}
    MaxLedEvents = 1
    SleepUsages = {}
    SleepDelay = 1
    MouseKeys = {}
    StickyFlags = {}
    LazyFlags = {shift}
    Inputs = {"reset"}
    cgeventtap_fallback_enabled = FALSE

SPECIFICATION Spec
INVARIANTS NoStuckKey NoStuckModifier ReportFollowsDispatcher
SYMMETRY Symmetry
VIEW UntimedView
CHECK_DEADLOCK FALSE
