\* One keyboard with a sticky fn on a report page of its own, a key that may be
\* delayed as a sleep shortcut, and commands.
CONSTANTS
    key_a = key_a
    key_caps_lock = key_caps_lock
    key_shift = key_shift
    key_fn = key_fn
    shift = shift
    fn = fn
    caps = caps
    keyboard_page = keyboard_page
    top_case_page = top_case_page
    Usages = {key_a, key_fn, key_caps_lock}
    ModifierUsages = {key_fn}
    Pages = {keyboard_page, top_case_page}
    PageOf <- MCPageOf
    Buttons = {}
    None = None
    Wait = 1
    MaxDelay = 1
    MaxTime = 1000000
    MaxEvents = 3
    MaxLateTasks = 0
    MaxBacklog = 2
    Flags = {fn, caps}
    caps_lock = caps
    Devices = {d0, d1, d2}
    device_0 = d0
    MaxEntries = 3
    FlagOrder <- FnCaps
    UsageOf <- MCUsageOf
    KeyboardDevices = {d1}
    KeyUsages = {key_a}
    MaxLedEvents = 1
    SleepUsages = {key_a}
    SleepDelay = 1
    MouseKeys = {}
    StickyFlags = {fn}
    LazyFlags = {fn}
    Inputs = {"command", "reset"}
    cgeventtap_fallback_enabled = FALSE

SPECIFICATION Spec
INVARIANTS NoStuckModifier
VIEW UntimedView
CHECK_DEADLOCK FALSE
