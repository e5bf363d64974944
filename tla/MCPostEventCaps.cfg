\* One keyboard with a caps_lock key, and modifiers.mandatory taking caps_lock
\* away and giving it back with sticky events.
CONSTANTS
    key_a = key_a
    key_caps_lock = key_caps_lock
    key_shift = key_shift
    key_fn = key_fn
    shift = shift
    fn = fn
    caps = caps
    keyboard_page = keyboard_page
    top_case_page = top_case_page
    Usages = {key_a, key_caps_lock}
    ModifierUsages = {}
    Pages = {keyboard_page}
    PageOf <- MCPageOf
    Buttons = {}
    None = None
    Wait = 1
    MaxDelay = 1
    MaxTime = 1000000
    MaxEvents = 4
    MaxLateTasks = 1
    MaxBacklog = 3
    Flags = {caps}
    caps_lock = caps
    Devices = {d0, d1, d2}
    device_0 = d0
    MaxEntries = 3
    FlagOrder <- Caps
    UsageOf <- MCUsageOf
    KeyboardDevices = {d1}
    KeyUsages = {key_a, key_caps_lock}
    MaxLedEvents = 2
    SleepUsages = {}
    SleepDelay = 1
    MouseKeys = {}
    StickyFlags = {caps}
    LazyFlags = {}
    Inputs = {}
    cgeventtap_fallback_enabled = FALSE

SPECIFICATION Spec
INVARIANTS CapsLockSynchronized
VIEW UntimedView
CHECK_DEADLOCK FALSE
