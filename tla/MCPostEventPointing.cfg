\* Two devices that share a button and a caps_lock key, with mouse keys, motion
\* and the LED reports that caps_lock causes.
CONSTANTS
    key_a = key_a
    key_caps_lock = key_caps_lock
    key_shift = key_shift
    key_fn = key_fn
    shift = shift
    fn = fn
    caps = caps
    keyboard_page = keyboard_page
    top_case_page = top_case_page
    Usages = {key_caps_lock}
    ModifierUsages = {}
    Pages = {keyboard_page}
    PageOf <- MCPageOf
    Buttons = {button1}
    None = None
    Wait = 1
    MaxDelay = 1
    MaxTime = 1000000
    MaxEvents = 3
    MaxLateTasks = 1
    MaxBacklog = 2
    Flags = {caps}
    caps_lock = caps
    Devices = {d0, d1, d2}
    device_0 = d0
    MaxEntries = 1
    FlagOrder <- Caps
    UsageOf <- MCUsageOf
    KeyboardDevices = {d1, d2}
    KeyUsages = {key_caps_lock}
    MaxLedEvents = 1
    SleepUsages = {}
    SleepDelay = 1
    MouseKeys = {mouse_key1}
    StickyFlags = {}
    LazyFlags = {}
    Inputs = {"motion"}
    cgeventtap_fallback_enabled = FALSE

SPECIFICATION Spec
INVARIANTS NoStuckButton
SYMMETRY Symmetry
VIEW UntimedView
CHECK_DEADLOCK FALSE
