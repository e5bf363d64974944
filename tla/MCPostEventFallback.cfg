\* Keys come from the event tap, secure event input becomes enabled, and the
\* dispatcher thread is fair.
CONSTANTS
    key_a = key_a
    key_caps_lock = key_caps_lock
    key_shift = key_shift
    key_fn = key_fn
    shift = shift
    fn = fn
    caps = caps
    keyboard_page = keyboard_page
    top_case_page = top_case_page
    Usages = {key_a, key_caps_lock}
    ModifierUsages = {}
    Pages = {keyboard_page}
    PageOf <- MCPageOf
    Buttons = {}
    None = None
    Wait = 1
    MaxDelay = 1
    MaxTime = 3
    MaxEvents = 2
    MaxLateTasks = 10
    MaxBacklog = 2
    Flags = {caps}
    caps_lock = caps
    Devices = {d0, d1, d2}
    device_0 = d0
    MaxEntries = 1
    FlagOrder <- Caps
    UsageOf <- MCUsageOf
    KeyboardDevices = {d0}
    KeyUsages = {key_a}
    MaxLedEvents = 1
    SleepUsages = {}
    SleepDelay = 1
    MouseKeys = {}
    StickyFlags = {}
    LazyFlags = {}
    Inputs = {"command"}
    cgeventtap_fallback_enabled = TRUE

SPECIFICATION FairSpec
PROPERTIES EventsArePosted 
CHECK_DEADLOCK FALSE
