---------------------- MODULE PostEventToVirtualDevices ----------------------
(***************************************************************************)
(* The last stage of the pipeline: the manipulator that turns the events   *)
(* of the posted event queue into reports of the virtual devices, with its *)
(* key_event_dispatcher, its queue, the modifier flags and pointing        *)
(* buttons of its event queue, and the parts of device_grabber that call   *)
(* it.  Each action handles one event in full and, as                      *)
(* device_grabber::manipulate does, ends by asking for the queue to be     *)
(* posted.                                                                 *)
(*                                                                         *)
(* The environment is what the earlier stages let through: key events in   *)
(* balance for each device, lazy modifier events of modifiers.mandatory,   *)
(* stickies, and the LED reports of the virtual keyboard.                  *)
(***************************************************************************)
EXTENDS Integers, Sequences, FiniteSets

CONSTANTS
    Usages, ModifierUsages, Pages, PageOf, Buttons, None,
    Wait, MaxDelay, MaxTime, MaxEvents,
    MaxBacklog,         \* bound on how far the last time stamp runs ahead of the clock
    MaxLateTasks,       \* bound on the posting tasks that are late at the same time
    Flags, caps_lock, Devices, device_0, MaxEntries,
    FlagOrder,          \* the order of dispatch_modifier_key_event
    UsageOf,            \* the usage of each flag
    KeyboardDevices,    \* the devices events come from
    KeyUsages,          \* the keys they have, other than modifiers
    SleepUsages,        \* power, eject and escape
    SleepDelay,         \* sleep_shortcut_delay_
    MouseKeys,          \* mouse_key events
    MaxLedEvents,       \* bound on the LED reports under way
    StickyFlags,        \* flags for which sticky_modifier events are sent
    LazyFlags,          \* flags that from.modifiers and to.modifiers change lazily
    Inputs,             \* which optional groups of events the environment sends
    cgeventtap_fallback_enabled

\* Each flag has a usage of its own and its turn.
ASSUME OrderAssumption ==
    /\ caps_lock \in Flags
    /\ FlagOrder \in Seq(Flags)
    /\ \A m \in Flags : \E i \in DOMAIN FlagOrder : FlagOrder[i] = m
    /\ UsageOf \in [Flags -> Usages]
    /\ \A m, n \in Flags : UsageOf[m] = UsageOf[n] => m = n
    /\ ModifierUsages = {UsageOf[m] : m \in Flags \ {caps_lock}}
    /\ KeyboardDevices \subseteq Devices /\ device_0 \in Devices
    /\ StickyFlags \subseteq Flags /\ LazyFlags \subseteq Flags
    /\ KeyUsages \subseteq Usages \ ModifierUsages

\* Keys, buttons and mouse keys are different things, and None is none of them.
ASSUME NameAssumption ==
    /\ Usages \cap Buttons = {} /\ Usages \cap MouseKeys = {} /\ Buttons \cap MouseKeys = {}
    /\ PageOf \in [Usages -> Pages]
    /\ None \notin Usages /\ None \notin Pages /\ None \notin Nat
    /\ Wait \in Nat /\ SleepDelay \in Nat

VARIABLES
    queue, device_report, device_buttons, pressed_keys_manager, tasks, running, now,
    active_modifier_flags,
    pressed_keys,             \* key_event_dispatcher::pressed_keys_
    pressed_modifier_flags,   \* key_event_dispatcher::pressed_modifier_flags_
    active_pointing_buttons,  \* pointing_button_manager: pairs <<button, device>>
    pressed_buttons,          \* buttons of the last pointing report made
    mouse_keys,               \* mouse_key_handler::entries_
    mouse_timer,              \* the time stamp its running timer captured, or None
    keyboard_ready,           \* the virtual keyboard accepts reports
    releases,                 \* captures of pending release tasks
    secure_release,           \* a released event of device_id(0) is on its way
    held,                     \* environment: <<device, usage or button>> physically down
    lazies,                   \* environment: <<device, flag, count>> pushed and not yet undone
    led,                      \* environment: caps lock state of the system
    led_events                \* environment: caps_lock_state_changed on their way

Q == INSTANCE VirtualDeviceQueue
M == INSTANCE ModifierFlagManager
D == INSTANCE KeyEventDispatcher WITH
        emplace_back_key_event <- Q!emplace_back_key_event,
        is_pressed <- M!is_pressed

dispatcher == <<queue, pressed_keys, pressed_modifier_flags>>
pointing   == <<active_pointing_buttons, pressed_buttons, mouse_keys, mouse_timer>>
posted     == <<device_report, device_buttons, pressed_keys_manager, running, now>>
secure     == <<releases, secure_release>>
system     == <<keyboard_ready, led, led_events>>
vars == <<queue, device_report, device_buttons, pressed_keys_manager, tasks, running, now,
          active_modifier_flags, pressed_keys, pressed_modifier_flags,
          active_pointing_buttons, pressed_buttons, mouse_keys, mouse_timer, keyboard_ready,
          releases, secure_release, held, lazies, led, led_events>>

Init ==
    /\ Q!Init
    /\ M!Init
    /\ pressed_keys = <<>>
    /\ pressed_modifier_flags = {}
    /\ active_pointing_buttons = {}
    /\ pressed_buttons = {}
    /\ mouse_keys = {}
    /\ mouse_timer = None
    /\ keyboard_ready = TRUE
    /\ releases = <<>>
    /\ secure_release = FALSE
    /\ held = {}
    /\ lazies = {}
    /\ led = FALSE
    /\ led_events = <<>>

-----------------------------------------------------------------------------
(* The state one event is handled in: what handlers read and write.         *)

Current ==
    [queue |-> queue, pressed_keys |-> pressed_keys,
     pressed_modifier_flags |-> pressed_modifier_flags,
     flags |-> active_modifier_flags, active_buttons |-> active_pointing_buttons,
     buttons |-> pressed_buttons, mouse_keys |-> mouse_keys, mouse_timer |-> mouse_timer]

\* Bounds on what the environment may pile up.
Bounded(st) ==
    /\ Len(st.queue.events) <= MaxEvents
    /\ st.queue.last_event_time_stamp <= MaxTime
    /\ st.queue.last_event_time_stamp <= now + MaxBacklog
    /\ Len(st.flags) <= MaxEntries

\* Mutant: the queue is not asked to post.
AppliedWithoutTask(st) ==
    /\ running = None
    /\ queue' = st.queue
    /\ pressed_keys' = st.pressed_keys
    /\ pressed_modifier_flags' = st.pressed_modifier_flags
    /\ active_modifier_flags' = st.flags
    /\ active_pointing_buttons' = st.active_buttons
    /\ pressed_buttons' = st.buttons
    /\ mouse_keys' = st.mouse_keys
    /\ mouse_timer' = st.mouse_timer
    /\ UNCHANGED <<posted, tasks>>

\* The end of device_grabber::manipulate: the new state and a posting task.
Applied(st) ==
    /\ running = None
    /\ queue' = st.queue
    /\ pressed_keys' = st.pressed_keys
    /\ pressed_modifier_flags' = st.pressed_modifier_flags
    /\ active_modifier_flags' = st.flags
    /\ active_pointing_buttons' = st.active_buttons
    /\ pressed_buttons' = st.buttons
    /\ mouse_keys' = st.mouse_keys
    /\ mouse_timer' = st.mouse_timer
    /\ tasks' = tasks \cup {now}
    /\ UNCHANGED posted

Manipulated(st) == Bounded(st) /\ Applied(st)

\* make_hid_report_buttons.
report_buttons(st) == {b[1] : b \in st.active_buttons}

DispatchModifiers(st) == D!dispatch_modifier_key_event(st, st.flags, now)

\* Mutant: the buttons of a lost device are not reported.
PostNoButtons(st) == st

\* A pointing report when the buttons have changed since the last one.
PostChangedButtons(st) ==
    LET buttons == report_buttons(st)
    IN  IF st.buttons = buttons THEN st
        ELSE [st EXCEPT !.queue = Q!emplace_back_pointing_input(@, buttons, "key_up", now),
                        !.buttons = buttons]

post_pointing_input_report(st, type) ==
    [st EXCEPT !.queue = Q!emplace_back_pointing_input(@, report_buttons(st), type, now),
               !.buttons = report_buttons(st)]

\* mouse_key_handler: new entries, and the timer restarts with the time stamp
\* of the event.  A timer without entries only stops itself: it is left out.
SetMouseKeys(st, keys) ==
    [st EXCEPT !.mouse_keys = keys, !.mouse_timer = IF keys = {} THEN None ELSE now]

\* erase_mouse_keys_by_device_id.
EraseMouseKeys(st, d) == SetMouseKeys(st, {k \in st.mouse_keys : k[1] # d})

\* manipulator_manager, then
\* handle_device_keys_and_pointing_buttons_are_released_event.
AllReleased(st, d) ==
    LET erased == [st EXCEPT
            !.flags = M!erase_all_active_modifier_flags_except_lock_and_sticky(@, d),
            !.active_buttons = {b \in @ : b[2] # d}]
        dispatched == DispatchModifiers(erased)
        unstuck == [dispatched EXCEPT !.flags = M!erase_caps_lock_sticky_modifier_flags(@)]
    IN  EraseMouseKeys(PostChangedButtons(unstuck), d)

\* Mutant: buttons and modifiers are released, keys are not.
UngrabbedKeepingKeys(st, d) ==
    LET erased == [st EXCEPT
            !.flags = M!erase_all_active_modifier_flags(@, d),
            !.active_buttons = {b \in @ : b[2] # d}]
    IN  EraseMouseKeys(DispatchModifiers(PostChangedButtons(erased)), d)

\* Mutant: the modifier flags are dispatched before those of the device go.
UngrabbedDispatchingFirst(st, d) ==
    LET dispatched ==
            DispatchModifiers(PostChangedButtons(
                D!dispatch_key_up_events_by_device_id(
                    [st EXCEPT !.active_buttons = {b \in @ : b[2] # d}], d, now)))
    IN  EraseMouseKeys([dispatched EXCEPT
            !.flags = M!erase_all_active_modifier_flags(@, d)], d)

\* manipulator_manager, then handle_device_ungrabbed_event.
Ungrabbed(st, d) ==
    LET erased == [st EXCEPT
            !.flags = M!erase_all_active_modifier_flags(@, d),
            !.active_buttons = {b \in @ : b[2] # d}]
        released == D!dispatch_key_up_events_by_device_id(erased, d, now)
    IN  EraseMouseKeys(DispatchModifiers(PostChangedButtons(released)), d)

\* x is the last thing device d holds down.
LastUp(d, x) == {k \in held : k[1] = d} \subseteq {<<d, x>>}

\* The last physical key_up of a device is followed by the released event
\* (insert_device_keys_and_pointing_buttons_are_released_event), and comes
\* after its lazy events were undone.
WithReleased(st, d, x) == IF LastUp(d, x) THEN AllReleased(st, d) ELSE st

LaziesUndone(d, x) == LastUp(d, x) => \A z \in lazies : z[1] # d

\* Modifiers are not dispatched by motion while a key repeats, a button is
\* pressed or a mouse key is active.
MotionDispatches(st) ==
    st.queue.repeating_key = None /\ st.buttons = {} /\ st.mouse_keys = {}

env == <<held, lazies>>
-----------------------------------------------------------------------------
(* Key events.                                                              *)

PressKey(st, d, u, delayed) ==
    LET before == DispatchModifiers(st)
        pushed == [before EXCEPT !.flags = M!erase_all_sticky_modifier_flags(@)]
    IN  D!dispatch_key_down_event(pushed, d, u, now + (IF delayed THEN SleepDelay ELSE 0))

KeyDown(d, u, delayed) ==
    /\ <<d, u>> \notin held
    /\ delayed => u \in SleepUsages
    /\ Manipulated(PressKey(Current, d, u, delayed))
    /\ held' = held \cup {<<d, u>>}
    /\ UNCHANGED <<lazies, secure, system>>

KeyUp(d, u) ==
    /\ <<d, u>> \in held /\ LaziesUndone(d, u)
    /\ Manipulated(WithReleased(D!dispatch_key_up_event(Current, u, now), d, u))
    /\ held' = held \ {<<d, u>>}
    /\ UNCHANGED <<lazies, secure, system>>

PushFlag(st, count, kind, m, d) ==
    [st EXCEPT !.flags = M!push_back_active_modifier_flag(
                             @, M!ActiveModifierFlag(count, kind, m, d))]

\* A modifier key: its entry is pushed first, then the flags are dispatched.
ModifierKeyDown(d, m) ==
    /\ m \in Flags \ {caps_lock}
    /\ <<d, UsageOf[m]>> \notin held
    /\ Manipulated(DispatchModifiers(PushFlag(Current, 1, "plain", m, d)))
    /\ held' = held \cup {<<d, UsageOf[m]>>}
    /\ UNCHANGED <<lazies, secure, system>>

ModifierKeyUp(d, m) ==
    /\ m \in Flags \ {caps_lock}
    /\ <<d, UsageOf[m]>> \in held /\ LaziesUndone(d, UsageOf[m])
    /\ Manipulated(WithReleased(DispatchModifiers(PushFlag(Current, -1, "plain", m, d)),
                                d, UsageOf[m]))
    /\ held' = held \ {<<d, UsageOf[m]>>}
    /\ UNCHANGED <<lazies, secure, system>>

\* A lazy event changes the flags and nothing else; for caps_lock it is a
\* sticky_modifier event.
PushLazy(st, count, m, d) ==
    PushFlag(st, count, IF m = caps_lock THEN "sticky" ELSE "plain", m, d)

\* For the to events of a key that is down, from.modifiers.mandatory takes a
\* pressed modifier away (-1) and to.modifiers adds one (1).
LazyModifier(d, m, count) ==
    /\ \E u \in KeyUsages : <<d, u>> \in held
    /\ \A c \in {1, -1} : <<d, m, c>> \notin lazies
    /\ count = -1 => M!is_pressed(active_modifier_flags, m)
    /\ Manipulated(PushLazy(Current, count, m, d))
    /\ lazies' = lazies \cup {<<d, m, count>>}
    /\ UNCHANGED <<held, secure, system>>

\* ... and back, before that key goes up.
UndoLazyModifier(d, m, count) ==
    /\ <<d, m, count>> \in lazies
    /\ Manipulated(PushLazy(Current, -count, m, d))
    /\ lazies' = lazies \ {<<d, m, count>>}
    /\ UNCHANGED <<held, secure, system>>

\* A sticky_modifier to event; its key_up has no effect.
StickyModifier(d, m, type) ==
    LET before == DispatchModifiers(Current)
        lower == \/ type = "off"
                 \/ type = "toggle" /\ M!sticky_size(before.flags, m) > 0
    IN  /\ \E k \in held : k[1] = d
        /\ Manipulated(PushFlag(before, IF lower THEN -1 ELSE 1, "sticky", m, d))
        /\ UNCHANGED <<env, secure, system>>

StopKeyboardRepeat ==
    /\ queue.repeating_key # None
    /\ Manipulated(D!dispatch_key_up_event(Current, queue.repeating_key, now))
    /\ UNCHANGED <<env, secure, system>>

\* shell_command, send_user_command, select_input_source, software_function.
Command ==
    LET before == DispatchModifiers(Current)
    IN  /\ "command" \in Inputs
        /\ Manipulated([before EXCEPT !.queue = Q!push_back_command_event(@, now)])
        /\ UNCHANGED <<env, secure, system>>
-----------------------------------------------------------------------------
(* Pointing events.                                                         *)

ButtonDown(d, b) ==
    LET before == DispatchModifiers(Current)
        pushed == [before EXCEPT !.active_buttons = @ \cup {<<b, d>>},
                                 !.flags = M!erase_all_sticky_modifier_flags(@)]
    IN  /\ <<d, b>> \notin held
        /\ Manipulated(post_pointing_input_report(pushed, "key_down"))
        /\ held' = held \cup {<<d, b>>}
        /\ UNCHANGED <<lazies, secure, system>>

\* push_back_active_pointing_button, decrease: every device's entry goes.
ErasePaired(buttons, b, d) == {x \in buttons : x[1] # b}

ButtonUp(d, b) ==
    LET pushed == [Current EXCEPT !.active_buttons = ErasePaired(@, b, d)]
    IN  /\ <<d, b>> \in held /\ LaziesUndone(d, b)
        /\ Manipulated(WithReleased(post_pointing_input_report(pushed, "key_up"), d, b))
        /\ held' = held \ {<<d, b>>}
        /\ UNCHANGED <<lazies, secure, system>>

PointingMotion ==
    LET before == IF MotionDispatches(Current) THEN DispatchModifiers(Current) ELSE Current
    IN  /\ "motion" \in Inputs
        /\ Manipulated(post_pointing_input_report(before, "single"))
        /\ UNCHANGED <<env, secure, system>>

\* handle_pointing_device_event_from_event_tap (key_down or single).
EventTapPointing ==
    /\ "motion" \in Inputs
    /\ MotionDispatches(Current)
    /\ Manipulated(DispatchModifiers(Current))
    /\ UNCHANGED <<env, secure, system>>

MouseKeyDown(d, k) ==
    /\ <<d, k>> \notin held
    /\ Manipulated(SetMouseKeys(DispatchModifiers(Current), mouse_keys \cup {<<d, k>>}))
    /\ held' = held \cup {<<d, k>>}
    /\ UNCHANGED <<lazies, secure, system>>

MouseKeyUp(d, k) ==
    /\ <<d, k>> \in held /\ LaziesUndone(d, k)
    /\ Manipulated(WithReleased(SetMouseKeys(Current, mouse_keys \ {<<d, k>>}), d, k))
    /\ held' = held \ {<<d, k>>}
    /\ UNCHANGED <<lazies, secure, system>>

\* The timer posts motion, always with the time stamp it was started with.
MouseKeyTimer ==
    /\ mouse_timer # None
    /\ Manipulated([Current EXCEPT !.queue =
           Q!emplace_back_pointing_input(@, report_buttons(Current), "single", mouse_timer)])
    /\ UNCHANGED <<env, secure, system>>
-----------------------------------------------------------------------------
(* Devices and the virtual keyboard.                                        *)

\* A device is terminated or its monitor stops: device_grabber forgets its
\* physical keys and posts device_ungrabbed.
DeviceUngrabbed(d) ==
    /\ d # device_0
    /\ Manipulated(Ungrabbed(Current, d))
    /\ held' = {k \in held : k[1] # d}
    /\ lazies' = {k \in lazies : k[1] # d}
    /\ UNCHANGED <<secure, system>>

\* caps_lock_state_changed: the dispatcher follows the LED unless a sticky
\* caps_lock is in charge.
CapsLockStateChanged ==
    LET on == Head(led_events)
        flags == IF M!sticky_size(active_modifier_flags, caps_lock) # 0
                 THEN pressed_modifier_flags
                 ELSE IF on THEN pressed_modifier_flags \cup {caps_lock}
                            ELSE pressed_modifier_flags \ {caps_lock}
        st == [Current EXCEPT !.pressed_modifier_flags = flags]
    IN  /\ led_events # <<>>
        /\ Manipulated(PushFlag(st, IF on THEN 1 ELSE -1, "led_lock", caps_lock, device_0))
        /\ led_events' = Tail(led_events)
        /\ UNCHANGED <<env, secure, keyboard_ready, led>>

\* virtual_hid_keyboard_ready_response(false): the service has dropped the
\* device, whatever it held is up again.
KeyboardNotReady ==
    /\ "reset" \in Inputs
    /\ keyboard_ready
    /\ running = None
    /\ keyboard_ready' = FALSE
    /\ device_report' = [p \in Pages |-> {}]
    /\ pressed_keys_manager' = {}
    /\ UNCHANGED <<dispatcher, device_buttons, tasks, running, now, active_modifier_flags,
                   pointing, env, secure, led, led_events>>

KeyboardReady ==
    /\ ~ keyboard_ready
    /\ keyboard_ready' = TRUE
    /\ UNCHANGED <<dispatcher, posted, tasks, active_modifier_flags, pointing, env, secure,
                   led, led_events>>
-----------------------------------------------------------------------------
(* Secure event input, while keys come from the event tap (device_id(0)).   *)

\* secure_event_input_enabled_changed(true).  No key_up of a held key arrives
\* any more.  The released event is pushed into the merged queue; the posted
\* keys are captured for a task, unless there are none.
SecureEventInputEnabled ==
    /\ cgeventtap_fallback_enabled
    /\ running = None
    /\ ~ secure_release
    /\ secure_release' = TRUE
    /\ held' = {}
    /\ lazies' = {}
    /\ pressed_modifier_flags' = {}
    /\ pressed_keys_manager' = {}
    /\ releases' = IF pressed_keys_manager = {} THEN releases
                   ELSE Append(releases, pressed_keys_manager)
    /\ UNCHANGED <<queue, pressed_keys, device_report, device_buttons, tasks, running, now,
                   active_modifier_flags, pointing, system>>

\* The released event is handled; it was enqueued before the release task.
SecureReleasedEvent ==
    /\ secure_release
    /\ \E st \in {AllReleased(Current, device_0)} : Applied(st)
    /\ secure_release' = FALSE
    /\ UNCHANGED <<env, releases, system>>

\* Mutant: the dispatcher is cleared and no key_up is sent.
ClearPressedKeys ==
    /\ releases # <<>>
    /\ ~ secure_release
    /\ \E st \in {D!clear(Current)} : Applied(st)
    /\ releases' = Tail(releases)
    /\ UNCHANGED <<env, secure_release, system>>

\* The task of async_release_virtual_hid_keyboard_pressed_keys.
ReleasePressedKeys ==
    /\ releases # <<>>
    /\ ~ secure_release
    /\ \E st \in {D!clear(D!FoldLeft(
           LAMBDA acc, u : D!enqueue_key_event(acc, u, "key_up", now),
           Current, D!SetToSeq(Head(releases))))} : Applied(st)
    /\ releases' = Tail(releases)
    /\ UNCHANGED <<env, secure_release, system>>
-----------------------------------------------------------------------------
(* The posting task and the clock.                                          *)

unposted == <<pressed_keys, pressed_modifier_flags, active_modifier_flags, pointing, env,
              secure, keyboard_ready>>

StartTask(when) == Q!StartTask(when) /\ UNCHANGED <<unposted, led, led_events>>

\* A caps_lock key_down toggles the LED once the keyboard has received it.
PostFront ==
    LET e == Q!Front
        toggles == /\ keyboard_ready
                   /\ e.kind = "key" /\ e.type = "key_down" /\ e.usage = UsageOf[caps_lock]
    IN  /\ Q!TakeFront
        /\ device_report' = IF keyboard_ready THEN Q!report_after(e) ELSE device_report
        /\ device_buttons' = Q!buttons_after(e)
        /\ led' = IF toggles THEN ~ led ELSE led
        /\ led_events' = IF toggles THEN Append(led_events, ~ led) ELSE led_events
        /\ UNCHANGED unposted

FinishTask == Q!FinishTask /\ UNCHANGED <<unposted, led, led_events>>

Tick ==
    /\ Cardinality({w \in tasks : w <= now}) <= MaxLateTasks
    /\ Q!Tick
    /\ UNCHANGED <<unposted, led, led_events>>

KeyEvent ==
    \E d \in KeyboardDevices :
        \/ \E u \in KeyUsages, delayed \in BOOLEAN : KeyDown(d, u, delayed)
        \/ \E u \in KeyUsages : KeyUp(d, u)
        \/ \E m \in Flags : ModifierKeyDown(d, m) \/ ModifierKeyUp(d, m)
        \/ \E m \in LazyFlags, count \in {1, -1} :
               LazyModifier(d, m, count) \/ UndoLazyModifier(d, m, count)
        \/ \E m \in StickyFlags, t \in {"on", "off", "toggle"} : StickyModifier(d, m, t)
        \/ \E b \in Buttons : ButtonDown(d, b) \/ ButtonUp(d, b)
        \/ \E k \in MouseKeys : MouseKeyDown(d, k) \/ MouseKeyUp(d, k)
        \/ DeviceUngrabbed(d)

Posting == (\E w \in tasks : StartTask(w)) \/ PostFront \/ FinishTask

Next ==
    \/ Len(led_events) < MaxLedEvents /\ KeyEvent
    \/ StopKeyboardRepeat \/ Command \/ PointingMotion \/ EventTapPointing \/ MouseKeyTimer
    \/ CapsLockStateChanged \/ KeyboardNotReady \/ KeyboardReady
    \/ SecureEventInputEnabled \/ SecureReleasedEvent \/ ReleasePressedKeys
    \/ Posting
    \/ Tick

Spec == Init /\ [][Next]_vars

\* The dispatcher thread runs its posting tasks; time passes, and a task that
\* was handed to the dispatcher runs, however many others come in between.
Fairness ==
    /\ WF_vars(Posting)
    /\ SF_vars(Tick)
    /\ SF_vars(SecureReleasedEvent)
    /\ SF_vars(ReleasePressedKeys)

FairSpec == Spec /\ Fairness
-----------------------------------------------------------------------------
\* Every variable of the stage keeps its type, the records of the dispatcher
\* naming the device each key belongs to (key_event_dispatcher.hpp).
TypeOK ==
    /\ Q!TypeOK
    /\ M!TypeOK
    /\ pressed_keys \in Seq(Devices \X Usages)
    /\ pressed_modifier_flags \subseteq Flags
    /\ active_pointing_buttons \subseteq Buttons \X Devices
    /\ pressed_buttons \subseteq Buttons
    /\ mouse_keys \subseteq KeyboardDevices \X MouseKeys
    /\ mouse_timer \in Nat \cup {None}
    /\ keyboard_ready \in BOOLEAN /\ secure_release \in BOOLEAN /\ led \in BOOLEAN
    /\ releases \in Seq(SUBSET Usages)
    /\ held \subseteq KeyboardDevices \X (Usages \cup Buttons \cup MouseKeys)
    /\ lazies \subseteq KeyboardDevices \X Flags \X {1, -1}
    /\ led_events \in Seq(BOOLEAN)

Quiet == queue.events = <<>> /\ running = None /\ releases = <<>> /\ ~ secure_release

DownOnDevice == UNION {device_report[p] : p \in Pages}

\* Once everything is posted, a key is down on the virtual keyboard only while
\* some device holds it: shared keys, ungrabbed devices, stopped repeats and
\* resets of the keyboard leave no key behind.
NoStuckKey ==
    Quiet => \A u \in DownOnDevice \ ModifierUsages : \E d \in KeyboardDevices : <<d, u>> \in held

\* Once all keys are up and everything is posted, a modifier is down on the
\* virtual keyboard only if it is sticky: no order of modifier keys, lazy
\* events and lost devices leaves one behind.
NoStuckModifier ==
    Quiet /\ held = {} =>
        \A m \in Flags \ {caps_lock} :
            UsageOf[m] \in DownOnDevice => M!sticky_size(active_modifier_flags, m) > 0

\* The report under construction holds exactly the keys and modifiers the
\* dispatcher believes it has sent, so that none of its early returns can
\* swallow a key_up the report needs (key_event_dispatcher.hpp).
ReportFollowsDispatcher ==
    UNION {queue.report[p] : p \in Pages} =
        {pressed_keys[i][2] : i \in DOMAIN pressed_keys} \cup
        {UsageOf[m] : m \in pressed_modifier_flags \ {caps_lock}}

\* Once everything is posted, a button is down on the virtual pointing device
\* only while some device holds it.
NoStuckButton ==
    Quiet => \A b \in device_buttons : \E d \in KeyboardDevices : <<d, b>> \in held

\* Every queued event is posted in the end.
EventsArePosted == queue.events # <<>> ~> queue.events = <<>>

\* A key captured for release when secure event input became enabled goes up
\* on the virtual keyboard in the end, whatever was queued before the release
\* (async_release_virtual_hid_keyboard_pressed_keys), unless keys are pressed.
CapturedKeysAreReleased ==
    \A u \in Usages :
        (\E i \in DOMAIN releases : u \in releases[i]) ~> (u \notin DownOnDevice \/ held # {})

\* When no LED report is on its way and no sticky caps_lock is in charge, the
\* dispatcher and the LED agree on caps_lock.
CapsLockSynchronized ==
    Quiet /\ led_events = <<>> /\ M!sticky_size(active_modifier_flags, caps_lock) = 0
        => (M!is_pressed(active_modifier_flags, caps_lock) <=> caps_lock \in pressed_modifier_flags)

=============================================================================
