----------------------------- MODULE EventQueue -----------------------------
(***************************************************************************)
(* krbn::event_queue::queue: the vector of entries between two stages of   *)
(* the pipeline, with the modifier flags and the manipulator environment   *)
(* that the entries pushed into it have produced.  The operators work on a *)
(* queue record; the modules of the manipulators apply several of them in  *)
(* one step.  The pointing buttons of a queue are read by the last stage   *)
(* only and are modelled there (PostEventToVirtualDevices).                *)
(***************************************************************************)
EXTENDS Integers, Sequences, FiniteSets, SequencesExt

CONSTANTS
    Flags, caps_lock, Devices, device_0, MaxEntries,
    Variables,          \* names of user variables
    Unset               \* the value of a variable that is not set

FM == INSTANCE ModifierFlagManager WITH active_modifier_flags <- <<>>

-----------------------------------------------------------------------------
(* event: a type and a value.  A momentary_switch_event is named by its key *)
(* or, for a modifier key, by its flag.                                      *)

Event(type, value) == [type |-> type, value |-> value]
Key(k) == Event("momentary_switch_event", k)
SetVariable(name, value, key_up_value) ==
    Event("set_variable", [name |-> name, value |-> value, key_up_value |-> key_up_value])
Released == Event("device_keys_and_pointing_buttons_are_released", 1)
Ungrabbed == Event("device_ungrabbed", 1)
FromEventTap == Event("pointing_device_event_from_event_tap", 1)
StopKeyboardRepeat == Event("stop_keyboard_repeat", 1)

\* Events the manager hands to no manipulator (manipulator_manager::manipulate).
NotManipulated ==
    {"none", "device_grabbed", "frontmost_application_changed", "input_source_changed",
     "set_variable", "virtual_hid_devices_state_changed"}

IsSwitch(event) == event.type = "momentary_switch_event"
\* momentary_switch_event::make_modifier_flag: caps_lock is no modifier flag.
IsModifier(event) == IsSwitch(event) /\ event.value \in Flags \ {caps_lock}

\* entry: input_delay is the input_delay_duration of its event_time_stamp.
QueueEntry(device, time, event, type, original, state, lazy) ==
    [device |-> device, time |-> time, input_delay |-> 0, event |-> event, type |-> type,
     original |-> original, state |-> state, lazy |-> lazy, valid |-> TRUE]

with_input_delay(e) == e.time + e.input_delay

-----------------------------------------------------------------------------
(* manipulator_environment                                                  *)

EmptyEnvironment ==
    [devices |-> {}, application |-> Unset, input_source |-> Unset,
     variables |-> [v \in Variables |-> Unset]]

\* set_variable: key_down sets the value, or unsets the variable; key_up sets
\* the value for key_up if there is one; a single event does nothing.
set_variable(env, s, type) ==
    CASE type = "key_down" -> [env EXCEPT !.variables[s.name] = s.value]
      [] type = "key_up" /\ s.key_up_value # Unset ->
            [env EXCEPT !.variables[s.name] = s.key_up_value]
      [] OTHER -> env

update_environment(env, e) ==
    CASE e.event.type = "device_grabbed" -> [env EXCEPT !.devices = @ \cup {e.device}]
      [] e.event.type = "device_ungrabbed" -> [env EXCEPT !.devices = @ \ {e.device}]
      [] e.event.type = "frontmost_application_changed" ->
            [env EXCEPT !.application = e.event.value]
      [] e.event.type = "input_source_changed" -> [env EXCEPT !.input_source = e.event.value]
      [] e.event.type = "set_variable" -> set_variable(env, e.event.value, e.type)
      [] OTHER -> env

-----------------------------------------------------------------------------
EmptyQueue == [events |-> <<>>, flags |-> <<>>, env |-> EmptyEnvironment, delay |-> 0]

\* What an entry pushes into modifier_flag_manager: <<count, kind, flag>> of a
\* modifier key, a sticky_modifier event or a change of the caps lock LED.
flag_change(flags, e) ==
    LET sticky == e.event.value
    IN  CASE IsModifier(e.event) ->
                <<IF e.type = "key_down" THEN 1 ELSE -1, "plain", e.event.value>>
          [] e.event.type = "sticky_modifier" /\ e.type # "key_up" ->
                <<IF \/ sticky.type = "off"
                     \/ sticky.type = "toggle" /\ FM!sticky_size(flags, sticky.flag) > 0
                  THEN -1 ELSE 1, "sticky", sticky.flag>>
          [] e.event.type = "caps_lock_state_changed" ->
                <<IF e.event.value THEN 1 ELSE -1, "led_lock", caps_lock>>
          [] OTHER -> <<>>

change_flags(flags, change, device) ==
    IF change = <<>> THEN flags
    ELSE FM!push_back_active_modifier_flag(
            flags, FM!ActiveModifierFlag(change[1], change[2], change[3], device))

\* A key that is no modifier ends the sticky modifiers.
update_flags(flags, e) ==
    IF IsSwitch(e.event) /\ ~ IsModifier(e.event)
    THEN IF e.type = "key_down" /\ e.valid THEN FM!erase_all_sticky_modifier_flags(flags)
         ELSE flags
    ELSE change_flags(flags, flag_change(flags, e), e.device)

emplace_back_entry(q, e) ==
    [q EXCEPT !.events = Append(@, [e EXCEPT !.time = @ + q.delay]),
              !.flags = update_flags(@, e),
              !.env = update_environment(@, e)]

erase_front_event(q) ==
    [q EXCEPT !.events = Tail(@), !.delay = IF Len(q.events) = 1 THEN 0 ELSE @]

clear_events(q) == [q EXCEPT !.events = <<>>, !.delay = 0]

increase_time_stamp_delay(q, d) == [q EXCEPT !.delay = @ + d]

\* Within one HID report a modifier is pressed before and released after the
\* other keys.
needs_swap(v, w) ==
    /\ v.time = w.time
    /\ IsSwitch(v.event) /\ IsSwitch(w.event)
    /\ \/ ~ IsModifier(v.event) /\ IsModifier(w.event) /\ w.type # "key_up"
       \/ IsModifier(v.event) /\ ~ IsModifier(w.event) /\ v.type = "key_up"

\* sort_events steps back by one after every swap: an entry moves to the left
\* past the entries it has to be swapped with, one after the other.
sift(events, e) ==
    LET p == Min({i \in 0..Len(events) : \A j \in (i + 1)..Len(events) :
                                             needs_swap(events[j], e)})
    IN  SubSeq(events, 1, p) \o <<e>> \o SubSeq(events, p + 1, Len(events))

sort_events(q) == [q EXCEPT !.events = FoldLeft(sift, <<>>, @)]
=============================================================================
