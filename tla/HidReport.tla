----------------------------- MODULE HidReport -----------------------------
(***************************************************************************)
(* The values of a HID report become entries of the event queue:           *)
(* entry::values_arrived drops useless values, event_queue::utility joins  *)
(* the motion values of a report into one pointing_motion and turns the    *)
(* hat switch of a game pad into dpad keys (hat_switch_converter), and the *)
(* released event is inserted when the last key goes up.                   *)
(***************************************************************************)
EXTENDS Integers, SequencesExt, Subsequences

CONSTANTS
    ReportDevices,      \* devices: game_pad, filters and the multipliers
    Reports,            \* sequences of HID values: [page, usage, value]
    MaxMotion           \* logical maximum of the virtual pointing device (127)

VARIABLES
    device,         \* device_properties_ and the configuration of the device
    direction,      \* last_directions_ of the device
    pressed,        \* pressed_keys_manager_
    report,         \* the values of the last report that were not dropped
    entries         \* the entries it made

report_vars == <<device, direction, pressed, report, entries>>

MotionAxes == {"x", "y", "wheel", "ac_pan"}
NoValue == [a \in MotionAxes |-> 0]

Init ==
    /\ device \in ReportDevices
    /\ direction = {} /\ pressed = {} /\ report = <<>> /\ entries = <<>>

-----------------------------------------------------------------------------
\* values_arrived: vendor events, and those of a controller that never rests.
dropped(v) ==
    \/ device.ignore_vendor_events /\ ~ device.is_apple /\ v.page = "vendor"
    \/ device.filter_useless_events /\ (v.page = "button" \/ v.usage \in {"x", "y", "z", "rz"})

multiplier(usage) == IF usage \in {"x", "y"} THEN device.xy_multiplier ELSE device.wheels_multiplier

adjusted(value, factor) ==
    LET v == value * factor.num
    IN  IF v >= 0 THEN v \div factor.den ELSE -((-v) \div factor.den)

Sign(n) == IF n > 0 THEN 1 ELSE IF n < 0 THEN -1 ELSE 0

\* At least one in the direction of the motion, at most the logical range.
adjust_pointing_motion_value(value, factor) ==
    LET v == adjusted(value, factor)
    IN  IF v = 0 THEN Sign(value) ELSE Max({-MaxMotion, Min({MaxMotion, v})})

\* direction: the hat switch turns clockwise from up; other values are neutral.
hat_direction(value) ==
    LET d == <<{"up"}, {"up", "right"}, {"right"}, {"down", "right"}, {"down"},
               {"down", "left"}, {"left"}, {"up", "left"}>>
    IN  IF value \in 0..7 THEN d[value + 1] ELSE {}

KeyEntry(key, type) == [event |-> "key", value |-> key, type |-> type]

\* Mutant: a change of direction presses the new keys only.
to_dpad_key_downs(last, current) ==
    SetToSeq({KeyEntry(k, "key_down") : k \in current \ last})

to_dpad_events(last, current) ==
    LET order == <<"up", "down", "right", "left">>
        changed == Kept(order, {i \in DOMAIN order : order[i] \in (last \cup current) \ (last \cap current)})
    IN  [i \in DOMAIN changed |->
            KeyEntry(changed[i], IF changed[i] \in current THEN "key_down" ELSE "key_up")]

-----------------------------------------------------------------------------
(* make_entries: a has the entries, the motion values that wait to be       *)
(* joined, and the direction of the hat switch.                             *)

Flush(a) ==
    IF a.axes = {} THEN a
    ELSE [a EXCEPT !.entries = Append(@, [event |-> "pointing_motion", value |-> a.motion,
                                          type |-> "single"]),
                   !.axes = {}, !.motion = NoValue]

\* Mutant: a second value of an axis replaces the first.
join_motion_value_replaced(a, v) ==
    [a EXCEPT !.axes = @ \cup {v.usage},
              !.motion[v.usage] = adjust_pointing_motion_value(v.value, multiplier(v.usage))]

\* A second value of an axis starts another motion.
join_motion_value(a, v) ==
    LET b == IF v.usage \in a.axes THEN Flush(a) ELSE a
    IN  [b EXCEPT !.axes = @ \cup {v.usage},
                  !.motion[v.usage] = adjust_pointing_motion_value(v.value, multiplier(v.usage))]

is_motion(v) == v.usage \in MotionAxes /\ ~ (device.game_pad /\ v.usage \in {"x", "y"})

make_entry(a, v) ==
    CASE v.page \in {"keyboard", "button"} ->
            [a EXCEPT !.entries = Append(@, KeyEntry(v.usage, IF v.value # 0 THEN "key_down"
                                                                              ELSE "key_up"))]
      [] is_motion(v) -> join_motion_value(a, v)
      [] v.usage = "caps_lock_led" ->
            [a EXCEPT !.entries = Append(@, [event |-> "caps_lock_state_changed",
                                             value |-> v.value, type |-> "single"])]
      [] v.usage = "hat_switch" /\ device.game_pad ->
            [a EXCEPT !.entries = @ \o to_dpad_events(a.direction, hat_direction(v.value)),
                      !.direction = hat_direction(v.value)]
      [] OTHER -> a

make_entries(values) ==
    LET none == [entries |-> <<>>, axes |-> {}, motion |-> NoValue, direction |-> direction]
        after[i \in 0..Len(values)] == IF i = 0 THEN none ELSE make_entry(after[i - 1], values[i])
    IN  Flush(after[Len(values)])

\* insert_device_keys_and_pointing_buttons_are_released_event
insert(a, e) ==
    LET keys == IF e.event = "key" /\ e.type = "key_down" THEN a.pressed \cup {e.value}
                ELSE IF e.event = "key" THEN a.pressed \ {e.value} ELSE a.pressed
        released == IF e.type = "key_up" /\ a.pressed # {} /\ keys = {}
                    THEN <<[event |-> "released", value |-> 1, type |-> "single"]>>
                    ELSE <<>>
    IN  [pressed |-> keys, entries |-> Append(a.entries, e) \o released]

insert_released_event(made) ==
    LET after[i \in 0..Len(made)] == IF i = 0 THEN [pressed |-> pressed, entries |-> <<>>]
                                     ELSE insert(after[i - 1], made[i])
    IN  after[Len(made)]

ValuesArrived(values) ==
    LET kept == Kept(values, {i \in DOMAIN values : ~ dropped(values[i])})
        made == make_entries(kept)
        inserted == insert_released_event(made.entries)
    IN  /\ report' = kept
        /\ direction' = made.direction
        /\ entries' = inserted.entries
        /\ pressed' = inserted.pressed
        /\ UNCHANGED device

\* The device is unplugged; its entry and its direction are erased.
erase_device ==
    /\ direction' = {} /\ pressed' = {} /\ report' = <<>> /\ entries' = <<>>
    /\ UNCHANGED device

Next ==
    \/ \E values \in Reports : ValuesArrived(values)
    \/ erase_device

-----------------------------------------------------------------------------
\* No motion value is lost when the values of a report are joined, none stays
\* behind for the next report and none vanishes by a small multiplier
\* (make_entries, adjust_pointing_motion_value).
EveryMotionValueCounts ==
    \A axis \in MotionAxes :
        LET moved == {i \in DOMAIN report : report[i].usage = axis /\ is_motion(report[i])
                                            /\ report[i].value # 0}
        IN  Cardinality(moved) = Cardinality({i \in DOMAIN entries :
                entries[i].event = "pointing_motion" /\ entries[i].value[axis] # 0})

\* The dpad keys that are down are the directions of the hat switch, however
\* it jumps, and two opposite keys are never down together
\* (hat_switch_converter::to_dpad_events).
DpadFollowsHatSwitch ==
    pressed \cap {"up", "down", "left", "right"} = direction
=============================================================================
