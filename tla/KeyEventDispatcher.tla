-------------------------- MODULE KeyEventDispatcher --------------------------
(***************************************************************************)
(* key_event_dispatcher: which keys and modifiers the virtual keyboard has *)
(* been told are down.  The operators take and return a record with the    *)
(* output queue, pressed_keys_ and pressed_modifier_flags_, because one    *)
(* call may enqueue several events.                                        *)
(***************************************************************************)
EXTENDS Naturals, Sequences, SequencesExt, Subsequences

CONSTANTS
    caps_lock,
    FlagOrder,        \* the flags in the order of dispatch_modifier_key_event
    UsageOf,          \* the usage momentary_switch_event(flag) stands for
    emplace_back_key_event(_, _, _, _),   \* queue::emplace_back_key_event
    is_pressed(_, _)                      \* modifier_flag_manager::is_pressed

key_event_exists(st, usage) ==
    \E i \in DOMAIN st.pressed_keys : st.pressed_keys[i][2] = usage

enqueue_key_event(st, usage, type, time_stamp) ==
    [st EXCEPT !.queue = emplace_back_key_event(@, usage, type, time_stamp)]

dispatch_key_down_event(st, device, usage, time_stamp) ==
    IF key_event_exists(st, usage) THEN st
    ELSE enqueue_key_event([st EXCEPT !.pressed_keys = Append(@, <<device, usage>>)],
                           usage, "key_down", time_stamp)

dispatch_key_up_event(st, usage, time_stamp) ==
    IF ~ key_event_exists(st, usage) THEN st
    ELSE enqueue_key_event(
             [st EXCEPT !.pressed_keys = Kept(@, {i \in DOMAIN @ : @[i][2] # usage})],
             usage, "key_up", time_stamp)

\* The caps_lock key is tapped, after its own key_down has been taken back.
send_caps_lock(st, time_stamp) ==
    LET usage == UsageOf[caps_lock]
        up == dispatch_key_up_event(st, usage, time_stamp)
    IN  enqueue_key_event(enqueue_key_event(up, usage, "key_down", time_stamp),
                          usage, "key_up", time_stamp)

\* Mutant: the flag is remembered as pressed and never taken back.
dispatch_modifier_flag_down_only(st, flags, m, time_stamp) ==
    IF is_pressed(flags, m) /\ m \notin st.pressed_modifier_flags
    THEN enqueue_key_event([st EXCEPT !.pressed_modifier_flags = @ \cup {m}],
                           UsageOf[m], "key_down", time_stamp)
    ELSE st

\* One turn of the loop of dispatch_modifier_key_event.
dispatch_modifier_flag(st, flags, m, time_stamp) ==
    LET pressed == m \in st.pressed_modifier_flags
        after == IF pressed THEN [st EXCEPT !.pressed_modifier_flags = @ \ {m}]
                            ELSE [st EXCEPT !.pressed_modifier_flags = @ \cup {m}]
    IN  IF is_pressed(flags, m) = pressed THEN st
        ELSE IF m = caps_lock THEN send_caps_lock(after, time_stamp)
        ELSE enqueue_key_event(after, UsageOf[m], IF pressed THEN "key_up" ELSE "key_down",
                               time_stamp)

dispatch_modifier_key_event(st, flags, time_stamp) ==
    LET after[i \in 0..Len(FlagOrder)] ==
            IF i = 0 THEN st
            ELSE dispatch_modifier_flag(after[i - 1], flags, FlagOrder[i], time_stamp)
    IN  after[Len(FlagOrder)]

\* Mutant: the keys of the device are forgotten without a key_up.
forget_keys_of_device(st, device, time_stamp) ==
    [st EXCEPT !.pressed_keys = Kept(@, {i \in DOMAIN @ : @[i][1] # device})]

\* The loop releases the first key of the device until none is left.
dispatch_key_up_events_by_device_id(st, device, time_stamp) ==
    LET keys == st.pressed_keys
        ofDevice == Kept(keys, {i \in DOMAIN keys : keys[i][1] = device})
        after[i \in 0..Len(ofDevice)] ==
            IF i = 0 THEN st ELSE dispatch_key_up_event(after[i - 1], ofDevice[i][2], time_stamp)
    IN  after[Len(ofDevice)]

clear(st) == [st EXCEPT !.pressed_keys = <<>>, !.pressed_modifier_flags = {}]
=============================================================================
