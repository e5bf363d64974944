----------------------------- MODULE MCPostEvent -----------------------------
(* Model of PostEventToVirtualDevices for TLC.                              *)
EXTENDS PostEventToVirtualDevices, TLC

CONSTANTS key_a, key_caps_lock, key_shift, key_fn, shift, fn, caps, keyboard_page, top_case_page

MCPageOf == [u \in Usages |-> IF u = key_fn THEN top_case_page ELSE keyboard_page]

MCUsageOf ==
    [m \in Flags |-> CASE m = shift -> key_shift [] m = fn -> key_fn [] m = caps -> key_caps_lock]

\* States that differ only by a shift of all times behave alike, because only
\* differences of times are compared.  Time stamps that are due, and a last time
\* stamp more than Wait ago, have no other influence; of the tasks that are late
\* only the number matters.
Since(t, floor) == IF t = None THEN None ELSE IF t < floor THEN floor - now ELSE t - now

UntimedView ==
    <<[queue EXCEPT
          !.events = [i \in DOMAIN @ |-> [@[i] EXCEPT !.time_stamp = Since(@, now)]],
          !.last_event_time_stamp = Since(@, now - Wait)],
      device_report, device_buttons, pressed_keys_manager,
      Cardinality({w \in tasks : w < now}), {w - now : w \in {x \in tasks : x >= now}},
      Since(running, now), active_modifier_flags, pressed_keys, pressed_modifier_flags,
      active_pointing_buttons, pressed_buttons, mouse_keys, Since(mouse_timer, now - Wait),
      keyboard_ready, releases, secure_release, held, lazies, led, led_events>>

Symmetry == Permutations(KeyboardDevices)

Caps == <<caps>>
FnCaps == <<fn, caps>>
ShiftCaps == <<shift, caps>>
=============================================================================
