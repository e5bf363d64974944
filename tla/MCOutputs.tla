------------------------------ MODULE MCOutputs ------------------------------
(* The two stores behind the last stage, each on its own: the queue of       *)
(* reports with a key and a modifier on the keyboard page and fn on the top  *)
(* case page, and the vector of modifier flags with two flags (one of them   *)
(* caps_lock), device_id(0) and one keyboard.                                *)
EXTENDS VirtualDeviceQueue

CONSTANTS
    key_a, shift, fn, keyboard_page, top_case_page,
    Flags, caps_lock, Devices, device_0, MaxEntries     \* those of ModifierFlagManager

VARIABLES component, active_modifier_flags

MCPageOf == [u \in {key_a, shift, fn} |-> IF u = fn THEN top_case_page ELSE keyboard_page]

flags == INSTANCE ModifierFlagManager

ASSUME FlagsAssumption == flags!FlagAssumption

OutputsInit == component \in {"queue", "flags"} /\ Init /\ flags!Init

OutputsNext ==
    \/ component = "queue" /\ Next /\ UNCHANGED <<component, active_modifier_flags>>
    \/ component = "flags" /\ flags!Next /\ UNCHANGED <<component, vars>>

OutputsSpec == OutputsInit /\ [][OutputsNext]_<<component, active_modifier_flags, vars>>

\* A scope makes exactly the wanted flags pressed, and leaving it undoes it
\* (scoped_modifier_flags).
ScopeIsExact == component = "flags" => flags!ScopeIsExact

\* The vector implements one signed counter per kind, flag and device, is_pressed
\* included (modifier_flag_manager).
ImplementsCounter ==
    /\ flags!Counter!Init
    /\ [][component = "flags" => [flags!Counter!Next]_(flags!NetCount(active_modifier_flags))]_active_modifier_flags
    /\ [](component = "flags" => flags!PressedByCounter)
=============================================================================
