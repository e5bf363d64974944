------------------------- MODULE ManipulatorConditions -------------------------
(***************************************************************************)
(* krbn::manipulator::conditions: what a condition says of an entry and of  *)
(* the environment of the queue it is tested against.  Regular expressions, *)
(* specifiers and device identifiers are given by the sets of applications, *)
(* input sources and devices they match.                                    *)
(***************************************************************************)
EXTENDS Naturals, FiniteSets

CONSTANT keyboard_type      \* the keyboard type of the selected profile

\* A condition: its type without _if or _unless, the polarity, and what it names.
Condition(type, positive, value) == [type |-> type, positive |-> positive, value |-> value]

\* device_if: the device of the entry is known and one definition matches it.
device_condition(c, e, env) == (e.device \in env.devices /\ e.device \in c.value) <=> c.positive

\* device_exists_if: some known device matches.
device_exists_condition(c, e, env) == (env.devices \cap c.value # {}) <=> c.positive

\* event_changed: _if compares with manipulated, _unless with original, so
\* that the two differ for the events of neither state (virtual_event).
event_changed_condition(c, e, env) ==
    IF c.positive THEN (e.state = "manipulated") <=> c.value
                  ELSE (e.state = "original") <=> c.value

\* frontmost_application: the cached result is the one of the same
\* application, hence always the result computed again.
frontmost_application_condition(c, e, env) == (env.application \in c.value) <=> c.positive

input_source_condition(c, e, env) == (env.input_source \in c.value) <=> c.positive

keyboard_type_condition(c, e, env) == (keyboard_type \in c.value) <=> c.positive

\* variable: a variable that is not set has the default value.
variable_condition(c, e, env) == (env.variables[c.value.name] = c.value.value) <=> c.positive

fulfilled(c, e, env) ==
    CASE c.type = "device" -> device_condition(c, e, env)
      [] c.type = "device_exists" -> device_exists_condition(c, e, env)
      [] c.type = "event_changed" -> event_changed_condition(c, e, env)
      [] c.type = "frontmost_application" -> frontmost_application_condition(c, e, env)
      [] c.type = "input_source" -> input_source_condition(c, e, env)
      [] c.type = "keyboard_type" -> keyboard_type_condition(c, e, env)
      [] c.type = "variable" -> variable_condition(c, e, env)

\* condition_manager::is_fulfilled
is_fulfilled(conditions, e, env) == \A c \in conditions : fulfilled(c, e, env)
=============================================================================
