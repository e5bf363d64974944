---------------------------- MODULE GamePadStick ----------------------------
(***************************************************************************)
(* game_pad_stick_converter of a grabbed game pad: two sticks whose values *)
(* arrive only when they change become pointing motions, with a timer that *)
(* goes on while a stick is completely tilted.  Magnitudes are integers,   *)
(* Full standing for 1.0; the direction (radian) is given by the two       *)
(* sensor values and the formulas of the configuration by its sign.        *)
(***************************************************************************)
EXTENDS Integers, FiniteSetsExt

CONSTANTS
    Full,               \* magnitude 1.0
    LogicalMin, LogicalMax,     \* the range of the HID values
    RawValues,          \* the values that arrive, for each usage
    Unit,               \* denominator of the values of the formulas
    MaxMotion,          \* logical maximum of the virtual pointing device (127)
    StickParameters     \* configurations of the device

VARIABLES
    parameters,     \* core_configuration_
    sticks,         \* xy_ and wheels_
    mode,           \* continued_movement_mode_
    timer,          \* continued_movement_timer_: its count, or -1 when it is stopped
    remainders,     \* remainder_ of the event_value of each axis
    motion          \* the pointing_motion of the last step

Sticks == {"xy", "wheels"}
Axes(stick) == IF stick = "xy" THEN {"x", "y"} ELSE {"vertical_wheel", "horizontal_wheel"}
AllAxes == Axes("xy") \cup Axes("wheels")
Stopped == -1
NoMotion == [a \in AllAxes |-> 0]

Init ==
    /\ parameters \in StickParameters
    /\ sticks = [s \in Sticks |-> [h |-> 0, v |-> 0, absolute |-> 0, delta |-> 0, previous |-> 0]]
    /\ mode = "none" /\ timer = Stopped
    /\ remainders = NoMotion /\ motion = NoMotion

-----------------------------------------------------------------------------
(* stick                                                                    *)

\* stick_sensor: -1.0 ... 1.0
update_stick_sensor_value(raw) ==
    ((raw - LogicalMin) * 2 * Full) \div (LogicalMax - LogicalMin) - Full

Distance(h, v) == Max({n \in 0..(2 * Full) : n * n <= h * h + v * v})

continued_movement(s, p) == s.absolute >= p.continued_threshold

interval(s, p) == IF continued_movement(s, p) THEN p.interval ELSE 0

\* Small changes are collected until they reach the threshold; a magnitude
\* within the dead zone counts for nothing.
update_values(s, p) ==
    LET absolute == Min({Full, Distance(s.h, s.v)})
        dm == Max({0, absolute - s.previous})
        minor == /\ absolute < p.continued_threshold
                 /\ 0 < dm /\ dm < p.detection_threshold
        dead == absolute <= p.deadzone
    IN  [s EXCEPT !.absolute = IF dead THEN 0 ELSE absolute,
                  !.delta = IF dead \/ minor THEN 0 ELSE dm,
                  !.previous = IF minor THEN @ ELSE absolute]

-----------------------------------------------------------------------------
(* post_event                                                               *)

Other(stick) == CHOOSE s \in Sticks \ {stick} : TRUE

SignOf(n) == IF n > 0 THEN 1 ELSE IF n < 0 THEN -1 ELSE 0

\* The default formulas in steps of 1 / Unit: the sine or cosine as a sign, a
\* factor for the magnitude, and a wheel only along the longer component.
Formula(axis, s, delta, absolute, continued) ==
    LET along == IF axis \in {"x", "horizontal_wheel"} THEN s.h ELSE s.v
        across == IF axis \in {"x", "horizontal_wheel"} THEN s.v ELSE s.h
        factor == IF axis \in {"x", "y"} THEN 3
                  ELSE IF along * along <= across * across THEN 0
                  ELSE IF axis = "vertical_wheel" THEN -1 ELSE 1
    IN  SignOf(along) * factor * (IF continued THEN absolute ELSE delta)

\* While a stick continues, the magnitude of the other one is added.
axis_value(axis, stick, ss, m) ==
    LET s == ss[stick]
        extra == IF m = stick /\ continued_movement(s, parameters[stick])
                 THEN ss[Other(stick)].absolute ELSE 0
    IN  Formula(axis, s, s.delta + extra, s.absolute + extra, m = stick)

Truncate(n) == IF n >= 0 THEN n \div Unit ELSE -((-n) \div Unit)

\* event_value::truncated_value: the fraction is kept, the rest is limited.
truncated_value(value, remainder) ==
    LET v == Truncate(value + remainder)
    IN  [value |-> Max({-MaxMotion, Min({MaxMotion, v})}),
         remainder |-> remainder + value - v * Unit]

\* post_event(stick) with the sticks ss in mode m.
post_event(stick, ss, m) ==
    LET axis(a) == truncated_value(axis_value(a, stick, ss, m), remainders[a])
    IN  /\ motion' = [a \in AllAxes |-> IF a \in Axes(stick) THEN axis(a).value ELSE 0]
        /\ remainders' = [a \in AllAxes |-> IF a \in Axes(stick) THEN axis(a).remainder
                                                                 ELSE remainders[a]]

Silent == motion' = NoMotion /\ UNCHANGED remainders

\* Mutant: only the stick that started the timer stops it.
update_timer_of_mode(stick, ss) ==
    IF interval(ss[stick], parameters[stick]) # 0
    THEN /\ mode' = IF timer = Stopped THEN stick ELSE mode
         /\ timer' = IF timer = Stopped THEN 0 ELSE timer
         /\ Silent
    ELSE IF mode = "none" THEN post_event(stick, ss, mode) /\ UNCHANGED <<mode, timer>>
    ELSE IF mode = stick /\ \A s \in Sticks : ~ continued_movement(ss[s], parameters[s])
    THEN mode' = "none" /\ timer' = Stopped /\ Silent
    ELSE UNCHANGED <<mode, timer>> /\ Silent

update_continued_movement_timer(stick, ss) ==
    IF interval(ss[stick], parameters[stick]) # 0
    THEN /\ mode' = IF timer = Stopped THEN stick ELSE mode
         /\ timer' = IF timer = Stopped THEN 0 ELSE timer
         /\ Silent
    ELSE IF mode = "none" THEN post_event(stick, ss, mode) /\ UNCHANGED <<mode, timer>>
    ELSE IF \A s \in Sticks : ~ continued_movement(ss[s], parameters[s])
    THEN mode' = "none" /\ timer' = Stopped /\ Silent
    ELSE UNCHANGED <<mode, timer>> /\ Silent

-----------------------------------------------------------------------------
\* convert: one value of a report; x and y are the first stick, z and rz the second.
Convert(usage, raw) ==
    LET first == usage \in {"x", "y"}
        stick == IF first # parameters.swap_sticks THEN "xy" ELSE "wheels"
        value == update_stick_sensor_value(raw)
        moved == IF usage \in {"x", "z"} THEN [sticks[stick] EXCEPT !.h = value]
                                         ELSE [sticks[stick] EXCEPT !.v = value]
    IN  /\ sticks' = [sticks EXCEPT ![stick] = update_values(moved, parameters[stick])]
        /\ update_continued_movement_timer(stick, sticks')
        /\ UNCHANGED parameters

\* The first call comes at once and is ignored; the count is kept up to 2.
Fire ==
    /\ timer # Stopped
    /\ timer' = Min({timer + 1, 2})
    /\ IF timer = 0 THEN Silent ELSE post_event(mode, sticks, mode)
    /\ UNCHANGED <<parameters, sticks, mode>>

set_core_configuration(p) ==
    /\ parameters' = p /\ p # parameters
    /\ motion' = NoMotion
    /\ UNCHANGED <<sticks, mode, timer, remainders>>

Next ==
    \/ \E usage \in {"x", "y", "z", "rz"} : \E raw \in RawValues[usage] : Convert(usage, raw)
    \/ Fire
    \/ \E p \in StickParameters : set_core_configuration(p)

-----------------------------------------------------------------------------
\* When both sticks are back in the middle the timer is stopped, whichever of
\* them started it and whatever was configured in between
\* (update_continued_movement_timer).
NeutralSticksAreQuiet ==
    (\A s \in Sticks : sticks[s].absolute = 0) => timer = Stopped /\ mode = "none"

=============================================================================
