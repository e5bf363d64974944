------------------------- MODULE ModifierFlagCounter -------------------------
(***************************************************************************)
(* What modifier_flag_manager promises, without its vector: one signed     *)
(* counter for each kind of entry, flag and device.  Key and sticky events *)
(* move a counter by one, the led lock is a single switch, and forgetting  *)
(* a device or the stickies sets the counters concerned to zero.           *)
(***************************************************************************)
EXTENDS Integers, FiniteSets

CONSTANTS Flags, caps_lock, Devices, device_0

VARIABLE net

Kinds == {"plain", "lock", "led_lock", "sticky"}

Counters == {<<k, m, d>> : k \in Kinds, m \in Flags, d \in Devices}

\* The counters that decide whether a flag is pressed.
Counted(m) == {<<k, m, d>> : k \in Kinds \ {"led_lock"}, d \in Devices}

Led(m) == <<"led_lock", m, device_0>>

Init == net = [x \in Counters |-> 0]

\* What the counters of a flag hold, one by one: raises (sign 1) or lowerings.
Units(m, sign) == UNION {{<<x, n>> : n \in 1..(sign * net[x])} : x \in Counted(m)}

\* The led switch decides only while every other counter of the flag is zero.
Pressed(m) ==
    IF \A x \in Counted(m) : net[x] = 0 THEN net[Led(m)] = 1
    ELSE Cardinality(Units(m, 1)) > Cardinality(Units(m, -1))

Move(x, c) == net' = [net EXCEPT ![x] = @ + c]

SwitchLed(on) == net' = [net EXCEPT ![Led(caps_lock)] = IF on THEN 1 ELSE 0]

Forget(counters) == net' = [x \in Counters |-> IF x \in counters THEN 0 ELSE net[x]]

OfDevice(kinds, d) == kinds \X Flags \X {d}

CapsLockStickies == {"sticky"} \X {caps_lock} \X Devices

Next ==
    \/ \E k \in {"plain", "sticky"}, m \in Flags, d \in Devices, c \in {1, -1} : Move(<<k, m, d>>, c)
    \/ \E on \in BOOLEAN : SwitchLed(on)
    \/ Forget({"sticky"} \X Flags \X Devices)
    \/ \E d \in Devices : \/ Forget(OfDevice(Kinds, d))
                           \/ Forget(OfDevice({"plain"}, d) \cup CapsLockStickies)

Spec == Init /\ [][Next]_net
=============================================================================
