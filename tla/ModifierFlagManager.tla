------------------------- MODULE ModifierFlagManager -------------------------
(***************************************************************************)
(* krbn::modifier_flag_manager: the vector of active modifier flags that   *)
(* every event queue keeps.  An entry raises or lowers one flag on behalf  *)
(* of one device; a flag is pressed when its entries sum to more than      *)
(* zero.  The operators work on the vector, so that the modules of the     *)
(* event queue and of the virtual devices can apply several of them in     *)
(* one step; the actions are the calls the event queue makes.              *)
(***************************************************************************)
EXTENDS Integers, Sequences, FiniteSets, SequencesExt, Subsequences

CONSTANTS
    Flags,          \* the modifier flags
    caps_lock,      \* the flag that follows the LED of the virtual keyboard
    Devices,        \* device ids
    device_0,       \* device_id(0), the owner of shared and scoped entries
    MaxEntries      \* bound on the length of the vector

\* What the constants are assumed to be.
FlagAssumption ==
    /\ caps_lock \in Flags /\ device_0 \in Devices /\ MaxEntries \in Nat \ {0}
    /\ IsFiniteSet(Flags)

Kinds == {"plain", "lock", "led_lock", "sticky"}

\* active_modifier_flag: type is split into its sign (get_count) and its kind.
Entry == [count : {1, -1}, kind : Kinds, flag : Flags, device : Devices]

VARIABLE active_modifier_flags

\* The constructor: an led_lock entry is shared by all devices.
ActiveModifierFlag(count, kind, flag, device) ==
    [count |-> count, kind |-> kind, flag |-> flag,
     device |-> IF kind = "led_lock" THEN device_0 ELSE device]

\* get_inverse_type, as the entry the scoped flags build from it.
InverseEntry(f, device) == ActiveModifierFlag(-f.count, f.kind, f.flag, device)

is_paired(f, g) ==
    /\ f.count = -g.count
    /\ f.kind = g.kind
    /\ f.flag = g.flag
    /\ f.device = g.device

\* A round of the loop of erase_pairs, at index i.  Erasing a pair steps the
\* index back by one, except at the front, where the entry that moves into the
\* first place is not looked at again.
erase_pair(a) ==
    LET partners == {j \in (a.i + 1)..Len(a.flags) : is_paired(a.flags[a.i], a.flags[j])}
    IN  IF a.i > Len(a.flags) THEN a
        ELSE IF partners = {} THEN [a EXCEPT !.i = @ + 1]
        ELSE [flags |-> RemoveAt(RemoveAt(a.flags, Min(partners)), a.i),
              i |-> IF a.i > 1 THEN a.i ELSE 2]

\* Every round brings the index closer to the end.
erase_pairs(s) ==
    LET round[n \in 0..Len(s)] == IF n = 0 THEN [flags |-> s, i |-> 1] ELSE erase_pair(round[n - 1])
    IN  round[Len(s)].flags

\* Mutant: the led lock is pushed like a plain entry, once per report.
push_back_led_lock_repeatedly(s, f) == erase_pairs(Append(s, f))

push_back_active_modifier_flag(s, f) ==
    CASE f.kind \in {"plain", "sticky"} -> erase_pairs(Append(s, f))
      [] f.kind = "lock" \/ (f.kind = "led_lock" /\ f.count = 1) ->
            erase_pairs(Append(Kept(s, {i \in DOMAIN s : s[i] # f}), f))
      [] OTHER -> Kept(s, {i \in DOMAIN s : ~ is_paired(s[i], f)})

erase_all_active_modifier_flags(s, device) ==
    Kept(s, {i \in DOMAIN s : s[i].device # device})

erase_all_active_modifier_flags_except_lock_and_sticky(s, device) ==
    Kept(s, {i \in DOMAIN s : ~ (s[i].device = device /\ s[i].kind = "plain")})

erase_caps_lock_sticky_modifier_flags(s) ==
    Kept(s, {i \in DOMAIN s : ~ (s[i].flag = caps_lock /\ s[i].kind = "sticky")})

erase_all_sticky_modifier_flags(s) == Kept(s, {i \in DOMAIN s : s[i].kind # "sticky"})

\* The led lock counts only while no other entry of the flag exists.
is_pressed(s, m) ==
    LET other(c) == {i \in DOMAIN s : s[i].flag = m /\ s[i].kind # "led_lock" /\ s[i].count = c}
        led(c) == {i \in DOMAIN s : s[i].flag = m /\ s[i].kind = "led_lock" /\ s[i].count = c}
    IN  IF other(1) = {} /\ other(-1) = {}
        THEN Cardinality(led(1)) > Cardinality(led(-1))
        ELSE Cardinality(other(1)) > Cardinality(other(-1))

sticky_size(s, m) == Cardinality({i \in DOMAIN s : s[i].flag = m /\ s[i].kind = "sticky"})

make_modifier_flags(s) == {m \in Flags : is_pressed(s, m)}

\* One push after the other.
push_all(s, pushed) ==
    LET after[i \in 0..Len(pushed)] ==
            IF i = 0 THEN s ELSE push_back_active_modifier_flag(after[i - 1], pushed[i])
    IN  after[Len(pushed)]

\* What one flag contributes to a scope: raise it until it is pressed, or
\* push the inverse of each of its entries when it must not be pressed.
increases(s, m) ==
    LET raise(n) == [i \in 1..n |-> ActiveModifierFlag(1, "plain", m, device_0)]
    IN  raise(Min({n \in 0..(Len(s) + 1) : is_pressed(push_all(s, raise(n)), m)}))

\* Mutant: the scope inverts only the first entry of a flag.
inverse_of_first(s, m) ==
    LET ofFlag == Kept(s, {i \in DOMAIN s : s[i].flag = m})
    IN  IF is_pressed(s, m) THEN <<InverseEntry(ofFlag[1], device_0)>> ELSE <<>>

inverses(s, m) ==
    LET ofFlag == Kept(s, {i \in DOMAIN s : s[i].flag = m})
    IN  IF is_pressed(s, m) THEN [i \in DOMAIN ofFlag |-> InverseEntry(ofFlag[i], device_0)]
        ELSE <<>>

scope_flag(scope, m, wanted) ==
    LET pushed == IF m \in wanted THEN increases(scope.flags, m) ELSE inverses(scope.flags, m)
    IN  [flags |-> push_all(scope.flags, pushed), pushed |-> scope.pushed \o pushed]

\* The constructor of scoped_modifier_flags: the vector it leaves and the
\* entries it pushed.  The flags are independent, so any order is the code's.
scoped_modifier_flags(s, wanted) ==
    LET order == SetToSeq(Flags)
        scope[i \in 0..Len(order)] == IF i = 0 THEN [flags |-> s, pushed |-> <<>>]
                                      ELSE scope_flag(scope[i - 1], order[i], wanted)
    IN  scope[Len(order)]

\* Its destructor pushes the inverse entries.
restore_modifier_flags(scope) ==
    push_all(scope.flags, [i \in DOMAIN scope.pushed |->
                               InverseEntry(scope.pushed[i], scope.pushed[i].device)])
-----------------------------------------------------------------------------
Init == active_modifier_flags = <<>>

Push(count, kind, flag, device) ==
    active_modifier_flags' =
        push_back_active_modifier_flag(active_modifier_flags,
                                       ActiveModifierFlag(count, kind, flag, device))

\* queue::emplace_back_entry, a modifier key: any device, in any balance,
\* because manipulators also emit key_up and key_down on their own.
ModifierKeyEvent(count, flag, device) ==
    /\ flag # caps_lock        \* the caps_lock usage is not a modifier flag
    /\ Push(count, "plain", flag, device)

\* emplace_back_entry, a valid key_down of any other key.
OtherKeyDown ==
    active_modifier_flags' = erase_all_sticky_modifier_flags(active_modifier_flags)

\* emplace_back_entry, sticky_modifier.
StickyModifier(type, flag, device) ==
    LET lower == \/ type = "off"
                 \/ type = "toggle" /\ sticky_size(active_modifier_flags, flag) > 0
    IN  Push(IF lower THEN -1 ELSE 1, "sticky", flag, device)

\* emplace_back_entry, caps_lock_state_changed (posted with device_id(0)).
CapsLockStateChanged(on) == Push(IF on THEN 1 ELSE -1, "led_lock", caps_lock, device_0)

\* manipulator_manager on device_keys_and_pointing_buttons_are_released; the
\* last stage then drops the caps_lock stickies.
DeviceKeysReleased(device) ==
    active_modifier_flags' =
        erase_caps_lock_sticky_modifier_flags(
            erase_all_active_modifier_flags_except_lock_and_sticky(
                active_modifier_flags, device))

\* manipulator_manager on device_ungrabbed.
DeviceUngrabbed(device) ==
    active_modifier_flags' =
        erase_all_active_modifier_flags(active_modifier_flags, device)

MayGrow == Len(active_modifier_flags) < MaxEntries

Next ==
    \/ MayGrow /\ \E c \in {1, -1}, m \in Flags, d \in Devices : ModifierKeyEvent(c, m, d)
    \/ MayGrow /\ \E t \in {"on", "off", "toggle"}, m \in Flags, d \in Devices :
                      StickyModifier(t, m, d)
    \/ MayGrow /\ \E on \in BOOLEAN : CapsLockStateChanged(on)
    \/ OtherKeyDown
    \/ \E d \in Devices : DeviceKeysReleased(d) \/ DeviceUngrabbed(d)

Spec == Init /\ [][Next]_active_modifier_flags
-----------------------------------------------------------------------------
\* Every entry raises or lowers one flag of one device by exactly one
\* (active_modifier_flag::get_count), and the vector stays within its bound.
TypeOK ==
    /\ active_modifier_flags \in Seq(Entry)
    /\ Len(active_modifier_flags) <= MaxEntries

\* Whatever manipulators and devices pushed before, a scope makes exactly the
\* wanted flags pressed, and leaving it gives back the same entries, led and
\* sticky ones included (scoped_modifier_flags.hpp).
ScopeIsExact ==
    \A wanted \in SUBSET Flags :
        LET scope == scoped_modifier_flags(active_modifier_flags, wanted)
        IN  /\ make_modifier_flags(scope.flags) = wanted
            /\ ToBag(restore_modifier_flags(scope)) = ToBag(active_modifier_flags)

\* The balance of each kind, flag and device: the abstract state.
CounterOf(f) == <<f.kind, f.flag, f.device>>

Counters == {<<k, m, d>> : k \in Kinds, m \in Flags, d \in Devices}

NetCount(s) ==
    [x \in Counters |->
        LET Times(c) == Cardinality({i \in DOMAIN s : CounterOf(s[i]) = x /\ s[i].count = c})
        IN  Times(1) - Times(-1)]

Counter == INSTANCE ModifierFlagCounter WITH net <- NetCount(active_modifier_flags)

\* The vector implements one signed counter per kind, flag and device, and
\* its length never influences the counters (modifier_flag_manager.hpp).
ImplementsCounter == Counter!Spec

\* is_pressed, which adds up entries, is the verdict the counters give.
PressedByCounter ==
    \A m \in Flags : is_pressed(active_modifier_flags, m) <=> Counter!Pressed(m)
=============================================================================
