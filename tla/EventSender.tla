----------------------------- MODULE EventSender -----------------------------
(***************************************************************************)
(* What a rule of krbn::manipulator::manipulators::basic says, and         *)
(* event_sender: how its `to` events are posted into the output queue, and *)
(* which key_up events wait for the key_up of the `from` event.            *)
(***************************************************************************)
EXTENDS EventQueue, ManipulatorConditions

CONSTANTS
    any,                    \* modifier::any
    None,
    ModifierFlagsOf         \* get_modifier_flags of the modifiers that name two flags

-----------------------------------------------------------------------------
(* Definitions: what a rule says.                                           *)

\* to_event_definition and its defaults
To(event) ==
    [event |-> event, modifiers |-> <<>>, lazy |-> FALSE, repeat |-> TRUE,
     halt |-> FALSE, hold |-> 0, conditions |-> {}]

\* simultaneous_options and their defaults
SimultaneousOptions ==
    [detect_key_down_uninterruptedly |-> FALSE, key_down_order |-> "insensitive",
     key_up_order |-> "insensitive", key_up_when |-> "any", to_after_key_up |-> <<>>]

\* basic: `from` is the sequence of event definitions, one key or <<any>>.
Rule(from, to) ==
    [from |-> from, mandatory |-> {}, optional |-> {}, options |-> SimultaneousOptions,
     conditions |-> {}, to |-> to, to_if_alone |-> <<>>, to_after_key_up |-> <<>>,
     to_if_held_down |-> <<>>, to_if_invoked |-> <<>>, to_if_canceled |-> <<>>,
     to_if_other_key_pressed |-> <<>>]

\* modifier_definition::get_modifier_flags, in the order of the code
get_modifier_flags(modifier) ==
    IF modifier \in DOMAIN ModifierFlagsOf THEN ModifierFlagsOf[modifier]
    ELSE IF modifier = any THEN <<>> ELSE <<modifier>>

\* from_event_definition::test_event.  `any` matches every key of its usage
\* page; all keys of the model are of one page.
test_event(event, definition) ==
    IsSwitch(event) /\ (definition = any \/ event.value = definition)

test_from(event, from) == \E i \in DOMAIN from : test_event(event, from[i])

\* from_modifiers_definition::test_modifiers: the flags that make the
\* mandatory modifiers true, unless one is missing or an extra one is pressed.
test_modifiers(rule, flags) ==
    LET pressed(modifier) == SelectSeq(get_modifier_flags(modifier),
                                       LAMBDA m : FM!is_pressed(flags, m))
        named == UNION {ToSet(get_modifier_flags(m)) : m \in rule.mandatory \cup rule.optional}
        extra == FM!make_modifier_flags(flags) \ named
    IN  IF any \in rule.mandatory
        THEN [ok |-> TRUE, flags |-> FM!make_modifier_flags(flags)]
        ELSE IF /\ \A m \in rule.mandatory : pressed(m) # <<>>
                /\ any \in rule.optional \/ extra = {}
        THEN [ok |-> TRUE, flags |-> {pressed(m)[1] : m \in rule.mandatory}]
        ELSE [ok |-> FALSE, flags |-> {}]

\* from_event_definition::test_key_order
test_key_order(events, order, from) ==
    LET n == Len(from)
        place(i) == IF order = "strict" THEN i ELSE n + 1 - i
    IN  order = "insensitive" \/
        \A i \in DOMAIN events : i <= n => test_event(events[i], from[place(i)])

-----------------------------------------------------------------------------
(* manipulated_original_event                                               *)

FromEvent(e) == [device |-> e.device, event |-> e.event, original |-> e.original]

Manipulated(from_events, mandatory, time, flags) ==
    [from_events |-> from_events, mandatory |-> mandatory, released_modifiers |-> {},
     time |-> time, key_down_flags |-> flags, alone |-> TRUE, halted |-> FALSE,
     events_at_key_up |-> <<>>, key_up_posted |-> FALSE]

-----------------------------------------------------------------------------
(* event_sender.  A sender s has the output queue q, the current            *)
(* manipulated_original_event moe and the running time_stamp_delay.  The    *)
(* entry e gives the device, the time stamp, the original event and the     *)
(* state of what is posted.                                                 *)

Sender(q, moe) == [q |-> q, moe |-> moe, delay |-> 0]

PostFrom(s, e, device, event, type, original, lazy) ==
    [s EXCEPT !.q = emplace_back_entry(@,
                        [QueueEntry(device, e.time + s.delay, event, type, original,
                                    "manipulated", lazy)
                         EXCEPT !.input_delay = e.input_delay]),
              !.delay = @ + 1]

Post(s, e, event, type, lazy) == PostFrom(s, e, e.device, event, type, e.original, lazy)

\* make_lazy_modifier_key_event: caps_lock is sent as a sticky modifier.
lazy_modifier_event(m, type) ==
    IF m = caps_lock
    THEN [event |-> Event("sticky_modifier",
                          [flag |-> m, type |-> IF type = "key_down" THEN "on" ELSE "off"]),
          type |-> "single"]
    ELSE [event |-> Key(m), type |-> type]

post_lazy_modifier_key_event(s, e, device, m, type, lazy) ==
    LET l == lazy_modifier_event(m, type)
    IN  PostFrom(s, e, device, l.event, l.type, e.original, lazy)

post_lazy_modifier_key_events(s, e, modifiers, type) ==
    FoldLeft(LAMBDA a, m : post_lazy_modifier_key_event(a, e, e.device, m, type, TRUE),
             s, SetToSeq(modifiers))

post_from_mandatory_modifiers_key_up(s, e) ==
    LET ms == {m \in s.moe.mandatory \ s.moe.released_modifiers : FM!is_pressed(s.q.flags, m)}
    IN  post_lazy_modifier_key_events([s EXCEPT !.moe.released_modifiers = @ \cup ms],
                                      e, ms, "key_up")

post_from_mandatory_modifiers_key_down(s, e) ==
    LET ms == s.moe.mandatory \cap s.moe.released_modifiers
    IN  post_lazy_modifier_key_events([s EXCEPT !.moe.released_modifiers = @ \ ms],
                                      e, ms, "key_down")

\* filter_and_replace_events: all conditions are tested before the first
\* event is posted; from_event stands for the keys that are still down.
filter_and_replace_events(to, s, e) ==
    LET fulfilled_to == SelectSeq(to, LAMBDA t : is_fulfilled(t.conditions, e, s.q.env))
        replace(t) ==
            IF t.event.type # "from_event" THEN <<t>>
            ELSE [i \in DOMAIN s.moe.from_events |->
                    [t EXCEPT !.event = s.moe.from_events[i].event]]
    IN  FlattenSeq([i \in DOMAIN fulfilled_to |-> replace(fulfilled_to[i])])

IsModifierKeyEvent(event) ==
    \/ IsModifier(event)
    \/ IsSwitch(event) /\ event.value = caps_lock
    \/ event.type = "mouse_key" /\ event.value = "speed_multiplier"

is_last_to_event_modifier_key_event(to) == to # <<>> /\ IsModifier(Last(to).event)

PressModifiers(s, e, to, lazy) ==
    FoldLeft(LAMBDA a, m : post_lazy_modifier_key_event(a, e, e.device, m, "key_down", lazy),
             s, to.modifiers)

ReleaseModifiers(s, e, to) ==
    FoldLeft(LAMBDA a, m : post_lazy_modifier_key_event(a, e, e.device, m, "key_up", TRUE),
             s, to.modifiers)

Halt(s, to) == [s EXCEPT !.moe.halted = @ \/ to.halt]

PostKeyDown(s, e, to) == Halt(Post(s, e, to.event, "key_down", to.lazy), to)

PostKeyUp(s, e, to) ==
    Post([s EXCEPT !.delay = @ + to.hold], e, to.event, "key_up", to.lazy)

\* What stays down until the from key is released: the last event of `to`,
\* and its modifiers if it is a modifier itself.
KeepForKeyUp(s, e, events, lazy) ==
    [s EXCEPT !.moe.events_at_key_up = @ \o
        [i \in DOMAIN events |->
            [device |-> e.device, event |-> events[i].event, type |-> events[i].type,
             original |-> e.original, lazy |-> lazy]]]

ReleaseOrKeep(s, e, to, last) ==
    IF ~ last \/ ~ to.repeat THEN PostKeyUp(s, e, to)
    ELSE KeepForKeyUp(s, e, <<[event |-> to.event, type |-> "key_up"]>>, to.lazy)

ReleaseOrKeepModifiers(s, e, to, last) ==
    IF last /\ IsModifierKeyEvent(to.event)
    THEN KeepForKeyUp(s, e, [i \in DOMAIN to.modifiers |->
                                lazy_modifier_event(to.modifiers[i], "key_up")], TRUE)
    ELSE ReleaseModifiers(s, e, to)

post_to_event(s, e, to, last) ==
    ReleaseOrKeepModifiers(
        ReleaseOrKeep(
            PostKeyDown(PressModifiers(s, e, to, ~ IsModifierKeyEvent(to.event) \/ to.lazy), e, to),
            e, to, last),
        e, to, last)

post_events_at_key_down(s, e, to_events) ==
    LET to == filter_and_replace_events(to_events, s, e)
    IN  IF s.moe.halted THEN s
        ELSE FoldLeft(LAMBDA a, i : post_to_event(a, e, to[i], i = Len(to)),
                      s, [i \in DOMAIN to |-> i])

post_events_at_key_up(s, e) ==
    [FoldLeft(LAMBDA a, k : PostFrom(a, e, k.device, k.event, k.type, k.original, k.lazy),
              s, s.moe.events_at_key_up)
     EXCEPT !.moe.events_at_key_up = <<>>]

post_extra_to_events(s, e, to_events) ==
    IF s.moe.halted THEN s
    ELSE FoldLeft(LAMBDA a, t : ReleaseModifiers(
                                    PostKeyUp(PostKeyDown(PressModifiers(a, e, t, TRUE), e, t),
                                              e, t), e, t),
                  s, filter_and_replace_events(to_events, s, e))

\* post_active_modifier_flags: a flag entry is posted as a key, whatever its kind.
post_active_modifier_flags(s, e, entries) ==
    FoldLeft(LAMBDA a, f : post_lazy_modifier_key_event(
                               a, e, f.device, f.flag,
                               IF f.count > 0 THEN "key_down" ELSE "key_up", TRUE),
             s, entries)

\* scoped_from_key_modifier_flags_state_restorer around Body: the flags of
\* the key_down of the from event, then the present ones again.
WithModifiers(s, e, scope, Body(_)) ==
    LET inverse == [i \in DOMAIN scope |-> FM!InverseEntry(scope[i], scope[i].device)]
    IN  post_active_modifier_flags(Body(post_active_modifier_flags(s, e, scope)), e, inverse)

WithKeyDownModifiers(s, e, Body(_)) ==
    WithModifiers(s, e, FM!scoped_modifier_flags(s.q.flags, s.moe.key_down_flags).pushed, Body)

\* Extra events around which the mandatory modifiers are up.
WithoutMandatoryModifiers(s, e, to) ==
    post_from_mandatory_modifiers_key_down(
        post_extra_to_events(post_from_mandatory_modifiers_key_up(s, e), e, to), e)

\* `to` events of a key_down, of held down and of other keys: the mandatory
\* modifiers stay up as long as a modifier is the last event.
RestoreModifiers(s, e, to) ==
    IF is_last_to_event_modifier_key_event(to) THEN s
    ELSE post_from_mandatory_modifiers_key_down(s, e)

PressInsteadOfModifiers(s, e, to) ==
    RestoreModifiers(post_events_at_key_down(post_from_mandatory_modifiers_key_up(s, e), e, to),
                     e, to)

\* The end of what is down.
ReleaseEvents(s, e) == post_from_mandatory_modifiers_key_down(post_events_at_key_up(s, e), e)
=============================================================================
