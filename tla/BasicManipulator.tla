-------------------------- MODULE BasicManipulator --------------------------
(***************************************************************************)
(* krbn::manipulator::manipulators::basic with to_if_held_down,            *)
(* to_delayed_action and to_if_other_key_pressed.  A manipulator is a      *)
(* record.  Its manipulated_original_events_ (`active`) point into         *)
(* `store`, because to_delayed_action shares one of them and               *)
(* to_if_held_down and to_if_other_key_pressed hold weak pointers: a weak  *)
(* pointer that has expired is None.                                       *)
(***************************************************************************)
EXTENDS EventSender

CONSTANTS
    Unit,                   \* time stamp units in a tick of the clock
    SimultaneousThreshold,  \* basic.simultaneous_threshold_milliseconds, in ticks
    AloneTimeout,           \* basic.to_if_alone_timeout_milliseconds
    HeldDownThreshold,      \* basic.to_if_held_down_threshold_milliseconds
    DelayedActionDelay      \* basic.to_delayed_action_delay_milliseconds

Manipulator(rule) ==
    [rule |-> rule, valid |-> TRUE, store |-> <<>>, active |-> <<>>,
     held |-> None, delayed |-> None, other |-> None]

active(m) == m.active # <<>>

ActiveEvents(m) == {m.store[id] : id \in ToSet(m.active)}

\* Shared pointers keep an event alive; weak ones expire with it.
Collect(m) ==
    LET live == ToSet(m.active) \cup (IF m.delayed = None THEN {} ELSE {m.delayed.moe})
        weak(p) == IF p # None /\ p.moe \notin live THEN [p EXCEPT !.moe = None] ELSE p
    IN  [m EXCEPT !.store = [id \in live |-> m.store[id]],
                  !.held = weak(@), !.other = weak(@)]

\* The manipulator after a sender worked on its event id; time_stamp_delay
\* of the sender is left to the caller.
Sent(c, id, s) == [c EXCEPT !.q = s.q, !.m.store[id] = s.moe]

already_manipulated(m, e) ==
    /\ e.type = "key_down" /\ IsSwitch(e.event)
    /\ \E moe \in ActiveEvents(m) : Contains(moe.from_events, FromEvent(e))

unset_alone_if_needed(m, event, type) ==
    IF \/ IsSwitch(event) /\ type = "key_down"
       \/ event.type = "pointing_motion" /\ event.value = "wheel"
    THEN [m EXCEPT !.store = [id \in DOMAIN @ |->
                                IF id \in ToSet(m.active) THEN [@[id] EXCEPT !.alone = FALSE]
                                                          ELSE @[id]]]
    ELSE m

-----------------------------------------------------------------------------
(* to_if_held_down: c has the output queue q and the manipulator m.         *)

held_cancel(m, e) == IF e.type = "key_down" THEN [m EXCEPT !.held = None] ELSE m

held_setup(m, id, e, now) ==
    [m EXCEPT !.held = IF e.type = "key_down" /\ m.rule.to_if_held_down # <<>>
                       THEN [at |-> now + HeldDownThreshold, moe |-> id, front |-> e]
                       ELSE None]

\* Mutant: `to` stays down when the held down events are pressed.
held_invoke_without_release(c) ==
    LET h == c.m.held
    IN  IF h.moe = None THEN [c EXCEPT !.m.held = None]
        ELSE [Sent(c, h.moe, PressInsteadOfModifiers(
                                Sender(c.q, [c.m.store[h.moe] EXCEPT !.events_at_key_up = <<>>]),
                                h.front, c.m.rule.to_if_held_down))
              EXCEPT !.m.held = None]

\* The task: `to` is released, to_if_held_down is pressed in its place.
held_invoke(c) ==
    LET h == c.m.held
        s == ReleaseEvents(Sender(c.q, c.m.store[h.moe]), h.front)
    IN  IF h.moe = None THEN [c EXCEPT !.m.held = None]
        ELSE [Sent(c, h.moe, PressInsteadOfModifiers(s, h.front, c.m.rule.to_if_held_down))
              EXCEPT !.m.held = None]

-----------------------------------------------------------------------------
(* to_delayed_action                                                        *)

delayed_setup(m, id, e, now) ==
    IF e.type = "key_down" /\ m.rule.to_if_invoked \o m.rule.to_if_canceled # <<>>
    THEN [m EXCEPT !.delayed = [at |-> now + DelayedActionDelay, moe |-> id, front |-> e]]
    ELSE m

\* post_events: all mandatory modifiers are lowered and raised again.
without_modifiers(s, e, to) ==
    post_lazy_modifier_key_events(
        post_extra_to_events(post_lazy_modifier_key_events(s, e, s.moe.mandatory, "key_up"), e, to),
        e, s.moe.mandatory, "key_down")

delayed_post_events(c, to) ==
    LET d == c.m.delayed
    IN  IF d = None THEN c
        ELSE [Sent(c, d.moe, WithKeyDownModifiers(Sender(c.q, c.m.store[d.moe]), d.front,
                                                  LAMBDA s : without_modifiers(s, d.front, to)))
              EXCEPT !.m.delayed = None]

delayed_invoke(c) == delayed_post_events(c, c.m.rule.to_if_invoked)

delayed_cancel(c, e) ==
    IF e.type = "key_down" THEN delayed_post_events(c, c.m.rule.to_if_canceled) ELSE c

-----------------------------------------------------------------------------
(* to_if_other_key_pressed                                                  *)

other_setup(m, id, e) ==
    IF e.type = "key_down" /\ m.rule.to_if_other_key_pressed # <<>>
    THEN [m EXCEPT !.other = [moe |-> id, device |-> e.device, other_moe |-> None]]
    ELSE m

\* Mutant: the events of the other key stay down.
other_forget(c, e) == [c EXCEPT !.m.other = None]

handle_from_key_up(c, e) ==
    LET o == c.m.other
    IN  IF o = None THEN c
        ELSE IF o.other_moe = None THEN [c EXCEPT !.m.other = None]
        ELSE [c EXCEPT !.q = ReleaseEvents(Sender(@, o.other_moe),
                                           [e EXCEPT !.device = o.device]).q,
                       !.m.other = None]

\* The definition of an entry that the pressed key meets first: <<>> or <<key>>.
first_other_key(entry, e) ==
    LET found == SelectSeq(entry.other_keys, LAMBDA k : test_from(e.event, k.from))
    IN  SubSeq(found, 1, Min({1, Len(found)}))

\* The first entry whose definition of the key has its modifiers: <<>> or
\* <<[flags of its mandatory modifiers, to]>>.
other_entry(c, e) ==
    FoldLeft(LAMBDA a, entry :
                FoldLeft(LAMBDA b, k :
                            IF b = <<>> /\ test_modifiers(k, c.q.flags).ok
                            THEN <<[flags |-> test_modifiers(k, c.q.flags).flags, to |-> entry.to]>>
                            ELSE b,
                         a, first_other_key(entry, e)),
             <<>>, c.m.rule.to_if_other_key_pressed)

\* The from key is released (sender `from`), the other key is pressed.
other_pressed(c, s) == [c EXCEPT !.q = s.q, !.m.other.other_moe = s.moe]

press_other_key(c, from, e, moe, to) ==
    other_pressed(Sent(c, c.m.other.moe, from),
                  PressInsteadOfModifiers([from EXCEPT !.moe = moe], e, to))

apply_other_entry(c, e, entry) ==
    LET o == c.m.other
        f == [e EXCEPT !.device = o.device]
        moe == Manipulated(<<FromEvent(e)>>, entry.flags, e.time,
                           FM!make_modifier_flags(c.q.flags))
    IN  IF o.moe = None THEN [c EXCEPT !.m.other.other_moe = moe]
        ELSE press_other_key(c, ReleaseEvents(Sender(c.q, c.m.store[o.moe]), f), f, moe, entry.to)

handle_other_key_pressed(c, e) ==
    IF e.type # "key_down" \/ c.m.other = None THEN c
    ELSE IF c.m.other.other_moe # None THEN c
    ELSE FoldLeft(LAMBDA a, entry : apply_other_entry(a, e, entry), c, other_entry(c, e))

-----------------------------------------------------------------------------
(* manipulate: is the front event a target?                                 *)

all_from_events_found(from, events) ==
    \A i \in DOMAIN from : \E f \in ToSet(events) : test_event(f.event, from[i])

\* The events of the input queue within the threshold: which from events went
\* down, in which order they went up, and whether something came between.
scan_input(rule, input, e) ==
    LET step(a, x) ==
            LET found == all_from_events_found(rule.from, a.from)
                mine == IsSwitch(x.event) /\ Contains(a.from, FromEvent(x))
            IN  CASE a.done \/ ~ x.valid -> a
                  [] e.time + SimultaneousThreshold * Unit < x.time -> [a EXCEPT !.done = TRUE]
                  [] x.type = "key_down" /\ test_from(x.event, rule.from) ->
                        IF \E f \in ToSet(a.from) : f.event = x.event THEN a
                        ELSE [a EXCEPT !.from = Append(@, FromEvent(x)),
                                       !.down = Append(@, x.event)]
                  [] /\ ~ found
                     /\ \/ x.type = "key_down"
                           /\ ~ rule.options.detect_key_down_uninterruptedly
                        \/ x.type = "key_up" /\ mine ->
                        [a EXCEPT !.target = FALSE, !.done = TRUE]
                  [] x.type = "key_up" /\ mine /\ ~ Contains(a.up, x.event) ->
                        [a EXCEPT !.up = Append(@, x.event)]
                  [] OTHER -> a
    IN  FoldLeft(step, [target |-> TRUE, done |-> FALSE, from |-> <<>>, down |-> <<>>,
                        up |-> <<>>], input.events)

\* The checks of a key_down.  `now` is the time the pass was scheduled for;
\* integer_value, which compares one number, is left out.
scanned_target(c, e, now, a) ==
    LET rule == c.m.rule
        is_target ==
            /\ c.m.valid
            /\ test_modifiers(rule, c.q.flags).ok
            /\ is_fulfilled(rule.conditions, e, c.q.env)
            /\ a.target /\ a.from # <<>>
            /\ test_key_order(a.down, rule.options.key_down_order, rule.from)
            /\ test_key_order(a.up, rule.options.key_up_order, rule.from)
        found == all_from_events_found(rule.from, a.from)
        incomplete == \/ ~ found
                      \/ rule.options.key_up_order # "insensitive"
                         /\ Len(a.up) < Len(rule.from) - 1
        delayed == [e EXCEPT !.input_delay = Max({@, SimultaneousThreshold * Unit})]
    IN  IF ~ is_target THEN [verdict |-> "passed", from |-> <<>>, front |-> e]
        ELSE IF ~ incomplete THEN [verdict |-> "manipulated", from |-> a.from, front |-> e]
        ELSE [verdict |-> IF now < with_input_delay(delayed) THEN "wait"
                          ELSE IF found THEN "manipulated" ELSE "passed",
              from |-> a.from, front |-> delayed]

test_target(c, input, e, now) == scanned_target(c, e, now, scan_input(c.m.rule, input, e))

-----------------------------------------------------------------------------
(* manipulate: the events a target sends.                                   *)

\* The sender's state in the manipulator and the queue; the tasks are set up.
setup_other(c, id, e) ==
    IF e.type = "key_up" THEN handle_from_key_up(c, e)
    ELSE [c EXCEPT !.m = other_setup(@, id, e)]

Finish(c, id, s, e, clock) ==
    [setup_other([Sent(c, id, s) EXCEPT !.m = held_setup(@, id, e, clock)], id, e)
     EXCEPT !.m = delayed_setup(@, id, e, clock),
            !.q = IF s.delay > 0 THEN increase_time_stamp_delay(@, s.delay - 1) ELSE @,
            !.front.valid = FALSE, !.result = "manipulated"]

send_key_down(c, id, moe, e, clock) ==
    Finish([c EXCEPT !.m.store = @ @@ (id :> moe), !.m.active = Append(@, id)], id,
           PressInsteadOfModifiers(Sender(c.q, moe), e, c.m.rule.to), e, clock)

key_down(c, from_events, e, clock) ==
    send_key_down(c, Min(1..(Cardinality(DOMAIN c.m.store) + 1) \ DOMAIN c.m.store),
                  Manipulated(from_events, test_modifiers(c.m.rule, c.q.flags).flags, e.time,
                              FM!make_modifier_flags(c.q.flags)), e, clock)

post_if_alone(s, e, rule) ==
    IF /\ rule.to_if_alone # <<>> /\ s.moe.alone
       /\ e.time - s.moe.time < AloneTimeout * Unit
    THEN WithKeyDownModifiers(s, e, LAMBDA x : WithoutMandatoryModifiers(x, e, rule.to_if_alone))
    ELSE s

post_after_key_up(s, e, to) == IF to = <<>> THEN s ELSE WithoutMandatoryModifiers(s, e, to)

post_key_up(s, e, rule) ==
    IF s.moe.key_up_posted THEN s
    ELSE post_after_key_up(
            post_if_alone(ReleaseEvents([s EXCEPT !.moe.key_up_posted = TRUE], e), e, rule),
            e, rule.to_after_key_up)

key_up_events(s, e, rule) ==
    LET all_up == s.moe.from_events = <<>>
    IN  IF rule.options.key_up_when = "all" /\ ~ all_up THEN s
        ELSE post_after_key_up(post_key_up(s, e, rule), e,
                               IF all_up THEN rule.options.to_after_key_up ELSE <<>>)

\* The event id loses its from event and, with the last one, its place.
send_key_up(c, id, moe, e, clock) ==
    Finish([c EXCEPT !.m.active = IF moe.from_events = <<>> THEN SelectSeq(@, LAMBDA i : i # id)
                                                            ELSE @],
           id, key_up_events(Sender(c.q, moe), e, c.m.rule), e, clock)

key_up(c, e, clock) ==
    LET holds(id) == Contains(c.m.store[id].from_events, FromEvent(e))
        mine == SelectSeq(c.m.active, holds)
    IN  IF mine = <<>> THEN c
        ELSE send_key_up(c, Head(mine),
                         [c.m.store[Head(mine)] EXCEPT !.from_events =
                            SelectSeq(@, LAMBDA f : f # FromEvent(e))], e, clock)

\* The front event is a from event of the rule and no key_up.
press(c, t, clock) ==
    LET delayed == [c EXCEPT !.front = t.front]
    IN  CASE t.verdict = "passed" -> delayed
          [] t.verdict = "manipulated" -> key_down(delayed, t.from, t.front, clock)
          [] t.verdict = "wait" ->
                [delayed EXCEPT !.result = "wait",
                                !.q = emplace_back_entry(@,
                                        [t.front EXCEPT !.event = StopKeyboardRepeat,
                                                        !.type = "single", !.lazy = TRUE,
                                                        !.state = "virtual_event"])]

process_front(c, input, now, clock) ==
    LET e == c.front
    IN  IF e.type = "single" \/ ~ test_from(e.event, c.m.rule.from) THEN c
        ELSE IF e.type = "key_up" THEN key_up(c, e, clock)
        ELSE press(c, test_target(c, input, e, now), clock)

handle_valid_front(c, input, now, clock) ==
    IF ~ c.front.valid THEN c
    ELSE process_front(handle_other_key_pressed(c, c.front), input, now, clock)

see_front(c, e) ==
    [c EXCEPT !.m = held_cancel(unset_alone_if_needed(@, e.event, e.type), e),
              !.result = "passed"]

\* basic::manipulate.  c has the output queue q, the manipulator m, the front
\* event and the result; the pass runs for `now` (units) at `clock` (ticks).
manipulate(c, input, now, clock) ==
    [handle_valid_front(delayed_cancel(see_front(c, c.front), c.front), input, now, clock)
     EXCEPT !.m = Collect(@)]

-----------------------------------------------------------------------------
\* Mutant: an event without from events keeps its place.
handle_device_ungrabbed_event_keeps(m, device) == m

\* handle_device_ungrabbed_event: no key_up will come from the device.
handle_device_ungrabbed_event(m, device) ==
    LET store == [id \in DOMAIN m.store |->
                    IF id \notin ToSet(m.active) THEN m.store[id]
                    ELSE [m.store[id] EXCEPT !.from_events =
                            SelectSeq(@, LAMBDA f : f.device # device)]]
    IN  Collect([m EXCEPT !.store = store,
                          !.active = SelectSeq(@, LAMBDA id : store[id].from_events # <<>>)])
=============================================================================
