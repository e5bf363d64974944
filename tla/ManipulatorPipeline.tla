------------------------ MODULE ManipulatorPipeline ------------------------
(***************************************************************************)
(* The pipeline of device_grabber: event queues joined by                  *)
(* manipulator_managers, each with its list of basic manipulators, up to   *)
(* the queue that post_event_to_virtual_devices empties.  Passes,          *)
(* arrivals, timers and reloads are tasks of the dispatcher thread, one    *)
(* action each.  The last stage is the subject of                          *)
(* PostEventToVirtualDevices; here it is the set of keys its               *)
(* key_event_dispatcher holds.                                             *)
(***************************************************************************)
EXTENDS BasicManipulator

CONSTANTS
    InputKeys,          \* <<device, key>>: the keys of the devices, modifiers among them
    Configurations,     \* each: for every manager the rules of its manipulators
    Reorder,            \* reorder_same_timestamp_input_events_to_prioritize_modifiers
    MaxInputs,          \* bound on the presses, clicks, ungrabs and reloads
    MaxTime             \* bound on the clock

\* Time stamps are finer than the ticks; a configuration lists the managers.
ASSUME PipelineAssumption ==
    /\ Unit \in Nat \ {0}
    /\ \A c \in Configurations : Len(c) \in Nat /\ DOMAIN c = 1..Len(c)

VARIABLES
    configuration,  \* the rules of the configuration file
    queues,         \* merged_input_event_queue_ up to the input of the last stage
    managers,       \* the manipulators of each manager
    passes,         \* the times of the scheduled passes
    now,            \* the clock
    pressed_keys,   \* key_event_dispatcher of the last stage: <<device, key>>
    held,           \* environment: <<device, key>> physically down
    grabbed,        \* environment: grabbed devices
    inputs          \* environment: how many presses, clicks, ungrabs and reloads

environment == <<held, grabbed, inputs>>
vars == <<configuration, queues, managers, passes, now, pressed_keys, environment>>

Stages == 1..Len(managers)
LastQueue == Len(managers) + 1

Manipulators(rules) == [i \in DOMAIN rules |-> Manipulator(rules[i])]

\* The devices are grabbed: device_grabbed has passed all queues.
Init ==
    /\ configuration \in Configurations
    /\ managers = [i \in DOMAIN configuration |-> Manipulators(configuration[i])]
    /\ queues = [i \in 1..(Len(configuration) + 1) |->
                    [EmptyQueue EXCEPT !.env.devices = Devices \ {device_0}]]
    /\ passes = {} /\ now = 0
    /\ pressed_keys = {} /\ held = {}
    /\ grabbed = Devices \ {device_0}
    /\ inputs = 0

Input == inputs < MaxInputs /\ inputs' = inputs + 1

-----------------------------------------------------------------------------
(* Arrivals: an event enters the first queue and a pass is requested.       *)

InOrder(q) == IF Reorder THEN sort_events(q) ELSE q

Arrive(queue) ==
    /\ queues' = [queues EXCEPT ![1] = queue]
    /\ passes' = passes \cup {now * Unit}
    /\ UNCHANGED <<configuration, managers, now, pressed_keys>>

Original(device, event, type) ==
    QueueEntry(device, now * Unit, event, type, event, "original", FALSE)

KeyDown(device, key) ==
    /\ device \in grabbed /\ <<device, key>> \notin held
    /\ Input
    /\ held' = held \cup {<<device, key>>}
    /\ Arrive(InOrder(emplace_back_entry(queues[1], Original(device, Key(key), "key_down"))))
    /\ UNCHANGED grabbed

\* The last key_up of a device is followed by the released event.
KeyUp(device, key) ==
    /\ <<device, key>> \in held
    /\ held' = held \ {<<device, key>>}
    /\ Arrive(InOrder(FoldLeft(emplace_back_entry, queues[1],
                <<Original(device, Key(key), "key_up")>> \o
                IF \E h \in held' : h[1] = device THEN <<>>
                ELSE <<Original(device, Released, "single")>>)))
    /\ UNCHANGED <<grabbed, inputs>>

\* The device disappears; its keys will send no key_up.
Ungrab(device) ==
    /\ device \in grabbed
    /\ Input
    /\ grabbed' = grabbed \ {device}
    /\ held' = {h \in held : h[1] # device}
    /\ Arrive(emplace_back_entry(queues[1], Original(device, Ungrabbed, "single")))

\* A click that only the event tap sees.
Click ==
    /\ Input
    /\ Arrive(emplace_back_entry(queues[1],
            [Original(device_0, FromEventTap, "key_down") EXCEPT !.original = Key("button1")]))
    /\ UNCHANGED <<held, grabbed>>

-----------------------------------------------------------------------------
(* manipulator_manager                                                      *)

remove_invalid_manipulators(manager) ==
    SelectSeq(manager, LAMBDA m : m.valid \/ active(m))

\* device_keys_and_pointing_buttons_are_released: basic does nothing.
handle_released(manager, out, e) ==
    [manager |-> manager,
     out |-> [out EXCEPT !.flags =
                FM!erase_all_active_modifier_flags_except_lock_and_sticky(@, e.device)]]

handle_ungrabbed(manager, out, e) ==
    [manager |-> [i \in DOMAIN manager |-> handle_device_ungrabbed_event(manager[i], e.device)],
     out |-> [out EXCEPT !.flags = FM!erase_all_active_modifier_flags(@, e.device)]]

handle_event_tap(manager, out, e) ==
    [manager |-> [i \in DOMAIN manager |-> unset_alone_if_needed(manager[i], e.original, e.type)],
     out |-> out]

\* Every manipulator sees the front event, until one asks to wait.
ManipulatedBy(a, i, c) ==
    [a EXCEPT !.manager[i] = c.m, !.out = c.q, !.front = c.front, !.result = c.result]

ManipulateWith(a, i, input, at) ==
    IF a.result = "wait" THEN a
    ELSE ManipulatedBy(a, i, manipulate([q |-> a.out, m |-> a.manager[i], front |-> a.front,
                                         result |-> "passed"],
                                        [input EXCEPT !.events[1] = a.front], at, now))

manipulate_front(manager, input, out, at) ==
    FoldLeft(LAMBDA a, i : ManipulateWith(a, i, input, at),
             [manager |-> manager, out |-> out, front |-> input.events[1], result |-> "passed"],
             [i \in DOMAIN manager |-> i])

\* manipulate: what becomes of the front event e, the manipulators and the output.
manager_manipulate(manager, input, out, at) ==
    LET e == input.events[1]
        keep(r) == [manager |-> r.manager, out |-> r.out, front |-> e, result |-> "passed"]
    IN  CASE e.event.type = Released.type -> keep(handle_released(manager, out, e))
          [] e.event.type = Ungrabbed.type -> keep(handle_ungrabbed(manager, out, e))
          [] e.event.type = FromEventTap.type -> keep(handle_event_tap(manager, out, e))
          [] e.event.type \in NotManipulated -> keep([manager |-> manager, out |-> out])
          [] OTHER ->
                IF \E i \in DOMAIN manager : already_manipulated(manager[i], e)
                THEN [manager |-> manager, out |-> out, front |-> [e EXCEPT !.valid = FALSE],
                      result |-> "passed"]
                ELSE manipulate_front(manager, input, out, at)

\* An event that no manipulator took is passed on; the output is put in order.
PassOn(out, front) == InOrder(IF front.valid THEN emplace_back_entry(out, front) ELSE out)
-----------------------------------------------------------------------------
(* A pass: device_grabber::manipulate for the time `at`.                    *)

\* connection::manipulate: manipulator_manager::manipulate is called until it
\* finds no event, or one that waits; then manipulators are removed.
Processed(a, r) ==
    IF r.result = "wait"
    THEN [manager |-> r.manager, out |-> r.out, waits |-> TRUE,
          input |-> [a.input EXCEPT !.events[1] = r.front]]
    ELSE [manager |-> r.manager, out |-> PassOn(r.out, r.front), waits |-> FALSE,
          input |-> erase_front_event(a.input)]

ProcessFront(a, at) ==
    IF a.waits THEN a ELSE Processed(a, manager_manipulate(a.manager, a.input, a.out, at))

\* a: the managers and the queues that the stages before i left.
EndStage(a, i, end) ==
    [managers |-> [a.managers EXCEPT ![i] = remove_invalid_manipulators(end.manager)],
     queues |-> [a.queues EXCEPT ![i] = end.input, ![i + 1] = end.out]]

RunStage(a, i, at) ==
    EndStage(a, i,
             FoldLeft(LAMBDA r, n : ProcessFront(r, at),
                      [manager |-> a.managers[i], input |-> a.queues[i],
                       out |-> a.queues[i + 1], waits |-> FALSE],
                      [n \in DOMAIN a.queues[i].events |-> n]))

\* The last stage (PostEventToVirtualDevices): which keys stay pressed.
dispatch(keys, e) ==
    LET key == <<e.device, e.event.value>>
    IN  CASE IsSwitch(e.event) /\ ~ IsModifier(e.event) /\ e.type = "key_down" -> keys \cup {key}
          [] IsSwitch(e.event) /\ ~ IsModifier(e.event) /\ e.type = "key_up" -> keys \ {key}
          [] e.event.type = Ungrabbed.type -> {k \in keys : k[1] # e.device}
          [] OTHER -> keys

\* min_input_event_time_stamp
input_event_time_stamps(qs) ==
    {with_input_delay(qs[i].events[1]) : i \in {j \in Stages : qs[j].events # <<>>}}

\* The stages, one after the other.
RunStages(at) ==
    LET run[i \in 0..Len(managers)] ==
            IF i = 0 THEN [managers |-> managers, queues |-> queues]
                     ELSE RunStage(run[i - 1], i, at)
    IN  run[Len(managers)]

\* Mutant: the event that waits is left to the next arrival.
FinishPassWithoutSchedule(at, end) ==
    /\ managers' = end.managers
    /\ pressed_keys' = FoldLeft(dispatch, pressed_keys, end.queues[LastQueue].events)
    /\ queues' = [end.queues EXCEPT ![LastQueue] = clear_events(@)]
    /\ passes' = passes \ {at}
    /\ UNCHANGED <<configuration, now, environment>>

\* The last queue is emptied and, if an event waits, a pass is scheduled for
\* its time.
FinishPass(at, end) ==
    LET times == input_event_time_stamps(end.queues)
    IN  /\ managers' = end.managers
        /\ pressed_keys' = FoldLeft(dispatch, pressed_keys, end.queues[LastQueue].events)
        /\ queues' = [end.queues EXCEPT ![LastQueue] = clear_events(@)]
        /\ passes' = (passes \ {at}) \cup (IF times = {} THEN {} ELSE {Min(times)})
        /\ UNCHANGED <<configuration, now, environment>>

Manipulate(at) == FinishPass(at, RunStages(at))

RunPass == \E at \in passes : at \div Unit <= now /\ Manipulate(at)

-----------------------------------------------------------------------------
(* Timers, time and reloads.                                                *)

AfterTask(i, j, c) ==
    /\ managers' = [managers EXCEPT ![i][j] = Collect(c.m)]
    /\ queues' = [queues EXCEPT ![i + 1] = c.q]
    /\ passes' = passes \cup {now * Unit}
    /\ UNCHANGED <<configuration, now, pressed_keys, environment>>

Task(i, j) == [q |-> queues[i + 1], m |-> managers[i][j]]

Due(task) == task # None /\ task.at <= now

HeldDown ==
    /\ \E i \in Stages : \E j \in DOMAIN managers[i] :
        Due(managers[i][j].held) /\ AfterTask(i, j, held_invoke(Task(i, j)))

DelayedAction ==
    /\ \E i \in Stages : \E j \in DOMAIN managers[i] :
        Due(managers[i][j].delayed) /\ AfterTask(i, j, delayed_invoke(Task(i, j)))

\* Time does not pass a task that is due.
Tick ==
    /\ now < MaxTime
    /\ \A t \in passes : t \div Unit > now
    /\ \A i \in Stages : \A j \in DOMAIN managers[i] :
        ~ Due(managers[i][j].held) /\ ~ Due(managers[i][j].delayed)
    /\ now' = now + 1
    /\ UNCHANGED <<configuration, queues, managers, passes, pressed_keys, environment>>

\* device_grabber::update_complex_modifications_manipulators and the like:
\* the old manipulators stay while keys they took are down.
Reload ==
    /\ Input
    /\ configuration' \in {c \in Configurations : Len(c) = Len(configuration)}
    /\ managers' = [i \in Stages |->
            remove_invalid_manipulators([j \in DOMAIN managers[i] |->
                                            [managers[i][j] EXCEPT !.valid = FALSE]])
            \o Manipulators(configuration'[i])]
    /\ UNCHANGED <<queues, passes, now, pressed_keys, held, grabbed>>

Next ==
    \/ \E k \in InputKeys : KeyDown(k[1], k[2]) \/ KeyUp(k[1], k[2])
    \/ \E d \in Devices \ {device_0} : Ungrab(d)
    \/ Click
    \/ RunPass
    \/ HeldDown \/ DelayedAction \/ Tick \/ Reload

Spec == Init /\ [][Next]_vars

-----------------------------------------------------------------------------
Quiet ==
    /\ passes = {}
    /\ \A i \in DOMAIN queues : queues[i].events = <<>>

TypeOK ==
    /\ now \in 0..MaxTime
    /\ held \subseteq InputKeys
    /\ \A i \in Stages : \A m \in ToSet(managers[i]) : ToSet(m.active) \subseteq DOMAIN m.store

\* When every key is up and everything has been processed, the virtual
\* keyboard holds no key, whatever rules were applied or reloaded in between
\* (basic::manipulate, key_up; to_if_held_down; handle_from_key_up).
NoStuckOutputKey == Quiet /\ held = {} => pressed_keys = {}

\* While no rule holds a key, the modifiers of the virtual keyboard are the
\* modifier keys that are physically down: rules lift the mandatory modifiers
\* and give them back, press modifiers lazily, and restore the modifiers of
\* the key_down around to_if_alone and delayed actions (event_sender.hpp).
ModifiersFollowKeys ==
    Quiet /\ (\A i \in Stages : \A m \in ToSet(managers[i]) : ~ active(m)) =>
        FM!make_modifier_flags(queues[LastQueue].flags) = {h[2] : h \in held} \cap Flags

\* No manipulated_original_event outlives its keys: a from event that is
\* remembered is physically down (basic.hpp, erase_from_event).
RememberedKeysAreDown ==
    Quiet => \A m \in ToSet(managers[1]) : \A moe \in ActiveEvents(m) :
                \A f \in ToSet(moe.from_events) : <<f.device, f.event.value>> \in held

\* No event is left behind: while an event is in a queue, a pass is scheduled
\* for the time until which an event may wait for simultaneous keys
\* (device_grabber::manipulate; manipulators post and then notify).
EventsHavePass ==
    Quiet \/ \E t \in passes : t <= (now + SimultaneousThreshold) * Unit

\* A press is manipulated once: no two remembered events of a manipulator hold
\* the same from event, or its one key_up could not end both
\* (basic::already_manipulated, basic::manipulate).
EachPressIsManipulatedOnce ==
    \A i \in Stages : \A m \in ToSet(managers[i]) : \A a, b \in ToSet(m.active) :
        a # b => ToSet(m.store[a].from_events) \cap ToSet(m.store[b].from_events) = {}
=============================================================================
