---------------------------- MODULE DeviceGrabber ----------------------------
(***************************************************************************)
(* How device_grabber seizes keyboards and what it lets into               *)
(* merged_input_event_queue_.  Two threads: the shared dispatcher runs the *)
(* handlers, the shared run loop opens and closes devices and receives     *)
(* their values; each passes work to the other through a queue, so every   *)
(* decision is carried out later than it was taken.                        *)
(***************************************************************************)
EXTENDS Naturals, Sequences, FiniteSets, Subsequences

LOCAL INSTANCE SequencesExt

CONSTANTS
    Devices,        \* physical keyboards
    Keys,
    BuiltIn,        \* those that determine_is_built_in_keyboard holds for
    Disablers,      \* those with disable_built_in_keyboard_if_exists
    Inputs,         \* what else happens: "plug" (out again), "ignore", "temporarily",
                    \* "ready" (and not ready again)
    MaxTasks        \* bound on the tasks and blocks under way when something new happens

ASSUME DeviceAssumption ==
    /\ IsFiniteSet(Devices) /\ IsFiniteSet(Keys)
    /\ BuiltIn \subseteq Devices
    /\ Disablers \subseteq Devices \ BuiltIn
    /\ MaxTasks \in Nat

VARIABLES
    entries,            \* the devices of entries_
    disabled,           \* entry::disabled_
    ignored,            \* devices the configuration ignores
    temporarily_ignore_all_devices,
    ready,              \* the virtual devices are ready
    requested,          \* requested_open_options_ is to seize
    current,            \* current_open_options_ is to seize: the device is open
    opening,            \* open_timer_ runs
    pressed,            \* physical_pressed_momentary_switch_events_
    entry_pressed,      \* entry::pressed_keys_manager_
    down,               \* keys down in the event queues behind the gate
    settled,            \* no key_down since the device was last said to be released
    queue,              \* tasks of the shared dispatcher
    run_loop,           \* blocks of the shared run loop
    plugged,            \* environment: devices that are there
    physical            \* environment: keys physically down

config == <<ignored, temporarily_ignore_all_devices, ready>>
gate == <<pressed, down, settled>>
monitor == <<requested, current, opening>>
hardware == <<plugged, physical>>
vars == <<entries, disabled, config, monitor, gate, entry_pressed, queue, run_loop, hardware>>

Types == {"key_down", "key_up"}

Task ==
    [kind : {"grab_devices"}]
    \cup [kind : {"started", "stopped"}, device : Devices]
    \cup [kind : {"values"}, device : Devices, key : Keys, type : Types]

\* "superseded" is a stop whose generation is no longer the requested one.
Block == [kind : {"open_timer", "start", "stop", "superseded"}, device : Devices]

Init ==
    /\ entries = {}
    /\ disabled = {}
    /\ ignored = {}
    /\ temporarily_ignore_all_devices = FALSE
    /\ ready = FALSE
    /\ requested = {} /\ current = {} /\ opening = {}
    /\ pressed = [d \in Devices |-> {}]
    /\ entry_pressed = [d \in Devices |-> {}]
    /\ down = [d \in Devices |-> {}]
    /\ settled = Devices
    /\ queue = <<>>
    /\ run_loop = <<>>
    /\ plugged = {}
    /\ physical = [d \in Devices |-> {}]

Task1(kind, d) == [kind |-> kind, device |-> d]

Bounded == Len(queue) + Len(run_loop) < MaxTasks

\* Tasks of the objects of device d, which leave the dispatcher with them.
TaskOf(t, d) == t.kind # "grab_devices" /\ t.device = d
-----------------------------------------------------------------------------
(* Handlers on the dispatcher.                                              *)

need_to_disable_built_in_keyboard(es) == es \cap Disablers # {}

\* update_devices_disabled.
DisabledAmong(es) ==
    IF need_to_disable_built_in_keyboard(es) THEN es \cap BuiltIn ELSE {}

\* The end of most handlers: update_devices_disabled, async_grab_devices.
Regrab(es, tasks) ==
    /\ disabled' = DisabledAmong(es)
    /\ queue' = Append(tasks, [kind |-> "grab_devices"])

\* hid_manager_ device_matched: a new entry.
DeviceMatched(d) ==
    /\ d \notin plugged /\ d \notin entries /\ Bounded
    /\ plugged' = plugged \cup {d}
    /\ entries' = entries \cup {d}
    /\ entry_pressed' = [entry_pressed EXCEPT ![d] = {}]
    /\ Regrab(entries', queue)
    /\ UNCHANGED <<config, monitor, gate, run_loop, physical>>

\* Mutant: the keys the device had down are not forgotten.
UngrabbedKeepingGate(d) ==
    /\ down' = [down EXCEPT ![d] = {}]
    /\ settled' = settled \cup {d}
    /\ UNCHANGED pressed

\* Mutant: device_ungrabbed is not posted.
UngrabbedSilently(d) ==
    /\ pressed' = [pressed EXCEPT ![d] = {}]
    /\ UNCHANGED <<down, settled>>

\* The keys of d are forgotten and device_ungrabbed is posted.
Ungrabbed(d) ==
    /\ pressed' = [pressed EXCEPT ![d] = {}]
    /\ down' = [down EXCEPT ![d] = {}]
    /\ settled' = settled \cup {d}

\* hid_manager_ device_terminated: ~entry waits for the run loop to close the
\* device, and takes its tasks with it.
DeviceTerminated(d) ==
    /\ d \in entries \ plugged
    /\ entries' = entries \ {d}
    /\ requested' = requested \ {d}
    /\ current' = current \ {d}
    /\ opening' = opening \ {d}
    /\ run_loop' = Kept(run_loop, {i \in DOMAIN run_loop : run_loop[i].device # d})
    /\ Ungrabbed(d)
    /\ Regrab(entries', Kept(queue, {i \in DOMAIN queue : ~ TaskOf(queue[i], d)}))
    /\ UNCHANGED <<config, entry_pressed, hardware>>

\* core_configuration_updated, with d ignored or not.
ConfigurationUpdated(d) ==
    /\ "ignore" \in Inputs /\ Bounded
    /\ ignored' = IF d \in ignored THEN ignored \ {d} ELSE ignored \cup {d}
    /\ Regrab(entries, queue)
    /\ UNCHANGED <<entries, temporarily_ignore_all_devices, ready, monitor, gate,
                   entry_pressed, run_loop, hardware>>

\* async_set_temporarily_ignore_all_devices.
SetTemporarilyIgnoreAllDevices ==
    /\ "temporarily" \in Inputs /\ Bounded
    /\ temporarily_ignore_all_devices' = ~ temporarily_ignore_all_devices
    /\ queue' = Append(queue, [kind |-> "grab_devices"])
    /\ UNCHANGED <<entries, disabled, ignored, ready, monitor, gate, entry_pressed,
                   run_loop, hardware>>

\* virtual_hid_keyboard_ready and virtual_hid_pointing_ready.
ReadyChanged ==
    /\ Bounded
    /\ ready => "ready" \in Inputs
    /\ ready' = ~ ready
    /\ Regrab(entries, queue)
    /\ UNCHANGED <<entries, ignored, temporarily_ignore_all_devices, monitor, gate,
                   entry_pressed, run_loop, hardware>>
-----------------------------------------------------------------------------
(* Tasks of the dispatcher.                                                 *)

Runs(kind) == queue # <<>> /\ Head(queue).kind = kind

needs_to_seize_device(d) ==
    /\ ~ temporarily_ignore_all_devices
    /\ d \in disabled \/ d \notin ignored

\* make_grabbable_state.
Grabbable(d) == needs_to_seize_device(d) /\ ready

\* Mutant: a stop is carried out whatever has been asked for since.
NeverSuperseded(blocks, ds) == blocks

\* Stops asked for earlier that a new request of ds supersedes.
Superseded(blocks, ds) ==
    [i \in DOMAIN blocks |->
        IF blocks[i].kind = "stop" /\ blocks[i].device \in ds
        THEN Task1("superseded", blocks[i].device) ELSE blocks[i]]

\* One block for each of ds; they come in the order of entries_.
BlocksFor(kind, ds) ==
    {[i \in DOMAIN f |-> Task1(kind, f[i])] : f \in SetToSeqs(ds)}

\* async_grab_devices: grab_device on every entry, that is async_start or
\* async_stop of its monitor; async_stop does nothing twice.
GrabDevices ==
    LET starts == {d \in entries : Grabbable(d)}
        stops == {d \in entries : ~ Grabbable(d)} \cap requested
        waiting == Superseded(run_loop, starts \cup stops)
    IN  /\ Runs("grab_devices")
        /\ requested' = (requested \ stops) \cup starts
        /\ \E started \in BlocksFor("open_timer", starts), stopped \in BlocksFor("stop", stops) :
               run_loop' = waiting \o started \o stopped
        /\ queue' = Tail(queue)
        /\ UNCHANGED <<entries, disabled, config, current, opening, gate, entry_pressed, hardware>>

\* The started signal: device_grabbed is posted; nothing here reads it.
Started ==
    /\ Runs("started")
    /\ queue' = Tail(queue)
    /\ UNCHANGED <<entries, disabled, config, monitor, gate, entry_pressed, run_loop, hardware>>

Stopped ==
    /\ Runs("stopped")
    /\ Ungrabbed(Head(queue).device)
    /\ queue' = Tail(queue)
    /\ UNCHANGED <<entries, disabled, config, monitor, entry_pressed, run_loop, hardware>>

\* unbalanced_momentary_switch_event.
unbalanced(d, k, type) == (type = "key_down") <=> (k \in pressed[d])

\* insert_device_keys_and_pointing_buttons_are_released_event: the keys of the
\* entry after a value.
EntryPressedAfter(d, k, type) ==
    IF type = "key_down" THEN entry_pressed[d] \cup {k} ELSE entry_pressed[d] \ {k}

\* values_arrived of the entry, then hid_values_arrived.
Values ==
    LET t == Head(queue)
        d == t.device
        k == t.key
        after == EntryPressedAfter(d, k, t.type)
        released == t.type = "key_up" /\ entry_pressed[d] # {} /\ after = {}
        taken == d \notin disabled /\ d \in current
        passes == taken /\ ~ unbalanced(d, k, t.type)
        Moved(keys) == IF ~ passes THEN keys
                       ELSE IF t.type = "key_down" THEN keys \cup {k} ELSE keys \ {k}
    IN  /\ Runs("values")
        /\ entry_pressed' = [entry_pressed EXCEPT ![d] = after]
        /\ pressed' = [pressed EXCEPT ![d] = Moved(@)]
        /\ down' = [down EXCEPT ![d] = Moved(@)]
        /\ settled' = IF taken /\ released THEN settled \cup {d}
                      ELSE IF passes /\ t.type = "key_down" THEN settled \ {d}
                      ELSE settled
        /\ queue' = Tail(queue)
        /\ UNCHANGED <<entries, disabled, config, monitor, run_loop, hardware>>

RunTask == GrabDevices \/ Started \/ Stopped \/ Values

\* open_timer_ fires on the dispatcher; one start at a time is enough.
TimerFires(d) ==
    /\ d \in opening
    /\ \A i \in DOMAIN run_loop : run_loop[i] # Task1("start", d)
    /\ run_loop' = Append(run_loop, Task1("start", d))
    /\ UNCHANGED <<entries, disabled, config, monitor, gate, entry_pressed, queue, hardware>>
-----------------------------------------------------------------------------
(* The run loop: iokit_hid_device_events_monitor.                           *)

Executes(kind) == run_loop # <<>> /\ Head(run_loop).kind = kind

OpenTimer ==
    /\ Executes("open_timer")
    /\ opening' = opening \cup {Head(run_loop).device}
    /\ run_loop' = Tail(run_loop)
    /\ UNCHANGED <<entries, disabled, config, requested, current, gate, entry_pressed, queue,
                   hardware>>

\* start: there is something to open, and IOHIDDeviceOpen succeeds ...
Opened ==
    LET d == Head(run_loop).device
    IN  /\ Executes("start")
        /\ d \in requested \ current /\ d \in plugged
        /\ current' = current \cup {d}
        /\ opening' = opening \ {d}
        /\ queue' = Append(queue, Task1("started", d))
        /\ run_loop' = Tail(run_loop)
        /\ UNCHANGED <<entries, disabled, config, requested, gate, entry_pressed, hardware>>

\* Mutant: the timer stops when IOHIDDeviceOpen fails.
OpenFailsForGood ==
    LET d == Head(run_loop).device
    IN  /\ Executes("start")
        /\ d \in requested \ current
        /\ opening' = opening \ {d}
        /\ run_loop' = Tail(run_loop)
        /\ UNCHANGED <<entries, disabled, config, requested, current, gate, entry_pressed,
                       queue, hardware>>

\* ... or fails and is retried by the timer ...
OpenFails ==
    LET d == Head(run_loop).device
    IN  /\ Executes("start")
        /\ d \in requested \ current
        /\ run_loop' = Tail(run_loop)
        /\ UNCHANGED <<entries, disabled, config, monitor, gate, entry_pressed, queue, hardware>>

\* ... or there is nothing to do.
NothingToOpen ==
    LET d == Head(run_loop).device
    IN  /\ Executes("start")
        /\ d \notin requested \/ d \in current
        /\ opening' = opening \ {d}
        /\ run_loop' = Tail(run_loop)
        /\ UNCHANGED <<entries, disabled, config, requested, current, gate, entry_pressed,
                       queue, hardware>>

\* Mutant: stopped is signalled, the device stays open.
StopSignallingOnly ==
    LET d == Head(run_loop).device
    IN  /\ Executes("stop")
        /\ queue' = Append(queue, Task1("stopped", d))
        /\ run_loop' = Tail(run_loop)
        /\ UNCHANGED <<entries, disabled, config, monitor, gate, entry_pressed, hardware>>

\* stop: the device is closed and stopped signalled, unless a newer request came.
Stop ==
    LET d == Head(run_loop).device
    IN  /\ Executes("stop")
        /\ current' = current \ {d}
        /\ queue' = Append(queue, Task1("stopped", d))
        /\ run_loop' = Tail(run_loop)
        /\ UNCHANGED <<entries, disabled, config, requested, opening, gate, entry_pressed,
                       hardware>>

StopSuperseded ==
    /\ Executes("superseded")
    /\ run_loop' = Tail(run_loop)
    /\ UNCHANGED <<entries, disabled, config, monitor, gate, entry_pressed, queue, hardware>>

RunBlock == OpenTimer \/ Opened \/ OpenFails \/ NothingToOpen \/ Stop \/ StopSuperseded

\* The device is gone: device_removal_callback.  A stop that has not run yet may
\* have left the queue of input values, and then stopped is signalled as well.
Unplug(d) ==
    /\ "plug" \in Inputs /\ d \in plugged /\ Bounded
    /\ plugged' = plugged \ {d}
    /\ physical' = [physical EXCEPT ![d] = {}]
    /\ requested' = requested \ {d}
    /\ current' = current \ {d}
    /\ run_loop' = Superseded(run_loop, {d})
    /\ queue' \in IF d \in requested \cup current THEN {Append(queue, Task1("stopped", d))}
                  ELSE IF \E i \in DOMAIN run_loop : run_loop[i] = Task1("stop", d)
                  THEN {queue, Append(queue, Task1("stopped", d))}
                  ELSE {queue}
    /\ UNCHANGED <<entries, disabled, config, opening, gate, entry_pressed>>

\* A key moves; its value comes to us when the device is open.
KeyMoves(d, k, type) ==
    /\ d \in plugged /\ Bounded
    /\ (type = "key_down") <=> (k \notin physical[d])
    /\ physical' = [physical EXCEPT ![d] = IF type = "key_down" THEN @ \cup {k} ELSE @ \ {k}]
    /\ queue' = IF d \in current
                THEN Append(queue, [kind |-> "values", device |-> d, key |-> k, type |-> type])
                ELSE queue
    /\ UNCHANGED <<entries, disabled, config, monitor, gate, entry_pressed, run_loop, plugged>>

Next ==
    \/ SetTemporarilyIgnoreAllDevices
    \/ ReadyChanged
    \/ RunTask
    \/ RunBlock
    \/ \E d \in Devices :
          \/ DeviceMatched(d)
          \/ DeviceTerminated(d)
          \/ ConfigurationUpdated(d)
          \/ TimerFires(d)
          \/ Unplug(d)
          \/ \E k \in Keys, type \in Types : KeyMoves(d, k, type)

Spec == Init /\ [][Next]_vars

\* The dispatcher and the run loop go on, hid_manager_ reports a device that is
\* gone, the timer fires, and a device that is tried again and again opens.
Fairness ==
    /\ WF_vars(RunTask)
    /\ WF_vars(RunBlock)
    /\ \A d \in Devices :
          /\ WF_vars(TimerFires(d))
          /\ WF_vars(DeviceTerminated(d))
          /\ SF_vars(Opened /\ Head(run_loop).device = d)

FairSpec == Spec /\ Fairness
-----------------------------------------------------------------------------
(* Properties.                                                              *)

\* Every variable has its type.
TypeOK ==
    /\ entries \subseteq Devices /\ plugged \subseteq Devices
    /\ disabled \subseteq entries /\ ignored \subseteq Devices
    /\ temporarily_ignore_all_devices \in BOOLEAN /\ ready \in BOOLEAN
    /\ requested \subseteq Devices /\ current \subseteq Devices /\ opening \subseteq Devices
    /\ pressed \in [Devices -> SUBSET Keys] /\ entry_pressed \in [Devices -> SUBSET Keys]
    /\ down \in [Devices -> SUBSET Keys] /\ physical \in [Devices -> SUBSET Keys]
    /\ settled \subseteq Devices
    /\ queue \in Seq(Task) /\ run_loop \in Seq(Block)

Waiting(d) ==
    \/ d \in entries \ plugged
    \/ \E i \in DOMAIN queue : queue[i].kind = "grab_devices" \/ TaskOf(queue[i], d)
    \/ \E i \in DOMAIN run_loop : run_loop[i].device = d

\* Once all that was under way for a device is done, a key the event queues hold
\* down is one that is really down, though its key_up may have been missed while
\* the device was closed (stopped and device_terminated post device_ungrabbed).
NoKeyLeftDown ==
    \A d \in Devices : ~ Waiting(d) => down[d] \subseteq physical[d]

\* A key_down of a device that is open and not disabled gets through, though the
\* gate drops one it takes for repeated: it never holds a key for pressed that the
\* event queues were told is up (physical_pressed_momentary_switch_events_).
KeyDownGetsThrough ==
    [][Values /\ Head(queue).type = "key_down" /\ Head(queue).device \in current \ disabled
       => Head(queue).key \in down'[Head(queue).device]]_vars

\* When a device has no key down, the modifiers and pointing buttons it may have
\* left behind have been cleared: the released event or device_ungrabbed has come
\* after its last key_down.  It is up to the entry's own record of pressed keys,
\* which a key released while the device was closed stays in
\* (insert_device_keys_and_pointing_buttons_are_released_event).
ReleasedEventFollows ==
    \A d \in Devices :
        ~ Waiting(d) /\ physical[d] = {} /\ entry_pressed[d] = {} => d \in settled

\* A device leaves nothing down behind it, be it a key, a modifier or a button.
NothingLeftDown == NoKeyLeftDown /\ ReleasedEventFollows

\* A device is closed because nobody wants it open any more: a stop that was
\* asked for before the latest start never closes it (requested_open_options_generation_).
ClosedOnlyWhenUnwanted ==
    [][\A d \in current \ current' : d \notin requested']_vars

Wanted(d) == d \in entries \cap plugged /\ Grabbable(d)

\* What is decided last is carried out, whatever the retries and superseded
\* requests before it: a device that is to be seized is eventually open ...
WantedDeviceIsSeized ==
    \A d \in Devices : Wanted(d) ~> d \in current \/ ~ Wanted(d)

\* ... and one that is not is eventually left to the system, in particular while
\* the virtual keyboard is not ready (make_grabbable_state).
UnwantedDeviceIsLeft ==
    \A d \in Devices : ~ Wanted(d) ~> d \notin current \/ Wanted(d)
=============================================================================
