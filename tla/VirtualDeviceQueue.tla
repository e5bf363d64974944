-------------------------- MODULE VirtualDeviceQueue --------------------------
(***************************************************************************)
(* post_event_to_virtual_devices::queue: the reports waiting to be sent to *)
(* the virtual HID devices.  A key event updates the report of its usage   *)
(* page and queues a snapshot of it, moved at least Wait after the events  *)
(* before it where the window system needs the gap.  A task on the shared  *)
(* dispatcher posts the events whose time has come, one after the other,   *)
(* and comes back later for the rest.                                      *)
(*                                                                         *)
(* The task is modelled step by step: while it runs no other task of the   *)
(* dispatcher thread does, but the event tap thread may look at            *)
(* pressed_keys_manager between two reports.                               *)
(***************************************************************************)
EXTENDS Integers, Sequences

CONSTANTS
    Usages,           \* HID usages of keys and modifiers
    ModifierUsages,   \* those for which momentary_switch_event::modifier_flag() holds
    Pages,            \* report pages (keyboard_input, consumer_input, ...)
    PageOf,           \* the page of each usage
    Buttons,          \* pointing buttons
    None,             \* no key, no running task
    Wait,             \* the 5 milliseconds of adjust_time_stamp
    MaxDelay,         \* the 3 seconds a posting task sleeps at most
    MaxTime,          \* bound on the clock
    MaxEvents         \* bound on the number of queued events

ASSUME ModifierAssumption == ModifierUsages \subseteq Usages
ASSUME PageAssumption == PageOf \in [Usages -> Pages]
ASSUME NoneAssumption == None \notin Usages /\ None \notin Pages /\ None \notin Nat
ASSUME TimeAssumption ==
    Wait \in Nat /\ MaxDelay \in Nat \ {0} /\ MaxTime \in Nat /\ MaxEvents \in Nat

EventTypes == {"key_down", "key_up", "single"}

\* A queued event: a keyboard report, a pointing report, or a command for the
\* console user server.  Only keyboard reports have a usage and a page.
Event ==
    {e \in [kind : {"key", "pointing", "command"}, type : EventTypes,
            usage : Usages \cup {None}, page : Pages \cup {None}, report : SUBSET Usages,
            buttons : SUBSET Buttons, time_stamp : Nat] :
        IF e.kind = "key" THEN e.usage \in Usages /\ e.page \in Pages
                          ELSE e.usage = None /\ e.page = None}

VARIABLES
    queue,                 \* the members of the class, as a record
    device_report,         \* what the virtual keyboard last received, by page
    device_buttons,        \* what the virtual pointing device last received
    pressed_keys_manager,  \* virtual_hid_keyboard_pressed_keys_manager_
    tasks,                 \* times at which an async_post_events task is due
    running,               \* the now captured by the running task, or None
    now

vars == <<queue, device_report, device_buttons, pressed_keys_manager, tasks, running, now>>

Queue ==
    [events : Seq(Event), report : [Pages -> SUBSET Usages],
     last_event_type : EventTypes, last_event_time_stamp : Nat,
     repeating_key : Usages \cup {None}]

EmptyQueue ==
    [events |-> <<>>, report |-> [p \in Pages |-> {}], last_event_type |-> "single",
     last_event_time_stamp |-> 0, repeating_key |-> None]

\* Mutant: a modifier key_up after a key_up is not delayed.
skips_every_second_key_up(q, type, is_modifier) ==
    type = "single" \/ (type = "key_up" /\ q.last_event_type = "key_up")

\* adjust_time_stamp: which events go without a wait.
skips_wait(q, type, is_modifier) ==
    \/ type = "single"
    \/ type = "key_up" /\ q.last_event_type = "key_up" /\ ~ is_modifier

adjusted_time_stamp(q, time_stamp, type, is_modifier) ==
    IF ~ skips_wait(q, type, is_modifier) /\ time_stamp < q.last_event_time_stamp + Wait
    THEN q.last_event_time_stamp + Wait
    ELSE time_stamp

\* adjust_time_stamp, followed by events_.emplace_back.
Enqueue(q, e, is_modifier) ==
    LET t == adjusted_time_stamp(q, e.time_stamp, e.type, is_modifier)
    IN  [q EXCEPT !.events = Append(@, [e EXCEPT !.time_stamp = t]),
                  !.last_event_type =
                      IF skips_wait(q, e.type, is_modifier) THEN @ ELSE e.type,
                  !.last_event_time_stamp = IF @ < t THEN t ELSE @]

\* keyboard_repeat_detector::set.
next_repeating_key(repeating_key, usage, type) ==
    IF type = "key_down" /\ usage \notin ModifierUsages THEN usage
    ELSE IF type = "key_up" /\ repeating_key = usage THEN None
    ELSE repeating_key

next_report(q, usage, type) ==
    IF type = "key_down" THEN q.report[PageOf[usage]] \cup {usage}
                         ELSE q.report[PageOf[usage]] \ {usage}

\* Mutant: the queued report is taken before the key is added or erased.
emplace_back_stale_report(q, usage, type, time_stamp) ==
    LET page == PageOf[usage]
        e == [kind |-> "key", type |-> type, usage |-> usage, page |-> page,
              report |-> q.report[page], buttons |-> {}, time_stamp |-> time_stamp]
    IN  [Enqueue(q, e, usage \in ModifierUsages) EXCEPT
            !.report[page] = next_report(q, usage, type),
            !.repeating_key = next_repeating_key(@, usage, type)]

emplace_back_key_event(q, usage, type, time_stamp) ==
    LET page == PageOf[usage]
        report == next_report(q, usage, type)
        e == [kind |-> "key", type |-> type, usage |-> usage, page |-> page,
              report |-> report, buttons |-> {}, time_stamp |-> time_stamp]
    IN  [Enqueue(q, e, usage \in ModifierUsages) EXCEPT
            !.report[page] = report,
            !.repeating_key = next_repeating_key(@, usage, type)]

emplace_back_pointing_input(q, buttons, type, time_stamp) ==
    Enqueue(q, [kind |-> "pointing", type |-> type, usage |-> None, page |-> None,
                report |-> {}, buttons |-> buttons, time_stamp |-> time_stamp], FALSE)

\* push_back_shell_command_event and its siblings: no adjust_time_stamp.
push_back_command_event(q, time_stamp) ==
    [q EXCEPT !.events =
        Append(@, [kind |-> "command", type |-> "single", usage |-> None, page |-> None,
                   report |-> {}, buttons |-> {}, time_stamp |-> time_stamp])]
-----------------------------------------------------------------------------
Init ==
    /\ queue = EmptyQueue
    /\ device_report = [p \in Pages |-> {}]
    /\ device_buttons = {}
    /\ pressed_keys_manager = {}
    /\ tasks = {}
    /\ running = None
    /\ now = 0

Front == queue.events[1]

posted == <<device_report, device_buttons, pressed_keys_manager>>

\* An event arrives from the dispatcher with a time stamp of its device.
Arrives(q) ==
    /\ running = None
    /\ Len(q.events) <= MaxEvents
    /\ q.last_event_time_stamp <= MaxTime
    /\ queue' = q
    /\ UNCHANGED <<posted, tasks, running, now>>

EmplaceBackKeyEvent(usage, type, time_stamp) ==
    Arrives(emplace_back_key_event(queue, usage, type, time_stamp))

EmplaceBackPointingInput(buttons, type, time_stamp) ==
    Arrives(emplace_back_pointing_input(queue, buttons, type, time_stamp))

PushBackCommandEvent(time_stamp) == Arrives(push_back_command_event(queue, time_stamp))

\* async_post_events, the call: one more task for the dispatcher.
AsyncPostEvents ==
    /\ running = None
    /\ tasks' = tasks \cup {now}
    /\ UNCHANGED <<queue, posted, running, now>>

\* The task starts and reads the clock once.
StartTask(when) ==
    /\ running = None
    /\ when \in tasks
    /\ when <= now
    /\ tasks' = tasks \ {when}
    /\ running' = now
    /\ UNCHANGED <<queue, posted, now>>

\* Mutant: modifiers are not remembered as held.
pressed_after_except_modifiers(e) ==
    CASE e.kind = "key" /\ e.type = "key_down" ->
             pressed_keys_manager \cup ({e.usage} \ ModifierUsages)
      [] e.kind = "key" /\ e.type = "key_up" -> pressed_keys_manager \ {e.usage}
      [] OTHER -> pressed_keys_manager

\* handle_posted_momentary_switch_event.
pressed_after(e) ==
    CASE e.kind = "key" /\ e.type = "key_down" -> pressed_keys_manager \cup {e.usage}
      [] e.kind = "key" /\ e.type = "key_up" -> pressed_keys_manager \ {e.usage}
      [] OTHER -> pressed_keys_manager

\* async_post_report: the device takes over the snapshot.
report_after(e) ==
    IF e.kind = "key" THEN [device_report EXCEPT ![e.page] = e.report] ELSE device_report

buttons_after(e) == IF e.kind = "pointing" THEN e.buttons ELSE device_buttons

\* One turn of the loop: the front event is due, handle it and erase it.
TakeFront ==
    /\ running # None
    /\ queue.events # <<>>
    /\ Front.time_stamp <= running
    /\ pressed_keys_manager' = pressed_after(Front)
    /\ queue' = [queue EXCEPT !.events = Tail(@)]
    /\ UNCHANGED <<tasks, running, now>>

PostFront ==
    /\ TakeFront
    /\ device_report' = report_after(Front)
    /\ device_buttons' = buttons_after(Front)

\* The loop ends: nothing is left, or the front event is for later and the
\* task puts itself back, at most MaxDelay ahead.
FinishTask ==
    /\ running # None
    /\ queue.events # <<>> => Front.time_stamp > running
    /\ tasks' = IF queue.events = <<>> THEN tasks
                ELSE LET d == Front.time_stamp - running
                     IN  tasks \cup {now + (IF d < MaxDelay THEN d ELSE MaxDelay)}
    /\ running' = None
    /\ UNCHANGED <<queue, posted, now>>

\* A running task has read the clock already, so time passes between tasks.
Tick ==
    /\ running = None
    /\ now < MaxTime \/ now < queue.last_event_time_stamp
    /\ now' = now + 1
    /\ UNCHANGED <<queue, posted, tasks, running>>

Next ==
    \/ \E u \in Usages, t \in {"key_down", "key_up"}, s \in 0..MaxTime :
           EmplaceBackKeyEvent(u, t, s)
    \/ \E b \in SUBSET Buttons, t \in EventTypes, s \in 0..MaxTime :
           EmplaceBackPointingInput(b, t, s)
    \/ \E s \in 0..MaxTime : PushBackCommandEvent(s)
    \/ AsyncPostEvents
    \/ \E w \in tasks : StartTask(w)
    \/ PostFront
    \/ FinishTask
    \/ Tick

Spec == Init /\ [][Next]_vars
-----------------------------------------------------------------------------
\* Every member of the class, the device state and the task times keep their
\* types; in particular no adjusted time stamp underflows (queue.hpp:661-698).
TypeOK ==
    /\ queue \in Queue
    /\ device_report \in [Pages -> SUBSET Usages]
    /\ device_buttons \subseteq Buttons
    /\ pressed_keys_manager \subseteq Usages
    /\ tasks \subseteq Nat
    /\ running \in Nat \cup {None}
    /\ now \in Nat

\* Events whose time stamp goes through adjust_time_stamp.
Adjusted(e) == e.kind # "command"

\* Events that must not come within Wait of the event before them.
NeedsWait(e) ==
    /\ Adjusted(e)
    /\ e.type = "key_down" \/ (e.type = "key_up" /\ e.usage \in ModifierUsages)

\* Event j of a queue directly follows a key_down i, with at most motion and
\* commands between them.
FollowsKeyDown(events, i, j) ==
    /\ events[i].type = "key_down"
    /\ \A k \in (i + 1)..(j - 1) : events[k].type = "single"

\* Every key_down, and every key_up of a modifier, is at least Wait later than
\* all events queued before it, whatever the time stamps of the devices were
\* (queue.hpp:741-778: the window system reorders modifier events otherwise).
WaitBeforeKeyDown ==
    \A j \in DOMAIN queue.events : \A i \in 1..(j - 1) :
        NeedsWait(queue.events[j]) /\ Adjusted(queue.events[i])
            => queue.events[j].time_stamp >= queue.events[i].time_stamp + Wait

\* A key_up that directly follows a key_down is at least Wait later, although
\* adjust_time_stamp only remembers the type of one event (queue.hpp:741).
WaitAfterKeyDown ==
    \A j \in DOMAIN queue.events : \A i \in 1..(j - 1) :
        FollowsKeyDown(queue.events, i, j) /\ queue.events[j].type = "key_up"
            => queue.events[j].time_stamp >= queue.events[i].time_stamp + Wait

\* What adjust_time_stamp relies on: the last time stamp bounds all adjusted
\* ones, and the last type is key_down while a key_down is the last event that
\* was not motion or a command (last_event_type_, last_event_time_stamp_).
LastEventIsRemembered ==
    /\ \A i \in DOMAIN queue.events :
           IF Adjusted(queue.events[i])
           THEN queue.events[i].time_stamp <= queue.last_event_time_stamp
           ELSE queue.events[i].type = "single"
    /\ \A i \in DOMAIN queue.events :
           FollowsKeyDown(queue.events, i, Len(queue.events) + 1)
               => queue.last_event_type = "key_down"

\* The report under construction is the last queued snapshot of its page or,
\* when none is queued, what the device has: nothing is lost on the way.
ReportIsLastSnapshot ==
    \A p \in Pages :
        LET ofPage == {i \in DOMAIN queue.events : queue.events[i].page = p}
        IN  \/ ofPage = {} /\ device_report[p] = queue.report[p]
            \/ \E i \in ofPage : /\ \A k \in ofPage : k <= i
                                 /\ queue.events[i].report = queue.report[p]

\* The keys the event tap is told are held are the keys in the reports the
\* device received, after every single report (queue.hpp:700-709).
PressedKeysArePosted ==
    pressed_keys_manager = UNION {device_report[p] : p \in Pages}
=============================================================================
