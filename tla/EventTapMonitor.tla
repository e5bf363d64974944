--------------------------- MODULE EventTapMonitor ---------------------------
(***************************************************************************)
(* How device_grabber creates, replaces and drops its event_tap_monitor.   *)
(* Three kinds of threads meet: the shared dispatcher, which runs every    *)
(* task in order; a run loop per monitor, which calls back for events and  *)
(* cleans up when it is asked to stop; and the system, which may disable a *)
(* tap.  A monitor is destroyed by whoever drops the last reference to it: *)
(* the owner, the block that async_stop puts on its run loop and the       *)
(* completion task the block enqueues each hold one.                       *)
(***************************************************************************)
EXTENDS Naturals, Sequences, FiniteSets, Subsequences

CONSTANTS
    Monitors,       \* identities of event_tap_monitor objects, reused
    None,
    MaxEvents       \* bound on the event tasks of the dispatcher

\* What the constants are assumed to be.
EventTapAssumption ==
    /\ IsFiniteSet(Monitors)
    /\ None \notin Monitors
    /\ None \notin BOOLEAN
    /\ MaxEvents \in Nat

VARIABLES
    grabber,    \* device_grabber
    monitors,   \* the event_tap_monitor objects
    queue,      \* tasks of the shared dispatcher
    crashed     \* why the process has died, or "no"

vars == <<grabber, monitors, queue, crashed>>

Grabber == [
    status : {"none", "starting", "running"},
    cgeventtap_fallback_enabled : BOOLEAN,
    event_tap_monitor : Monitors \cup {None},
    pending_event_tap_monitor_configuration : BOOLEAN \cup {None},
    event_tap_monitor_stopping : BOOLEAN]

Monitor == [
    alive : BOOLEAN,
    owned : BOOLEAN,        \* its owner is the present device_grabber
    cgeventtap_fallback_enabled : BOOLEAN,
    connected : BOOLEAN,    \* its signals have slots
    event_tap : {"none", "enabled", "disabled"},
    start_tried : BOOLEAN,  \* the task of async_start has run
    block : {"none", "queued", "executed"},     \* async_stop's, on the run loop
    continues : BOOLEAN,    \* its completion goes on to the pending configuration
    event_tap_cleanup_completed : BOOLEAN]

Task == [kind : {"async_start"}, monitor : {None}]
        \cup [kind : {"start", "event", "completion"}, monitor : Monitors]

NoGrabber ==
    [status |-> "none", cgeventtap_fallback_enabled |-> FALSE,
     event_tap_monitor |-> None, pending_event_tap_monitor_configuration |-> None,
     event_tap_monitor_stopping |-> FALSE]

NoMonitor ==
    [alive |-> FALSE, owned |-> FALSE, cgeventtap_fallback_enabled |-> FALSE,
     connected |-> FALSE, event_tap |-> "none", start_tried |-> FALSE, block |-> "none",
     continues |-> FALSE, event_tap_cleanup_completed |-> FALSE]

Init ==
    /\ grabber = NoGrabber
    /\ monitors = [m \in Monitors |-> NoMonitor]
    /\ queue = <<>>
    /\ crashed = "no"

Free == {m \in Monitors : ~ monitors[m].alive}

task(kind, m) == [kind |-> kind, monitor |-> m]

\* The run loop of m runs until the stop block asks it to stop.
RunLoopRuns(m) == monitors[m].alive /\ ~ monitors[m].event_tap_cleanup_completed

\* The system hands events to m.
Listening(m) == RunLoopRuns(m) /\ monitors[m].event_tap = "enabled"

Current == [grabber |-> grabber, monitors |-> monitors, queue |-> queue, crashed |-> crashed]

Becomes(st) ==
    /\ grabber' = st.grabber
    /\ monitors' = st.monitors
    /\ queue' = st.queue
    /\ crashed' = st.crashed
-----------------------------------------------------------------------------
(* device_grabber, on the dispatcher.                                       *)

\* Mutant: the signals keep their slots.
async_stop_connected(st, m, continues) ==
    [st EXCEPT !.monitors[m].block = "queued", !.monitors[m].continues = continues]

\* Mutant: the run loop is not asked to clean up.
async_stop_disconnecting_only(st, m, continues) ==
    [st EXCEPT !.monitors[m].connected = FALSE, !.monitors[m].continues = continues]

async_stop(st, m, continues) ==
    [st EXCEPT !.monitors[m].connected = FALSE,
               !.monitors[m].block = "queued", !.monitors[m].continues = continues]

async_stop_event_tap_monitor(st, continues) ==
    IF st.grabber.event_tap_monitor = None THEN st
    ELSE async_stop([st EXCEPT !.grabber.event_tap_monitor = None],
                    st.grabber.event_tap_monitor, continues)

\* new is an identity no object has.
create_pending_event_tap_monitor(st, new) ==
    LET pending == st.grabber.pending_event_tap_monitor_configuration
    IN  IF pending = None THEN st
        ELSE [st EXCEPT
            !.grabber.pending_event_tap_monitor_configuration = None,
            !.grabber.event_tap_monitor = new,
            !.monitors[new] = [NoMonitor EXCEPT !.alive = TRUE, !.owned = TRUE,
                !.cgeventtap_fallback_enabled = pending, !.connected = TRUE],
            !.queue = Append(@, task("start", new))]

\* Mutant: a monitor that is stopping does not hold the next one back.
setup_event_tap_monitor_at_once(st, value, new) ==
    LET asked == [st EXCEPT !.grabber.pending_event_tap_monitor_configuration = value]
    IN  IF asked.grabber.event_tap_monitor # None
        THEN async_stop_event_tap_monitor(
                 [asked EXCEPT !.grabber.event_tap_monitor_stopping = TRUE], TRUE)
        ELSE create_pending_event_tap_monitor(asked, new)

\* Mutant: a configuration that comes while the old monitor is stopping is lost.
setup_event_tap_monitor_first(st, value, new) ==
    LET asked == [st EXCEPT !.grabber.pending_event_tap_monitor_configuration = value]
    IN  IF st.grabber.event_tap_monitor_stopping THEN st
        ELSE IF asked.grabber.event_tap_monitor # None
        THEN async_stop_event_tap_monitor(
                 [asked EXCEPT !.grabber.event_tap_monitor_stopping = TRUE], TRUE)
        ELSE create_pending_event_tap_monitor(asked, new)

setup_event_tap_monitor(st, value, new) ==
    LET asked == [st EXCEPT !.grabber.pending_event_tap_monitor_configuration = value]
    IN  IF asked.grabber.event_tap_monitor_stopping THEN asked
        ELSE IF asked.grabber.event_tap_monitor # None
        THEN async_stop_event_tap_monitor(
                 [asked EXCEPT !.grabber.event_tap_monitor_stopping = TRUE], TRUE)
        ELSE create_pending_event_tap_monitor(asked, new)

\* receiver::start_device_grabber.  The identity its monitor will need is kept
\* free: the bound on monitors holds nothing up later.
StartDeviceGrabber ==
    /\ grabber.status = "none"
    /\ Free # {}
    /\ Becomes([Current EXCEPT
           !.grabber = [NoGrabber EXCEPT !.status = "starting"],
           !.queue = Append(@, task("async_start", None))])

\* receiver::stop_device_grabber: ~device_grabber drops its tasks, its token
\* and its monitor.
StopDeviceGrabber ==
    LET stopped == async_stop_event_tap_monitor(Current, FALSE)
    IN  /\ grabber.status # "none"
        /\ Becomes([stopped EXCEPT
               !.grabber = NoGrabber,
               !.monitors = [m \in Monitors |-> [@[m] EXCEPT !.owned = FALSE]],
               !.queue = Kept(@, {i \in DOMAIN @ : @[i].kind # "async_start"})])

\* core_configuration_updated: set_cgeventtap_fallback_enabled.
ConfigurationUpdated(value) ==
    /\ grabber.status = "running"
    /\ grabber.cgeventtap_fallback_enabled # value
    /\ \E new \in Free : Becomes(setup_event_tap_monitor(
           [Current EXCEPT !.grabber.cgeventtap_fallback_enabled = value], value, new))
-----------------------------------------------------------------------------
(* Tasks of the dispatcher.                                                 *)

Runs(kind) == queue # <<>> /\ Head(queue).kind = kind

Popped == [Current EXCEPT !.queue = Tail(@)]

AsyncStart ==
    /\ Runs("async_start")
    /\ \E new \in Free : Becomes(setup_event_tap_monitor(
           [Popped EXCEPT !.grabber.status = "running"], FALSE, new))

\* The task of async_start: CGEventTapCreate may fail, and is not retried.
Start ==
    LET m == Head(queue).monitor
    IN  /\ Runs("start")
        /\ \E tap \in {"enabled", "none"} :
               Becomes([Popped EXCEPT
                   !.monitors[m].start_tried = TRUE,
                   !.monitors[m].event_tap = IF @ # "none" THEN @ ELSE tap])

\* An event reaches the device_grabber its slot has captured, or nobody.
Event ==
    LET m == Head(queue).monitor
        dangling == monitors[m].connected /\ ~ monitors[m].owned
    IN  /\ Runs("event")
        /\ Becomes([Popped EXCEPT !.crashed = IF dangling THEN "dangling_callback" ELSE @])

\* ~event_tap_monitor: detached from the dispatcher; it joins its run loop
\* and aborts when the tap has not been cleaned up.
Destroyed(st, m, on_run_loop) ==
    [st EXCEPT
        !.monitors[m] = NoMonitor,
        !.queue = Kept(@, {i \in DOMAIN @ : @[i].monitor # m}),
        !.crashed = IF on_run_loop THEN "joined_itself"
                    ELSE IF ~ st.monitors[m].event_tap_cleanup_completed THEN "aborted"
                    ELSE @]

\* The task drops its reference when it ends.
CompletionDropped(st, m) ==
    IF st.monitors[m].block = "none" THEN Destroyed(st, m, FALSE) ELSE st

\* The completion of async_stop; the token tells whether device_grabber lives.
Completion ==
    LET m == Head(queue).monitor
        continues == monitors[m].continues /\ monitors[m].owned
        resumed == [Popped EXCEPT !.grabber.event_tap_monitor_stopping = FALSE]
    IN  /\ Runs("completion")
        /\ \/ /\ continues
              /\ \E new \in Free : Becomes(CompletionDropped(
                     create_pending_event_tap_monitor(resumed, new), m))
           \/ /\ ~ continues
              /\ Becomes(CompletionDropped(Popped, m))

RunTask == AsyncStart \/ Start \/ Event \/ Completion
-----------------------------------------------------------------------------
(* The run loop of a monitor.                                               *)

\* callback, for an event it hands to the dispatcher.
Callback(m) ==
    /\ Listening(m)
    /\ Cardinality({i \in DOMAIN queue : queue[i].kind = "event"}) < MaxEvents
    /\ Becomes([Current EXCEPT !.queue = Append(@, task("event", m))])

\* callback, for kCGEventTapDisabledByTimeout and ByUserInput.
ReEnable(m) ==
    /\ RunLoopRuns(m)
    /\ monitors[m].event_tap = "disabled"
    /\ Becomes([Current EXCEPT !.monitors[m].event_tap = "enabled"])

\* The block of async_stop.
Cleanup(m) ==
    /\ RunLoopRuns(m)
    /\ monitors[m].block = "queued"
    /\ Becomes([Current EXCEPT !.monitors[m].event_tap = "none",
                               !.monitors[m].event_tap_cleanup_completed = TRUE,
                               !.monitors[m].block = "executed",
                               !.queue = Append(@, task("completion", m))])

\* The run loop releases the block, and with it its copy of the completion.
BlockReleased(m) ==
    LET released == [Current EXCEPT !.monitors[m].block = "none"]
    IN  /\ monitors[m].block = "executed"
        /\ Becomes(IF \E i \in DOMAIN queue : queue[i] = task("completion", m)
                   THEN released
                   ELSE Destroyed(released, m, TRUE))

\* External: the system disables a tap whose callback is slow.
DisabledBySystem(m) ==
    /\ monitors[m].event_tap = "enabled"
    /\ Becomes([Current EXCEPT !.monitors[m].event_tap = "disabled"])

Next ==
    /\ crashed = "no"
    /\ \/ StartDeviceGrabber
       \/ StopDeviceGrabber
       \/ \E value \in BOOLEAN : ConfigurationUpdated(value)
       \/ RunTask
       \/ \E m \in Monitors :
             \/ Callback(m)
             \/ ReEnable(m)
             \/ Cleanup(m)
             \/ BlockReleased(m)
             \/ DisabledBySystem(m)

Spec == Init /\ [][Next]_vars

\* The dispatcher runs its tasks, a run loop its blocks.
Fairness ==
    /\ WF_vars(crashed = "no" /\ RunTask)
    /\ \A m \in Monitors :
          /\ WF_vars(crashed = "no" /\ Cleanup(m))
          /\ WF_vars(crashed = "no" /\ BlockReleased(m))

FairSpec == Spec /\ Fairness
-----------------------------------------------------------------------------
(* Properties.                                                              *)

\* Every variable has its type.
TypeOK ==
    /\ grabber \in Grabber
    /\ monitors \in [Monitors -> Monitor]
    /\ queue \in Seq(Task)
    /\ crashed \in {"no", "dangling_callback", "aborted", "joined_itself"}

\* While one monitor is being replaced, the old and the new event tap of a
\* device_grabber never both listen (setup_event_tap_monitor).
AtMostOneTapListens ==
    \A m, n \in {k \in Monitors : monitors[k].owned} :
        Listening(m) /\ Listening(n) => m = n

\* Event tasks and the run loop outlive the device_grabber: no event calls one
\* that has been destroyed (async_stop disconnects the signals), and the abort of
\* ~event_tap_monitor is not reached, because the tap is cleaned up on the run
\* loop before the last reference goes.
StoppedMonitorsAreSafe == crashed \notin {"dangling_callback", "aborted"}

ConfigurationIs(value) ==
    grabber.status = "running" /\ grabber.cgeventtap_fallback_enabled = value

\* A configuration that stays is eventually the one of a monitor that has been
\* started, however fast configurations came before it (a monitor destroyed on
\* its own run loop, where terminate joins itself, excepted).
ConfigurationIsApplied ==
    \A value \in BOOLEAN :
        ConfigurationIs(value) ~>
            \/ ~ ConfigurationIs(value)
            \/ \E m \in Monitors :
                  /\ grabber.event_tap_monitor = m
                  /\ monitors[m].cgeventtap_fallback_enabled = value
                  /\ monitors[m].start_tried
            \/ crashed = "joined_itself"

\* A monitor that device_grabber has let go is eventually destroyed.
DroppedMonitorIsDestroyed ==
    \A m \in Monitors :
        monitors[m].alive /\ grabber.event_tap_monitor # m ~>
            ~ monitors[m].alive \/ crashed = "joined_itself"
=============================================================================
