------------------------------ MODULE Receiver ------------------------------
(***************************************************************************)
(* The receiver of the daemon and its clients: the console_user_server,    *)
(* the agent, the windows that observe (Settings, EventViewer) and the     *)
(* multitouch extension.  The receiver owns the device_grabber, keeps what *)
(* the clients told it so that a new device_grabber can be told again, and *)
(* removes the traces of a client whose connection closes.                 *)
(*                                                                         *)
(* The receiver and the device_grabber share a dispatcher: what a request  *)
(* asks of the device_grabber is a task that runs later, and disappears    *)
(* with the device_grabber.                                                *)
(***************************************************************************)
EXTENDS Naturals, Sequences, FiniteSets, SequencesExt

CONSTANTS
    None,
    Running,        \* which clients may run together, a set of sets of clients
    ByAgent,        \* properties the agent reports: frontmost application, focused element
    ByServer,       \* and the console_user_server: system preferences, input source
    MaxEvents       \* bound on changes of session and devices, requests of users and faults

VARIABLES
    granted,        \* the permissions of the daemon, as of its start
    system,         \* the system core configuration file exists
    session,        \* frontmost application, input source and so on, as the monitors see them
    link,           \* which connection of each client is up; 0 when there is none
    requests,       \* on the way to the daemon
    gone,           \* clients that have quit, or do not run at all
    daemon,         \* the receiver, its device_grabber and what the clients were told
    events

receiver_vars == <<granted, system, session, link, requests, gone, daemon, events>>

Clients == {"console_user_server", "agent", "window", "multitouch"}
Peers == Clients \X (1..2)
Properties == ByAgent \cup ByServer
Topics == {"devices", "message"}
EventViewer == 2    \* as the frontmost application

Request(op, key, value) == [op |-> op, key |-> key, value |-> value]
Task(op, key, peer) ==
    [op |-> op, key |-> key, peer |-> peer]

Event == events < MaxEvents /\ events' = events + 1

NoGrabber ==
    [running |-> FALSE, tasks |-> <<>>, environment |-> [k \in Properties |-> 0], variables |-> {},
     ignored |-> 0, shown |-> [t \in Topics |-> 0]]

NewDaemon ==
    [open |-> {}, console_user_server |-> None, multitouch |-> None, ignoring |-> {},
     observers |-> [t \in Topics |-> {}], stored |-> [k \in Properties |-> 0],
     grabber |-> NoGrabber, state |-> 0, signals |-> <<>>,
     told |-> [c \in Clients |-> [t \in Topics \cup {"state"} |-> 0]],    \* the last message, by topic
     waiting |-> [c \in Clients |-> 0]]     \* requests of its connection that have no response

-----------------------------------------------------------------------------
(* Messages of the receiver, and tasks for its device_grabber               *)

\* Messages are delivered in order, unless the connection is broken; what
\* the client keeps is the last one of each topic.
SendTo(d, peers, t, value) ==
    [d EXCEPT !.told = [c \in Clients |-> IF link[c] # 0 /\ <<c, link[c]>> \in peers
                                          THEN [@[c] EXCEPT ![t] = value] ELSE @[c]]]

\* A response of the device_grabber; the other requests are answered when
\* they are handled.
async_respond(d, p) == IF link[p[1]] = p[2] THEN [d EXCEPT !.waiting[p[1]] = @ - 1] ELSE d

Enqueue(d, task) ==
    IF d.grabber.running THEN [d EXCEPT !.grabber.tasks = Append(@, task)] ELSE d

\* The tasks that set properties or the ignored flag touch what nothing else
\* here reads: whether they run at once, later, or not at all because the
\* device_grabber is gone makes no difference, so they run at once.
SetProperties(d, values) ==
    IF d.grabber.running THEN [d EXCEPT !.grabber.environment = values @@ @] ELSE d

SetIgnored(d, value) == IF d.grabber.running THEN [d EXCEPT !.grabber.ignored = value] ELSE d

\* send_connected_devices_to_observers, send_notification_message_to_observers
publish(d, t) ==
    IF d.grabber.running THEN Enqueue(d, Task("publish", t, None))
    ELSE SendTo(d, d.observers[t], t, 0)

\* core_service_daemon_state_manager: update
set_state(d, value) ==
    IF d.state = value THEN d ELSE [d EXCEPT !.state = value, !.signals = Append(@, value)]

send_core_service_daemon_state(d, value) ==
    IF d.console_user_server = None THEN d
    ELSE SendTo(d, {d.console_user_server}, "state", value)

DestroyGrabber(d) == set_state([d EXCEPT !.grabber = NoGrabber], 0)

\* Mutant: the observers are not told that the device_grabber is gone.
stop_device_grabber_silently(d) == IF d.grabber.running THEN DestroyGrabber(d) ELSE d

stop_device_grabber(d) ==
    IF d.grabber.running THEN publish(publish(DestroyGrabber(d), "devices"), "message") ELSE d

\* Mutant: a new device_grabber is not told what the agent reported.
replayed_properties_without_agent(d) == [k \in ByServer |-> d.stored[k]]

replayed_properties(d) == d.stored

start_device_grabber(d) ==
    IF d.grabber.running \/ ~ granted THEN d
    ELSE SetProperties([set_state(d, 0) EXCEPT !.grabber.running = TRUE], replayed_properties(d))

start_grabbing_if_system_core_configuration_file_exists(d) ==
    IF granted /\ system THEN start_device_grabber(stop_device_grabber(d)) ELSE d

Init ==
    /\ granted \in BOOLEAN /\ system \in {FALSE, granted}
    /\ session = [k \in Properties |-> 0]
    /\ link = [c \in Clients |-> 0]
    /\ requests = [p \in Peers |-> <<>>]
    /\ \E clients \in Running : gone = Clients \ clients
    /\ daemon = start_grabbing_if_system_core_configuration_file_exists(NewDaemon)
    /\ events = 0

clear_multitouch_variables(d) == Enqueue(d, Task("unset", "multitouch", None))

-----------------------------------------------------------------------------
(* handle_request, one action per operation_type                            *)

Arrives(p, op) ==
    /\ p \in daemon.open
    /\ requests[p] # <<>> /\ Head(requests[p]).op = op
    /\ requests' = [requests EXCEPT ![p] = Tail(@)]
    /\ UNCHANGED <<granted, system, session, link, gone, events>>

\* system_preferences_updated, frontmost_application_changed,
\* focused_ui_element_changed and input_source_changed
HandleProperty(p) ==
    /\ Arrives(p, "property")
    /\ LET r == Head(requests[p])
       IN  daemon' = IF r.value = EventViewer THEN daemon
                     ELSE SetProperties([daemon EXCEPT !.stored[r.key] = r.value], r.key :> r.value)

HandleStart(p) ==
    /\ Arrives(p, "start")
    /\ LET started == start_device_grabber(stop_device_grabber([daemon EXCEPT !.console_user_server = p]))
       IN  daemon' = send_core_service_daemon_state(started, started.state)

HandleIgnore(p) ==
    /\ Arrives(p, "ignore")
    /\ daemon' = [SetIgnored(daemon, Head(requests[p]).value) EXCEPT !.ignoring = @ \cup {p}]

\* clear_user_variables, and get_manipulator_environment, get_system_variables
\* and get_multitouch_extension_variables, which only read: answered by the
\* device_grabber.
HandleInvoke(p) ==
    /\ Arrives(p, "clear")
    /\ daemon' = IF daemon.grabber.running THEN Enqueue(daemon, Task("clear", "none", p))
                 ELSE async_respond(daemon, p)

HandleConnectMultitouch(p) ==
    /\ Arrives(p, "connect_multitouch")
    /\ daemon' = [daemon EXCEPT !.multitouch = p]

HandleSetVariables(p) ==
    /\ Arrives(p, "set")
    /\ daemon' = Enqueue(daemon, Task("set", Head(requests[p]).key, None))

HandleObserve(p) ==
    /\ Arrives(p, "observe")
    /\ LET t == Head(requests[p]).key
           d == [daemon EXCEPT !.observers[t] = @ \cup {p}]
       IN  daemon' = IF d.grabber.running THEN Enqueue(d, Task("answer", t, p))
                     ELSE async_respond(SendTo(d, {p}, t, 0), p)

\* Mutant: a closed peer still counts as one that ignores the devices.
forget_peer_but_not_ignoring(d, p) ==
    [d EXCEPT !.open = @ \ {p}, !.observers = [t \in Topics |-> @[t] \ {p}]]

forget_peer(d, p) ==
    [d EXCEPT !.open = @ \ {p}, !.observers = [t \in Topics |-> @[t] \ {p}],
              !.ignoring = @ \ {p}]

WithoutIgnoring(d) == IF d.ignoring = {} THEN SetIgnored(d, 0) ELSE d

WithoutMultitouch(d, p) ==
    IF d.multitouch = p THEN clear_multitouch_variables([d EXCEPT !.multitouch = None]) ELSE d

WithoutServer(d, p) ==
    IF d.console_user_server = p
    THEN start_grabbing_if_system_core_configuration_file_exists(
            stop_device_grabber([d EXCEPT !.console_user_server = None]))
    ELSE d

handle_peer_closed(p) ==
    /\ p \in daemon.open /\ link[p[1]] # p[2]
    /\ daemon' = WithoutServer(WithoutMultitouch(WithoutIgnoring(forget_peer(daemon, p)), p), p)
    /\ requests' = [requests EXCEPT ![p] = <<>>]
    /\ UNCHANGED <<granted, system, session, link, gone, events>>

\* The signal of core_service_daemon_state_manager.
StateSignal ==
    /\ daemon.signals # <<>>
    /\ daemon' = send_core_service_daemon_state([daemon EXCEPT !.signals = Tail(@)], Head(daemon.signals))
    /\ UNCHANGED <<granted, system, session, link, requests, gone, events>>

-----------------------------------------------------------------------------
(* Tasks of the device_grabber                                              *)

clear_user_variables(d, p) ==
    async_respond([d EXCEPT !.grabber.tasks =
        @ \o IF "user" \in d.grabber.variables THEN <<Task("unset", "user", None)>> ELSE <<>>], p)

RunTask ==
    /\ daemon.grabber.running /\ daemon.grabber.tasks # <<>>
    /\ LET t == Head(daemon.grabber.tasks)
           d == [daemon EXCEPT !.grabber.tasks = Tail(@)]
       IN  daemon' =
            CASE t.op = "set" -> [d EXCEPT !.grabber.variables = @ \cup {t.key}]
              [] t.op = "unset" -> [d EXCEPT !.grabber.variables = @ \ {t.key}]
              [] t.op = "publish" -> SendTo(d, d.observers[t.key], t.key, d.grabber.shown[t.key])
              [] t.op = "answer" -> async_respond(SendTo(d, {t.peer}, t.key, d.grabber.shown[t.key]), t.peer)
              [] t.op = "clear" -> clear_user_variables(d, t.peer)
    /\ UNCHANGED <<granted, system, session, link, requests, gone, events>>

\* connected_devices_changed and notification_message_changed, and an update
\* of the daemon state
GrabberChanges(t) ==
    /\ Event
    /\ daemon.grabber.running
    /\ daemon' = IF t = "state" THEN set_state(daemon, 1 - daemon.state)
                 ELSE publish([daemon EXCEPT !.grabber.shown[t] = 1 - @], t)
    /\ UNCHANGED <<granted, system, session, link, requests, gone>>

-----------------------------------------------------------------------------
(* The clients                                                              *)

Waits(rs) == Len(SelectSeq(rs, LAMBDA r : r.op \in {"observe", "clear"}))

Ask(c, rs) ==
    /\ requests' = [requests EXCEPT ![<<c, link[c]>>] = @ \o rs]
    /\ daemon' = [daemon EXCEPT !.waiting[c] = @ + Waits(rs)]

Reports(keys) == [i \in 1..Cardinality(keys) |->
    LET k == SetToSeq(keys)[i] IN Request("property", k, session[k])]

\* What each client sends when it is connected: its handler of connected.
ConsoleUserServerHello == <<Request("start", "none", 0), Request("observe", "message", 0)>> \o Reports(ByServer)
AgentHello == Reports(ByAgent)
WindowHello == <<Request("observe", "devices", 0), Request("ignore", "none", 0)>>
MultitouchHello == <<Request("connect_multitouch", "none", 0)>>

Hello(c) ==
    CASE c = "console_user_server" -> ConsoleUserServerHello
      [] c = "agent" -> AgentHello
      [] c = "window" -> WindowHello
      [] c = "multitouch" -> MultitouchHello

\* A client connects again after a second (reconnect_interval): the daemon has
\* handled what the old connection brought, but may not have noticed its end.
Connect(c) ==
    /\ link[c] = 0 /\ c \notin gone
    /\ \A i \in 1..2 : requests[<<c, i>>] = <<>>
    /\ \E i \in 1..2 :
        /\ <<c, i>> \notin daemon.open /\ \A j \in 1..(i - 1) : <<c, j>> \in daemon.open
        /\ link' = [link EXCEPT ![c] = i]
        /\ daemon' = [daemon EXCEPT !.open = @ \cup {<<c, i>>}, !.waiting[c] = Waits(Hello(c))]
        /\ requests' = [requests EXCEPT ![<<c, i>>] = Hello(c)]
    /\ UNCHANGED <<granted, system, session, gone, events>>

Disconnected(c) ==
    /\ link' = [link EXCEPT ![c] = 0]
    /\ daemon' = [daemon EXCEPT !.waiting[c] = 0]

\* A request was not answered for 15 seconds: nothing is left that could
\* answer it (invalidate_connection_on_request_error).
RequestTimeout(c) ==
    LET p == <<c, link[c]>>
    IN  /\ link[c] # 0 /\ daemon.waiting[c] > 0
        /\ requests[p] = <<>>
        /\ \A i \in DOMAIN daemon.grabber.tasks : daemon.grabber.tasks[i].peer # p
        /\ Disconnected(c)
        /\ UNCHANGED <<granted, system, session, requests, gone, events>>

Reporter(k) == IF k \in ByAgent THEN "agent" ELSE "console_user_server"

\* A monitor of the session sees a change; the first connection brings the
\* present value anyway.
SessionChanges(k, value) ==
    /\ Event
    /\ value # session[k]
    /\ value = EventViewer => k = "frontmost_application"
    /\ Reporter(k) \notin gone
    /\ session' = [session EXCEPT ![k] = value]
    /\ LET c == Reporter(k)
       IN  IF link[c] = 0 THEN UNCHANGED <<requests, daemon>>
           ELSE Ask(c, <<Request("property", k, value)>>)
    /\ UNCHANGED <<granted, system, link, gone>>

\* The user works with a window, or touches the trackpad.
UserAsks(c, r) ==
    /\ Event
    /\ link[c] # 0 /\ requests[<<c, link[c]>>] = <<>>
    /\ Ask(c, <<r>>)
    /\ UNCHANGED <<granted, system, session, link, gone>>

WindowRequests ==
    {<<"window", Request("ignore", "none", v)>> : v \in 0..1} \cup {<<"window", Request("clear", "none", 0)>>}

\* The command line is a client like a window, that quits after its request.
CommandLineRequests == {<<"window", Request("set", "user", 0)>>}

MultitouchRequests == {<<"multitouch", Request("set", "multitouch", 0)>>}

UserRequests == WindowRequests \cup CommandLineRequests \cup MultitouchRequests

-----------------------------------------------------------------------------
(* Faults                                                                   *)

\* A connection is lost, or the client quits for good.
BreakConnection(c, quits) ==
    /\ Event
    /\ link[c] # 0
    /\ quits => c \in {"window", "multitouch"}
    /\ Disconnected(c)
    /\ gone' = IF quits THEN gone \cup {c} ELSE gone
    /\ UNCHANGED <<granted, system, session, requests>>

RestartDaemon ==
    /\ Event
    /\ link' = [c \in Clients |-> 0]
    /\ requests' = [p \in Peers |-> <<>>]
    /\ daemon' = start_grabbing_if_system_core_configuration_file_exists([NewDaemon EXCEPT !.told = daemon.told])
    /\ UNCHANGED <<granted, system, session, gone>>

-----------------------------------------------------------------------------
Work ==
    \/ \E p \in Peers : \/ HandleProperty(p) \/ HandleStart(p) \/ HandleIgnore(p)
                        \/ HandleInvoke(p) \/ HandleConnectMultitouch(p) \/ HandleSetVariables(p)
                        \/ HandleObserve(p) \/ handle_peer_closed(p)
    \/ StateSignal \/ RunTask
    \/ \E c \in Clients : Connect(c) \/ RequestTimeout(c)

Next ==
    \/ Work
    \/ \E t \in Topics \cup {"state"} : GrabberChanges(t)
    \/ \E k \in Properties, value \in 0..EventViewer : SessionChanges(k, value)
    \/ \E r \in UserRequests : UserAsks(r[1], r[2])
    \/ \E c \in Clients, quits \in BOOLEAN : BreakConnection(c, quits)
    \/ RestartDaemon

\* The dispatchers run, and the clients go on connecting.
Spec == Init /\ [][Next]_receiver_vars /\ WF_receiver_vars(Work)

-----------------------------------------------------------------------------
\* Every observer ends up with the devices, the message and the daemon state
\* of the device_grabber that runs, or with nothing when none runs, whatever
\* was replaced, lost or answered late in between (stop_device_grabber,
\* send_connected_devices_to_observers, async_respond_connected_devices).
ViewsAreCurrent ==
    /\ "window" \notin gone => daemon.told["window"]["devices"] = daemon.grabber.shown["devices"]
    /\ "console_user_server" \notin gone =>
        /\ daemon.told["console_user_server"]["message"] = daemon.grabber.shown["message"]
        /\ daemon.told["console_user_server"]["state"] = daemon.state

ObserversCatchUp == <>[]ViewsAreCurrent

\* The device_grabber ends up with the frontmost application, the focused
\* element, the preferences and the input source of the session: a new one
\* is told again (start_device_grabber) and a new daemon too (the connected
\* handlers of the clients).
EnvironmentIsCurrent ==
    \A k \in Properties : session[k] # EventViewer /\ daemon.grabber.running =>
        daemon.grabber.environment[k] = session[k]

EnvironmentCatchesUp == <>[]EnvironmentIsCurrent

\* A client that has gone leaves nothing behind: no multitouch variables and
\* no devices that are ignored (handle_peer_closed).
NothingIsLeft ==
    /\ "multitouch" \in gone => "multitouch" \notin daemon.grabber.variables
    /\ "window" \in gone => daemon.grabber.ignored = 0

ClosedClientsLeaveNothing == <>[]NothingIsLeft
=============================================================================
