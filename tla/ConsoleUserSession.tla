------------------------- MODULE ConsoleUserSession -------------------------
(***************************************************************************)
(* Fast user switching.  The console_user_server of every user polls       *)
(* whether its session is on the console and tells the daemon over a       *)
(* connection of its own (console_user_id_changed_client and _receiver).   *)
(* The daemon then replaces its receiver, whose socket belongs to the new  *)
(* console user, and announces when that socket is bound; only then the    *)
(* console_user_server connects to it and asks for a device_grabber.       *)
(*                                                                         *)
(* Connections break, the processes crash and are started again, and the   *)
(* daemon rebuilds its components after sleep.  Every process handles its  *)
(* events one at a time on its dispatcher; a message that is handled later *)
(* may find everything changed.                                            *)
(***************************************************************************)
EXTENDS Naturals, Sequences

CONSTANTS
    Users, NoUser,
    FirstConsole,       \* who may be on the console when the processes start
    MaxSwitches,        \* bound on user switches
    MaxFaults,          \* bound on crashes and broken connections
    PromptMonitors      \* a report (poll of 1 s) arrives before the next switch or reconnection

VARIABLES
    console,        \* whose session is on the console
    switches, faults,
    server,         \* console_user_server of each user
    link,           \* which of the user's connections is up; 0 when there is none
    requests,       \* console_user_id_changed requests on each connection
    answers,        \* responses and server_bound messages on each connection
    peers,          \* peer_credentials_ and peer_states_ of the daemon
    daemon,         \* console_user_id_changed_receiver and the dispatcher of the daemon
    receiver        \* receiver_ of components_manager

session_vars == <<console, switches, faults, server, link, requests, answers, peers, daemon, receiver>>

Connections == Users \X (1..2)
OptionalUsers == Users \cup {NoUser}

NewServer ==
    [on_console |-> "none", ready |-> FALSE, pending |-> "none", in_flight |-> FALSE,
     accepted |-> FALSE, bound |-> <<>>, client |-> "none"]
NewReceiver(uid) == [uid |-> uid, bound |-> FALSE, start |-> FALSE, peer |-> "none", grabber |-> NoUser]
NewDaemon == [current |-> NoUser, is_bound |-> FALSE, bound_uid |-> NoUser, tasks |-> <<>>]

Server ==
    [on_console : {"none", "on", "off"}, ready : BOOLEAN, pending : {"none", "on", "off"},
     in_flight : BOOLEAN, accepted : BOOLEAN, bound : {<<>>} \cup {<<u>> : u \in OptionalUsers},
     client : {"none", "connecting", "connected"}]

Message ==
    [type : {"response"}, request : {"on", "off"}] \cup [type : {"bound"}, uid : OptionalUsers]

Daemon ==
    [current : OptionalUsers, is_bound : BOOLEAN, bound_uid : OptionalUsers,
     tasks : Seq([type : {"changed", "bound"}, uid : OptionalUsers, latest : BOOLEAN])]

Receiver ==
    [uid : OptionalUsers, bound : BOOLEAN, start : BOOLEAN, peer : {"none", "open", "lost"},
     grabber : OptionalUsers]

TypeOK ==
    /\ console \in OptionalUsers /\ server \in [Users -> Server] /\ link \in [Users -> 0..2]
    /\ requests \in [Connections -> Seq({"on", "off"})]
    /\ answers \in [Connections -> Seq(Message)]
    /\ peers \in [Connections -> {"closed", "none", "on", "off"}]
    /\ daemon \in Daemon /\ receiver \in Receiver

Init ==
    /\ console \in FirstConsole /\ switches = 0 /\ faults = 0
    /\ server = [u \in Users |-> NewServer] /\ link = [u \in Users |-> 0]
    /\ requests = [c \in Connections |-> <<>>] /\ answers = [c \in Connections |-> <<>>]
    /\ peers = [c \in Connections |-> "closed"]
    /\ daemon = NewDaemon /\ receiver = NewReceiver(NoUser)

-----------------------------------------------------------------------------
(* console_user_id_changed_client_state                                     *)

console_user_id_changed(s, value) ==
    [s EXCEPT !.pending = value, !.accepted = FALSE, !.bound = <<>>]

connection_not_ready(s) ==
    [s EXCEPT !.ready = FALSE, !.in_flight = FALSE, !.accepted = FALSE, !.bound = <<>>]

connected(s) == [connection_not_ready(s) EXCEPT !.ready = TRUE]

can_take_request(s) == s.ready /\ s.pending # "none" /\ ~ s.in_flight

\* Mutant: any response accepts the request that is pending now.
request_succeeded_for_any(s, request) ==
    [s EXCEPT !.in_flight = FALSE, !.accepted = TRUE, !.pending = "none"]

request_succeeded(s, request) ==
    IF s.pending = request
    THEN [s EXCEPT !.in_flight = FALSE, !.accepted = TRUE, !.pending = "none"]
    ELSE [s EXCEPT !.in_flight = FALSE]

\* async_deliver_pending_console_user_id_changed: s is the server of u, on
\* connection i.
Deliver(u, i, s) ==
    /\ server' = [server EXCEPT ![u] = IF can_take_request(s) THEN [s EXCEPT !.in_flight = TRUE] ELSE s]
    /\ requests' = IF can_take_request(s)
                   THEN [requests EXCEPT ![<<u, i>>] = Append(@, s.pending)] ELSE requests

\* notify_core_service_daemon_server_bound_if_ready with the handler of
\* components_manager: start_core_service_daemon_client
NotifyBound(u, s) ==
    IF ~ s.accepted \/ s.bound = <<>> THEN s
    ELSE [s EXCEPT !.bound = <<>>,
                   !.client = IF s.on_console = "on" /\ s.bound[1] = u /\ @ = "none"
                              THEN "connecting" ELSE @]

-----------------------------------------------------------------------------
(* The console_user_server                                                  *)

OnConsole(u) == IF console = u THEN "on" ELSE "off"
UpToDate(u) == server[u].on_console \in {"none", OnConsole(u)}
Prompt ==
    PromptMonitors => /\ \A u \in Users : UpToDate(u)
                      /\ \A c \in Connections : requests[c] = <<>>

\* The receiver notices a client that goes away by its connection.
WithoutClient(u, r) ==
    IF server[u].client = "connected"
    THEN [r EXCEPT !.start = FALSE, !.peer = IF @ = "open" THEN "lost" ELSE @] ELSE r

\* session_monitor_ of u: on_console_changed.
OnConsoleChanged(u) ==
    /\ server[u].on_console # OnConsole(u)
    /\ LET stopped == [server[u] EXCEPT !.on_console = OnConsole(u), !.client = "none"]
       IN  Deliver(u, IF link[u] = 0 THEN 1 ELSE link[u],
                   console_user_id_changed(stopped, OnConsole(u)))
    /\ receiver' = WithoutClient(u, receiver)
    /\ UNCHANGED <<console, switches, faults, link, answers, peers, daemon>>

\* connected: what was pending is delivered, then the present state.
Connect(u) ==
    /\ Prompt
    /\ link[u] = 0
    /\ \E i \in 1..2 :
        /\ peers[<<u, i>>] = "closed" /\ \A j \in 1..(i - 1) : peers[<<u, j>>] # "closed"
        /\ link' = [link EXCEPT ![u] = i]
        /\ peers' = [peers EXCEPT ![<<u, i>>] = "none"]
        /\ LET now == connected(server[u])
           IN  Deliver(u, i, IF now.on_console = "none" THEN now
                             ELSE console_user_id_changed(now, now.on_console))
    /\ UNCHANGED <<console, switches, faults, answers, daemon, receiver>>

\* received and the response of async_request
Receive(u) ==
    /\ link[u] # 0
    /\ answers[<<u, link[u]>>] # <<>>
    /\ LET m == Head(answers[<<u, link[u]>>])
       IN  IF m.type = "bound"
           THEN /\ server' = [server EXCEPT ![u] = NotifyBound(u, [@ EXCEPT !.bound = <<m.uid>>])]
                /\ UNCHANGED requests
           ELSE Deliver(u, link[u], NotifyBound(u, request_succeeded(server[u], m.request)))
    /\ answers' = [answers EXCEPT ![<<u, link[u]>>] = Tail(@)]
    /\ UNCHANGED <<console, switches, faults, link, peers, daemon, receiver>>

\* core_service_daemon_client connects, again and again; the socket is 0600
\* and belongs to the user of the receiver.
ClientConnected(u) ==
    /\ server[u].client = "connecting"
    /\ receiver.bound /\ receiver.uid = u
    /\ server' = [server EXCEPT ![u].client = "connected"]
    /\ receiver' = [receiver EXCEPT !.start = TRUE]
    /\ UNCHANGED <<console, switches, faults, link, requests, answers, peers, daemon>>

-----------------------------------------------------------------------------
(* The daemon                                                               *)

Outdated(tasks) ==
    [i \in DOMAIN tasks |-> [tasks[i] EXCEPT !.latest = FALSE]]

update_current_console_user_id(d, value) ==
    IF d.current = value THEN d
    ELSE [d EXCEPT !.current = value, !.is_bound = FALSE,
                   !.tasks = Append(Outdated(@), [type |-> "changed", uid |-> value, latest |-> FALSE])]

has_on_console_peer(states, uid) == \E c \in Connections : c[1] = uid /\ states[c] = "on"

\* The user leaves the console, by a request or by a closed connection.
LeaveConsole(d, states, uid) ==
    IF d.current = uid /\ ~ has_on_console_peer(states, uid)
    THEN update_current_console_user_id(d, NoUser) ELSE d

bound_message(d) == <<[type |-> "bound", uid |-> d.bound_uid]>>

\* Mutant: a request is never answered with server_bound.
send_bound_only_by_broadcast(d) == <<>>

\* send_core_service_daemon_server_bound_if_current
send_bound_if_current(d) == IF d.is_bound THEN bound_message(d) ELSE <<>>

\* request_received: console_user_id_changed.
HandleRequest(c) ==
    /\ peers[c] # "closed" /\ requests[c] # <<>>
    /\ LET value == Head(requests[c])
       IN  /\ peers' = [peers EXCEPT ![c] = value]
           /\ daemon' = IF value = "on" THEN update_current_console_user_id(daemon, c[1])
                        ELSE LeaveConsole(daemon, peers', c[1])
           /\ answers' = [answers EXCEPT ![c] = IF link[c[1]] # c[2] THEN @ ELSE
                @ \o <<[type |-> "response", request |-> value]>> \o send_bound_if_current(daemon')]
    /\ requests' = [requests EXCEPT ![c] = Tail(@)]
    /\ UNCHANGED <<console, switches, faults, server, link, receiver>>

\* peer_closed
PeerClosed(c) ==
    /\ peers[c] # "closed" /\ link[c[1]] # c[2]
    /\ peers' = [peers EXCEPT ![c] = "closed"]
    /\ daemon' = IF peers[c] = "on" THEN LeaveConsole(daemon, peers', c[1]) ELSE daemon
    /\ requests' = [requests EXCEPT ![c] = <<>>]
    /\ UNCHANGED <<console, switches, faults, server, link, answers, receiver>>

\* start_receiver: connections to the old receiver are closed and the clients
\* go on trying.
ReplaceReceiver(uid) ==
    /\ receiver' = NewReceiver(uid)
    /\ server' = [u \in Users |-> IF server[u].client = "connected"
                                  THEN [server[u] EXCEPT !.client = "connecting"] ELSE server[u]]

is_current_bound(task) == task.latest /\ task.uid = daemon.current

RunTask ==
    /\ daemon.tasks # <<>>
    /\ LET task == Head(daemon.tasks)
           rest == [daemon EXCEPT !.tasks = Tail(@)]
       IN  IF task.type = "changed"
           THEN daemon' = rest /\ ReplaceReceiver(task.uid) /\ UNCHANGED answers
           ELSE /\ daemon' = IF is_current_bound(task)
                             THEN [rest EXCEPT !.is_bound = TRUE, !.bound_uid = task.uid] ELSE rest
                /\ answers' = [c \in Connections |->
                        IF is_current_bound(task) /\ peers[c] # "closed" /\ link[c[1]] = c[2]
                        THEN answers[c] \o bound_message(daemon') ELSE answers[c]]
                /\ UNCHANGED <<receiver, server>>
    /\ UNCHANGED <<console, switches, faults, link, requests, peers>>

\* server_bound of the receiver: async_core_service_daemon_server_bound
ReceiverBound ==
    /\ ~ receiver.bound
    /\ receiver' = [receiver EXCEPT !.bound = TRUE]
    /\ daemon' = [daemon EXCEPT !.tasks =
            Append(Outdated(@), [type |-> "bound", uid |-> receiver.uid, latest |-> TRUE])]
    /\ UNCHANGED <<console, switches, faults, server, link, requests, answers, peers>>

\* start_device_grabber request
StartDeviceGrabber ==
    /\ receiver.start
    /\ receiver' = [receiver EXCEPT !.start = FALSE, !.peer = "open", !.grabber = receiver.uid]
    /\ UNCHANGED <<console, switches, faults, server, link, requests, answers, peers, daemon>>

\* handle_peer_closed for console_user_server_peer_id_
ReceiverPeerClosed ==
    /\ receiver.peer = "lost"
    /\ receiver' = [receiver EXCEPT !.peer = "none", !.grabber = NoUser]
    /\ UNCHANGED <<console, switches, faults, server, link, requests, answers, peers, daemon>>

-----------------------------------------------------------------------------
(* Switches and faults                                                      *)

Fail ==
    /\ faults < MaxFaults
    /\ faults' = faults + 1
    /\ UNCHANGED switches

SwitchUser(u) ==
    /\ Prompt
    /\ switches < MaxSwitches
    /\ switches' = switches + 1
    /\ u # console
    /\ console' = u
    /\ UNCHANGED <<faults, server, link, requests, answers, peers, daemon, receiver>>

\* What is on the way to u is lost with its connection.
WithoutAnswers(u) == [c \in Connections |-> IF c[1] = u THEN <<>> ELSE answers[c]]

BreakConnection(u) ==
    /\ Fail
    /\ link[u] # 0
    /\ link' = [link EXCEPT ![u] = 0]
    /\ server' = [server EXCEPT ![u] = connection_not_ready(@)]
    /\ answers' = WithoutAnswers(u)
    /\ UNCHANGED <<console, requests, peers, daemon, receiver>>

\* The console_user_server crashes and is started again by launchd.
RestartServer(u) ==
    /\ Fail
    /\ server' = [server EXCEPT ![u] = NewServer]
    /\ link' = [link EXCEPT ![u] = 0]
    /\ receiver' = WithoutClient(u, receiver)
    /\ answers' = WithoutAnswers(u)
    /\ UNCHANGED <<console, requests, peers, daemon>>

\* The daemon is restarted, or rebuilds its components after sleep.
RestartDaemon ==
    /\ Fail
    /\ daemon' = NewDaemon /\ receiver' = NewReceiver(NoUser)
    /\ link' = [u \in Users |-> 0]
    /\ peers' = [c \in Connections |-> "closed"]
    /\ requests' = [c \in Connections |-> <<>>]
    /\ server' = [u \in Users |-> connection_not_ready(
            IF server[u].client = "connected" THEN [server[u] EXCEPT !.client = "connecting"]
                                              ELSE server[u])]
    /\ answers' = [c \in Connections |-> <<>>]
    /\ UNCHANGED console

-----------------------------------------------------------------------------
Work ==
    \/ \E u \in Users : OnConsoleChanged(u) \/ Connect(u) \/ Receive(u) \/ ClientConnected(u)
    \/ \E c \in Connections : HandleRequest(c) \/ PeerClosed(c)
    \/ RunTask \/ ReceiverBound \/ StartDeviceGrabber \/ ReceiverPeerClosed

Next ==
    \/ Work
    \/ \E u \in OptionalUsers : SwitchUser(u)
    \/ \E u \in Users : BreakConnection(u) \/ RestartServer(u)
    \/ RestartDaemon

\* The dispatchers run, the monitors poll and the clients go on connecting.
Fairness == WF_session_vars(Work)

Spec == Init /\ [][Next]_session_vars /\ Fairness

-----------------------------------------------------------------------------
\* A console_user_server that counts its request as accepted is registered
\* with that very state in the daemon (take_core_service_daemon_server_bound_action:
\* "has been acknowledged and its peer state is registered in the daemon").
AcceptedMeansRegistered ==
    \A u \in Users : server[u].accepted =>
        /\ link[u] # 0
        /\ peers[<<u, link[u]>>] = server[u].on_console

\* Once users no longer switch and nothing breaks, the user on the console
\* gets a device_grabber and nobody else is connected for one, whatever
\* happened before (components_manager of both processes).
Served ==
    /\ receiver.grabber = console
    /\ console # NoUser => server[console].client = "connected" /\ receiver.peer = "open"
    /\ \A u \in Users \ {console} : server[u].client = "none"

ConsoleUserIsServed == <>[]Served
=============================================================================
