---------------------------- MODULE ServicesProofs ----------------------------
(***************************************************************************)
(* Proofs about the processes of a session: for any users, any number of   *)
(* crashes, switches and sleeps, and any configurations.                   *)
(***************************************************************************)
EXTENDS MCServices, TLAPS

(* Fast user switching: what is on the way between a console_user_server    *)
(* and the daemon.                                                          *)

NoResponse(s) == \A i \in DOMAIN s : s[i].type # "response"

\* s has one response, to request v.
OneResponse(s, v) ==
    \E i \in DOMAIN s :
        /\ s[i].type = "response" /\ s[i].request = v
        /\ \A j \in DOMAIN s : j # i => s[j].type # "response"

\* A request under way on connection c has not been received, or was received
\* last and its response is on the way back.
UnderWay(c) ==
    \/ (\E v \in {"on", "off"} : session_requests[c] = <<v>>) /\ NoResponse(answers[c])
    \/ session_requests[c] = <<>> /\ OneResponse(answers[c], peers[c])

Silent(c) == session_requests[c] = <<>> /\ NoResponse(answers[c])

\* The connection of u carries at most one request.
OneRequest(u) ==
    LET c == <<u, session_link[u]>>
    IN  session_link[u] # 0 =>
            /\ peers[c] # "closed"
            /\ IF server[u].in_flight THEN UnderWay(c) ELSE Silent(c)

\* A connection that is gone carries nothing.
NothingLost ==
    \A c \in users!Connections :
        /\ session_link[c[1]] # c[2] => answers[c] = <<>>
        /\ peers[c] = "closed" => session_requests[c] = <<>>

\* What console_user_id_changed_client_state remembers.
StateOfServer(u) ==
    LET s == server[u]
    IN  /\ s.ready <=> session_link[u] # 0
        /\ s.in_flight => s.ready
        /\ s.pending \in {"none", s.on_console}
        /\ s.accepted => /\ s.ready /\ ~ s.in_flight /\ s.pending = "none"
                         /\ peers[<<u, session_link[u]>>] = s.on_console

UserInvariant(u) == OneRequest(u) /\ StateOfServer(u)

SessionInvariant == users!TypeOK /\ NothingLost /\ \A u \in Users : UserInvariant(u)

(* Sleep.                                                                   *)

SleepInvariant ==
    /\ process \in [{"daemon", "agent"} ->
           [up : BOOLEAN, components : BOOLEAN, termination_requested : BOOLEAN,
            notified : BOOLEAN, pending : BOOLEAN, acknowledged : BOOLEAN]]
    /\ \A p \in {"daemon", "agent"} :
        /\ process[p].components => process[p].up
        /\ process[p].pending \/ process[p].acknowledged => ~ process[p].components
        /\ process[p].notified => process[p].components

(* karabiner.json.                                                          *)

File == [kind : {"valid"}, version : Nat] \cup [kind : {"missing", "broken", "unreadable"}, version : {0}]
Loadable == [kind : {"valid"}, version : Nat] \cup [kind : {"missing"}, version : {0}]
Configuration == Loadable \cup [kind : {"nothing"}, version : {0}]
Body == Loadable \cup [kind : {"broken"}, version : {0}]

MonitorTask ==
    [name : {"file_changed"}, path : {"user", "system"}, file : Body]
    \cup [name : {"load_state_changed"}, path : {"loaded", "broken", "unreadable"},
          file : {files!Nothing}]
    \cup [name : {"core_configuration_updated"}, path : {"none"}, file : Loadable]

MonitorEvent == [path : {"user", "system"}, own : BOOLEAN]

Monitor ==
    [running : BOOLEAN, events : Seq(MonitorEvent), bodies : [{"user", "system"} -> Body],
     tasks : Seq(MonitorTask), removal : {"none", "user", "system"},
     load_state : {"none", "loaded", "broken", "unreadable"}, current : Configuration]

FileTypes ==
    /\ user_file \in File /\ system_file \in File /\ last_valid \in File
    /\ version \in Nat
    /\ monitor \in [files!Processes -> Monitor]
    /\ client \in [files!Processes -> Configuration]

\* Task t takes the configuration away from the menu.
TakesAway(t) == t.name = "load_state_changed" /\ t.path # "loaded"

Announces(t) == t.name = "core_configuration_updated"

\* After task i a configuration stays.
StaysAfter(tasks, i) ==
    /\ Announces(tasks[i])
    /\ \A j \in DOMAIN tasks : i < j => ~ TakesAway(tasks[j])

\* Who has c has a configuration when the tasks have run.
EndsWithConfiguration(tasks, c) ==
    \/ c # files!Nothing /\ \A i \in DOMAIN tasks : ~ TakesAway(tasks[i])
    \/ \E i \in DOMAIN tasks : StaysAfter(tasks, i)

\* A process that does not run, or has not loaded anything yet, has nothing; one
\* that has loaded its configuration has it, or will when its tasks have run.
MonitorInvariant(m, c) ==
    /\ ~ m.running => m = files!NoMonitor /\ c = files!Nothing
    /\ m.load_state = "none" =>
           /\ c = files!Nothing /\ m.current = files!Nothing
           /\ \A i \in DOMAIN m.tasks : m.tasks[i].name = "file_changed"
    /\ m.load_state = "loaded" => EndsWithConfiguration(m.tasks, c)

\* The changes m still has to hear of are removals.
HearsOfRemovals(m) ==
    \A i \in DOMAIN m.tasks : m.tasks[i].name = "file_changed" => m.tasks[i].file = files!Missing

\* While the only file is replaced, nobody has still to hear of one that was there.
NothingStale ==
    replacing /\ ~ files!Exists(user_file) /\ ~ files!Exists(system_file) =>
        \A p \in files!Processes : HearsOfRemovals(monitor[p])

FilesInvariant ==
    /\ FileTypes
    /\ \A p \in files!Processes : MonitorInvariant(monitor[p], client[p])
    /\ client["cli"] = files!Nothing
    /\ NothingStale

-----------------------------------------------------------------------------
(* Sleep: both processes give up their components before they acknowledge.   *)

\* At first nobody sleeps.
LEMMA AwakeAtFirst == Init => SleepInvariant
BY DEF Init, processes!Init, processes!Processes, processes!NewProcess, SleepInvariant

\* No operation of a process leaves components behind an acknowledgement.
LEMMA SleepStep ==
    ASSUME SleepInvariant, processes!Next
    PROVE  SleepInvariant'
<1> USE DEF SleepInvariant, processes!Processes
<1>1. ASSUME NEW p \in {"daemon", "agent"}, processes!Terminates(p)
      PROVE  SleepInvariant'
    BY <1>1 DEF processes!Terminates
<1>2. ASSUME processes!CheckPermissions \/ processes!DaemonReceivesResult
      PROVE  SleepInvariant'
    <2>1. process' = process \/ processes!Terminates("agent") \/ processes!Terminates("daemon")
        BY <1>2 DEF processes!CheckPermissions, processes!DaemonReceivesResult
    <2> QED
        BY <1>1, <2>1
<1>3. ASSUME NEW p \in {"daemon", "agent"}, processes!Terminate(p) \/ processes!Crash(p)
      PROVE  SleepInvariant'
    <2>1. process' = [process EXCEPT ![p] = processes!NewProcess(FALSE)]
        BY <1>3 DEF processes!Terminate, processes!Crash
    <2> QED
        BY <2>1 DEF processes!NewProcess
<1>4. ASSUME NEW p \in {"daemon", "agent"}, processes!Launch(p)
      PROVE  SleepInvariant'
    BY <1>4 DEF processes!Launch, processes!NewProcess
<1>5. ASSUME NEW p \in {"daemon", "agent"}, processes!SystemWillSleep(p)
      PROVE  SleepInvariant'
    <2>1. process' = [process EXCEPT ![p] = processes!stopped(@)]
        BY <1>5 DEF processes!SystemWillSleep
    <2> QED
        BY <2>1 DEF processes!stopped
<1>6. ASSUME NEW p \in {"daemon", "agent"}, processes!acknowledge_pending_system_sleep(p)
      PROVE  SleepInvariant'
    BY <1>6 DEF processes!acknowledge_pending_system_sleep
<1>7. ASSUME NEW p \in {"daemon", "agent"}, processes!SystemWakes(p)
      PROVE  SleepInvariant'
    BY <1>7 DEF processes!SystemWakes
<1>8. ASSUME processes!Sleep
      PROVE  SleepInvariant'
    BY <1>8 DEF processes!Sleep
<1>9. ASSUME UNCHANGED process
      PROVE  SleepInvariant'
    BY <1>9
<1> QED
    BY <1>1, <1>2, <1>3, <1>4, <1>5, <1>6, <1>7, <1>8, <1>9
    DEF processes!Next, processes!Work, processes!Connect, processes!FallAsleep, processes!WakeUp,
        processes!ChangePermission, processes!RequestRefresh, processes!BreakConnection

\* A process that has let the system sleep has no components, however often it
\* crashed, was terminated or was notified (process_lifecycle_manager).
THEOREM SleepersHaveStopped == Spec => []AcknowledgedMeansStopped
<1>1. Init => SleepInvariant
    BY AwakeAtFirst
<1>2. SleepInvariant /\ [Next]_vars => SleepInvariant'
    <2> SUFFICES ASSUME SleepInvariant, [Next]_vars
                 PROVE  SleepInvariant'
        OBVIOUS
    <2>1. CASE InProcesses(processes!Next)
        BY <2>1, SleepStep DEF InProcesses
    <2>2. CASE UNCHANGED process
        BY <2>2 DEF SleepInvariant
    <2> QED
        BY <2>1, <2>2 DEF Next, InSession, InFiles, vars, lifecycle_vars
<1>3. SleepInvariant => AcknowledgedMeansStopped
    BY DEF SleepInvariant, AcknowledgedMeansStopped, processes!AcknowledgedMeansStopped, processes!Processes
<1> QED
    BY <1>1, <1>2, <1>3, PTL DEF Spec

-----------------------------------------------------------------------------
(* Sequences of answers.                                                     *)

\* Dropping the first answer leaves the others.
LEMMA NoResponseTail ==
    ASSUME NEW S, NEW s \in Seq(S), s # <<>>, NoResponse(s)
    PROVE  NoResponse(Tail(s))
BY DEF NoResponse

\* Two sequences without a response make one without.
LEMMA NoResponseJoined ==
    ASSUME NEW S, NEW s \in Seq(S), NEW t \in Seq(S), NoResponse(s), NoResponse(t)
    PROVE  NoResponse(s \o t)
BY DEF NoResponse

\* The only response of a sequence is its first answer, or is behind it.
LEMMA OneResponseTail ==
    ASSUME NEW S, NEW s \in Seq(S), s # <<>>, NEW v, OneResponse(s, v)
    PROVE  IF Head(s).type = "response" THEN Head(s).request = v /\ NoResponse(Tail(s))
           ELSE OneResponse(Tail(s), v)
<1>1. PICK i \in DOMAIN s : /\ s[i].type = "response" /\ s[i].request = v
                            /\ \A j \in DOMAIN s : j # i => s[j].type # "response"
    BY DEF OneResponse
<1>2. Head(s) = s[1] /\ 1 \in DOMAIN s
    OBVIOUS
<1>3. /\ \A k \in DOMAIN Tail(s) : k + 1 \in DOMAIN s /\ Tail(s)[k] = s[k + 1] /\ k \in Nat \ {0}
      /\ \A k \in DOMAIN s : k # 1 => k - 1 \in DOMAIN Tail(s)
    OBVIOUS
<1>4. CASE Head(s).type = "response"
    <2>1. i = 1
        BY <1>1, <1>2, <1>4
    <2> QED
        BY <1>1, <1>2, <1>3, <1>4, <2>1 DEF NoResponse
<1>5. CASE Head(s).type # "response"
    <2>1. i # 1 /\ i - 1 \in DOMAIN Tail(s) /\ Tail(s)[i - 1] = s[i]
        BY <1>1, <1>2, <1>3, <1>5
    <2>2. ASSUME NEW k \in DOMAIN Tail(s), k # i - 1
          PROVE  Tail(s)[k].type # "response"
        BY <1>1, <1>3, <2>1, <2>2
    <2> QED
        BY <1>1, <1>5, <2>1, <2>2 DEF OneResponse
<1> QED
    BY <1>4, <1>5

\* A response, and what follows it, is added to a sequence without one.
LEMMA ResponseAdded ==
    ASSUME NEW S, NEW s \in Seq(S), NEW t \in Seq(S), NoResponse(s), NoResponse(t),
           NEW m \in S, m.type = "response"
    PROVE  OneResponse(s \o <<m>> \o t, m.request)
<1> DEFINE all == s \o <<m>> \o t
           i == Len(s) + 1
<1>1. /\ i \in DOMAIN all /\ all[i] = m
      /\ \A j \in DOMAIN all : \/ j = i
                               \/ j \in DOMAIN s /\ all[j] = s[j]
                               \/ j - i \in DOMAIN t /\ all[j] = t[j - i]
    OBVIOUS
<1> HIDE DEF all
<1>2. OneResponse(all, m.request)
    BY <1>1 DEF OneResponse, NoResponse
<1> QED
    BY <1>2 DEF all

\* Answers that are no responses follow the only one.
LEMMA ResponseStays ==
    ASSUME NEW S, NEW s \in Seq(S), NEW t \in Seq(S), NoResponse(t), NEW v, OneResponse(s, v)
    PROVE  OneResponse(s \o t, v)
<1> DEFINE all == s \o t
<1>1. /\ \A j \in DOMAIN s : j \in DOMAIN all /\ all[j] = s[j]
      /\ \A j \in DOMAIN all : \/ j \in DOMAIN s /\ all[j] = s[j]
                               \/ j - Len(s) \in DOMAIN t /\ all[j] = t[j - Len(s)]
    OBVIOUS
<1> HIDE DEF all
<1>2. PICK i \in DOMAIN s : /\ s[i].type = "response" /\ s[i].request = v
                            /\ \A j \in DOMAIN s : j # i => s[j].type # "response"
    BY DEF OneResponse
<1>3. ASSUME NEW j \in DOMAIN all, j # i
      PROVE  all[j].type # "response"
    BY <1>1, <1>2, <1>3 DEF NoResponse
<1>4. OneResponse(all, v)
    BY <1>1, <1>2, <1>3 DEF OneResponse
<1> QED
    BY <1>4 DEF all

-----------------------------------------------------------------------------
(* The state of a console_user_server.                                       *)

\* What the requests of a console_user_server depend on.
SameRequests(s, t) ==
    /\ s.on_console = t.on_console /\ s.ready = t.ready /\ s.pending = t.pending
    /\ s.in_flight = t.in_flight /\ s.accepted = t.accepted

\* Every event leaves a state of the type.
LEMMA ServerTypes ==
    ASSUME NEW s \in users!Server, NEW v \in {"none", "on", "off"}
    PROVE  /\ users!console_user_id_changed(s, v) \in users!Server
           /\ users!connection_not_ready(s) \in users!Server
           /\ users!connected(s) \in users!Server
           /\ users!request_succeeded(s, v) \in users!Server
           /\ \A b \in BOOLEAN : [s EXCEPT !.in_flight = b] \in users!Server
           /\ \A x \in {"none", "connecting", "connected"} : [s EXCEPT !.client = x] \in users!Server
BY DEF users!Server, users!console_user_id_changed, users!connection_not_ready, users!connected,
       users!request_succeeded

\* server_bound changes nothing of the requests.
LEMMA BoundKeepsRequests ==
    ASSUME NEW s \in users!Server, NEW u \in Users
    PROVE  /\ users!NotifyBound(u, s) \in users!Server
           /\ SameRequests(users!NotifyBound(u, s), s)
           /\ \A m \in users!OptionalUsers :
                /\ [s EXCEPT !.bound = <<m>>] \in users!Server
                /\ SameRequests([s EXCEPT !.bound = <<m>>], s)
<1>1. users!NotifyBound(u, s) \in users!Server /\ SameRequests(users!NotifyBound(u, s), s)
    BY DEF users!Server, users!NotifyBound, SameRequests
<1>2. ASSUME NEW m \in users!OptionalUsers
      PROVE  /\ [s EXCEPT !.bound = <<m>>] \in users!Server
             /\ SameRequests([s EXCEPT !.bound = <<m>>], s)
    BY DEF users!Server, SameRequests
<1> QED
    BY <1>1, <1>2

\* Nor does what becomes of the client.
LEMMA ClientKeepsRequests ==
    ASSUME NEW s \in users!Server, NEW x \in {"none", "connecting", "connected"}
    PROVE  SameRequests([s EXCEPT !.client = x], s)
BY DEF users!Server, SameRequests

\* What becomes of u, in state s, and of its connection i.
Delivered(u, i, s) ==
    /\ server' \in [Users -> users!Server]
    /\ session_requests' \in [users!Connections -> Seq({"on", "off"})]
    /\ \A v \in Users : v # u => server'[v] = server[v]
    /\ \A c \in users!Connections : c # <<u, i>> => session_requests'[c] = session_requests[c]
    /\ IF users!can_take_request(s)
       THEN /\ server'[u] = [s EXCEPT !.in_flight = TRUE]
            /\ session_requests'[<<u, i>>] = Append(session_requests[<<u, i>>], s.pending)
       ELSE server'[u] = s /\ session_requests' = session_requests

\* Delivering is about one user and one connection.
LEMMA DeliverTypes ==
    ASSUME users!TypeOK, NEW u \in Users, NEW i \in 1..2, NEW s \in users!Server,
           users!Deliver(u, i, s)
    PROVE  Delivered(u, i, s)
<1> DEFINE c == <<u, i>>
           t == IF users!can_take_request(s) THEN [s EXCEPT !.in_flight = TRUE] ELSE s
<1>1. c \in users!Connections
    BY DEF users!Connections
<1>2. t \in users!Server
    BY ServerTypes
<1>3. server' = [server EXCEPT ![u] = t] /\ server \in [Users -> users!Server]
    BY DEF users!Deliver, users!TypeOK
<1>4. users!can_take_request(s) => s.pending \in {"on", "off"}
    BY DEF users!can_take_request, users!Server
<1>5. /\ session_requests \in [users!Connections -> Seq({"on", "off"})]
      /\ session_requests' = IF users!can_take_request(s)
                             THEN [session_requests EXCEPT ![c] = Append(@, s.pending)]
                             ELSE session_requests
    BY DEF users!Deliver, users!TypeOK
<1> HIDE DEF c
<1>6. /\ session_requests' \in [users!Connections -> Seq({"on", "off"})]
      /\ \A d \in users!Connections : d # c => session_requests'[d] = session_requests[d]
      /\ users!can_take_request(s) =>
             session_requests'[c] = Append(session_requests[c], s.pending)
      /\ ~ users!can_take_request(s) => session_requests' = session_requests
    BY <1>1, <1>4, <1>5
<1>7. server' \in [Users -> users!Server] /\ server'[u] = t /\ \A v \in Users : v # u => server'[v] = server[v]
    BY <1>2, <1>3
<1> QED
    BY <1>6, <1>7 DEF c, Delivered

\* The dispatcher of the daemon keeps its type.
LEMMA DaemonTypes ==
    ASSUME NEW d \in users!Daemon, NEW value \in users!OptionalUsers
    PROVE  /\ users!update_current_console_user_id(d, value) \in users!Daemon
           /\ \A states : users!LeaveConsole(d, states, value) \in users!Daemon
           /\ \A t \in [type : {"changed", "bound"}, uid : users!OptionalUsers, latest : BOOLEAN] :
                [d EXCEPT !.tasks = Append(users!Outdated(@), t)] \in users!Daemon
<1> DEFINE T == [type : {"changed", "bound"}, uid : users!OptionalUsers, latest : BOOLEAN]
           outdated == users!Outdated(d.tasks)
           D == [current : users!OptionalUsers, is_bound : BOOLEAN, bound_uid : users!OptionalUsers,
                 tasks : Seq(T)]
<1>1. users!Daemon = D /\ NoUser \in users!OptionalUsers
    BY DEF users!Daemon, users!OptionalUsers
<1>2. outdated \in Seq(T)
    <2>1. d.tasks \in Seq(T)
        BY <1>1
    <2>2. ASSUME NEW i \in DOMAIN d.tasks
          PROVE  [d.tasks[i] EXCEPT !.latest = FALSE] \in T
        <3>1. \A t \in T : [t EXCEPT !.latest = FALSE] \in T
            OBVIOUS
        <3>2. d.tasks[i] \in T
            <4> HIDE DEF T
            <4> QED
                BY <2>1
        <3> QED
            BY <3>1, <3>2
    <2>3. DOMAIN d.tasks = 1..Len(d.tasks) /\ Len(d.tasks) \in Nat
        BY <2>1
    <2> HIDE DEF T
    <2> QED
        BY <2>1, <2>2, <2>3 DEF users!Outdated
<1>3. \A t \in T : Append(outdated, t) \in Seq(T)
    BY <1>2
<1>4. \A v \in users!OptionalUsers : [type |-> "changed", uid |-> v, latest |-> FALSE] \in T
    OBVIOUS
<1> HIDE DEF T
<1>5. \A t \in T : [d EXCEPT !.tasks = Append(outdated, t)] \in D
    BY <1>1, <1>3
<1> HIDE DEF outdated
<1>6. \A v \in users!OptionalUsers : \A q \in Seq(T) :
        [d EXCEPT !.current = v, !.is_bound = FALSE, !.tasks = q] \in D
    BY <1>1
<1>7. \A v \in users!OptionalUsers : users!update_current_console_user_id(d, v) \in D
    BY <1>1, <1>3, <1>4, <1>6 DEF users!update_current_console_user_id, outdated
<1>8. \A states : users!LeaveConsole(d, states, value) \in D
    BY <1>1, <1>7 DEF users!LeaveConsole
<1> QED
    BY <1>1, <1>5, <1>7, <1>8 DEF T, outdated

-----------------------------------------------------------------------------
(* Users an operation is not about.                                          *)

\* Nothing that the requests of u depend on changes.
Unaffected(u) ==
    LET c == <<u, session_link[u]>>
    IN  /\ session_link'[u] = session_link[u]
        /\ SameRequests(server'[u], server[u])
        /\ session_link[u] # 0 =>
            /\ session_requests'[c] = session_requests[c]
            /\ answers'[c] = answers[c]
            /\ peers'[c] = peers[c]

\* What holds for such a user goes on to hold.
LEMMA UnaffectedUser ==
    ASSUME NEW u \in Users, UserInvariant(u), Unaffected(u)
    PROVE  UserInvariant(u)'
<1> DEFINE c == <<u, session_link[u]>>
<1>1. session_link[u] # 0 => /\ UnderWay(c)' <=> UnderWay(c)
                             /\ Silent(c)' <=> Silent(c)
    BY DEF Unaffected, UnderWay, Silent
<1>2. OneRequest(u)'
    BY <1>1 DEF Unaffected, UserInvariant, OneRequest, SameRequests
<1>3. StateOfServer(u)'
    BY DEF Unaffected, UserInvariant, StateOfServer, SameRequests
<1> QED
    BY <1>2, <1>3 DEF UserInvariant

\* When nobody's requests are affected and nothing is sent, nothing is lost.
LEMMA NobodyAffected ==
    ASSUME SessionInvariant, \A u \in Users : Unaffected(u),
           UNCHANGED <<session_requests, answers, peers>>
    PROVE  NothingLost' /\ \A u \in Users : UserInvariant(u)'
<1>1. NothingLost'
    BY DEF NothingLost, SessionInvariant, Unaffected, users!Connections
<1> QED
    BY <1>1, UnaffectedUser DEF SessionInvariant

\* The receiver of the daemon, and who is on the console, are of no concern.
LEMMA ReceiverKeepsSession ==
    ASSUME SessionInvariant,
           \/ users!ReceiverBound \/ users!StartDeviceGrabber \/ users!ReceiverPeerClosed
           \/ \E u \in users!OptionalUsers : users!SwitchUser(u)
    PROVE  SessionInvariant'
<1>1. UNCHANGED <<server, session_link, session_requests, answers, peers>>
    BY DEF users!ReceiverBound, users!StartDeviceGrabber, users!ReceiverPeerClosed, users!SwitchUser
<1>2. \A u \in Users : Unaffected(u)
    BY <1>1 DEF Unaffected, SameRequests
<1>3. console' \in users!OptionalUsers
    BY DEF users!ReceiverBound, users!StartDeviceGrabber, users!ReceiverPeerClosed, users!SwitchUser,
           SessionInvariant, users!TypeOK
<1>4. receiver' \in users!Receiver
    <2>1. NoUser \in users!OptionalUsers
        BY DEF users!OptionalUsers
    <2> QED
        BY <2>1 DEF users!ReceiverBound, users!StartDeviceGrabber, users!ReceiverPeerClosed,
                    users!SwitchUser, SessionInvariant, users!TypeOK, users!Receiver
<1>5. session_daemon' \in users!Daemon
    <2>1. CASE users!ReceiverBound
        <3> DEFINE yes == TRUE
                   t == [type |-> "bound", uid |-> receiver.uid, latest |-> yes]
        <3>0. yes \in BOOLEAN
            OBVIOUS
        <3> HIDE DEF yes
        <3>1. t \in [type : {"changed", "bound"}, uid : users!OptionalUsers, latest : BOOLEAN]
            BY <3>0 DEF SessionInvariant, users!TypeOK, users!Receiver
        <3> HIDE DEF t
        <3>2. [session_daemon EXCEPT !.tasks = Append(users!Outdated(@), t)] \in users!Daemon
            BY <3>1, DaemonTypes DEF SessionInvariant, users!TypeOK
        <3> QED
            BY <2>1, <3>2 DEF users!ReceiverBound, t, yes
    <2> QED
        BY <2>1 DEF users!StartDeviceGrabber, users!ReceiverPeerClosed, users!SwitchUser,
                    SessionInvariant, users!TypeOK
<1>6. users!TypeOK'
    BY <1>1, <1>3, <1>4, <1>5 DEF SessionInvariant, users!TypeOK
<1> QED
    BY <1>1, <1>2, <1>6, NobodyAffected DEF SessionInvariant

\* A client that connects takes part in no request.
LEMMA ClientConnectedKeepsSession ==
    ASSUME SessionInvariant, NEW u \in Users, users!ClientConnected(u)
    PROVE  SessionInvariant'
<1>1. server \in [Users -> users!Server]
    BY DEF SessionInvariant, users!TypeOK
<1>2. server[u] \in users!Server /\ server' = [server EXCEPT ![u] = [@ EXCEPT !.client = "connected"]]
    BY <1>1 DEF users!ClientConnected
<1>3. /\ [server[u] EXCEPT !.client = "connected"] \in users!Server
      /\ SameRequests([server[u] EXCEPT !.client = "connected"], server[u])
    BY <1>2, ServerTypes DEF SameRequests, users!Server
<1>4. server' \in [Users -> users!Server] /\ \A v \in Users : SameRequests(server'[v], server[v])
    BY <1>1, <1>2, <1>3 DEF SameRequests
<1>5. /\ UNCHANGED <<console, session_link, session_requests, answers, peers, session_daemon>>
      /\ receiver' = [receiver EXCEPT !.start = TRUE]
    BY DEF users!ClientConnected
<1>6. receiver' \in users!Receiver
    BY <1>5 DEF SessionInvariant, users!TypeOK, users!Receiver
<1>7. users!TypeOK'
    BY <1>4, <1>5, <1>6 DEF SessionInvariant, users!TypeOK
<1>8. \A v \in Users : Unaffected(v)
    BY <1>4, <1>5 DEF Unaffected
<1> QED
    BY <1>5, <1>7, <1>8, NobodyAffected DEF SessionInvariant

\* The tasks of the daemon: a receiver is replaced, or its socket is announced
\* to whoever is connected.
LEMMA RunTaskKeepsSession ==
    ASSUME SessionInvariant, users!RunTask
    PROVE  SessionInvariant'
<1> DEFINE T == [type : {"changed", "bound"}, uid : users!OptionalUsers, latest : BOOLEAN]
           task == Head(session_daemon.tasks)
           rest == [session_daemon EXCEPT !.tasks = Tail(@)]
<1>1. /\ session_daemon \in users!Daemon /\ server \in [Users -> users!Server]
      /\ answers \in [users!Connections -> Seq(users!Message)]
    BY DEF SessionInvariant, users!TypeOK
<1>2. task \in T /\ rest \in users!Daemon
    <2>1. session_daemon.tasks \in Seq(T) /\ session_daemon.tasks # <<>>
        BY <1>1 DEF users!Daemon, users!RunTask
    <2>2. task \in T /\ Tail(session_daemon.tasks) \in Seq(T)
        <3> HIDE DEF T
        <3> QED
            BY <2>1
    <2> QED
        BY <1>1, <2>2 DEF users!Daemon
<1>3. UNCHANGED <<console, session_link, session_requests, peers>>
    BY DEF users!RunTask
<1> HIDE DEF rest
<1>4. CASE task.type = "changed"
    <2>1. /\ session_daemon' = rest /\ UNCHANGED answers
          /\ receiver' = users!NewReceiver(task.uid)
          /\ server' = [u \in Users |-> IF server[u].client = "connected"
                                       THEN [server[u] EXCEPT !.client = "connecting"] ELSE server[u]]
        BY <1>4 DEF users!RunTask, users!ReplaceReceiver, rest
    <2>2. receiver' \in users!Receiver
        BY <1>2, <2>1 DEF users!NewReceiver, users!Receiver, users!OptionalUsers
    <2>3. ASSUME NEW u \in Users
          PROVE  server'[u] \in users!Server /\ SameRequests(server'[u], server[u])
        <3>1. server[u] \in users!Server /\ SameRequests(server[u], server[u])
            BY <1>1 DEF SameRequests
        <3>2. /\ [server[u] EXCEPT !.client = "connecting"] \in users!Server
              /\ SameRequests([server[u] EXCEPT !.client = "connecting"], server[u])
            BY <3>1, ServerTypes, ClientKeepsRequests
        <3>3. server'[u] = IF server[u].client = "connected"
                           THEN [server[u] EXCEPT !.client = "connecting"] ELSE server[u]
            BY <2>1
        <3> QED
            BY <3>1, <3>2, <3>3
    <2>4. server' \in [Users -> users!Server]
        BY <2>1, <2>3
    <2>5. users!TypeOK'
        BY <1>2, <1>3, <2>1, <2>2, <2>4 DEF SessionInvariant, users!TypeOK
    <2>6. \A u \in Users : Unaffected(u)
        BY <1>3, <2>1, <2>3 DEF Unaffected
    <2> QED
        BY <1>3, <2>1, <2>5, <2>6, NobodyAffected DEF SessionInvariant
<1>5. CASE task.type # "changed"
    <2> DEFINE told == users!is_current_bound(task)
               m == users!bound_message(session_daemon')
    <2>1. /\ session_daemon' = IF told THEN [rest EXCEPT !.is_bound = TRUE, !.bound_uid = task.uid]
                               ELSE rest
          /\ answers' = [c \in users!Connections |->
                IF told /\ peers[c] # "closed" /\ session_link[c[1]] = c[2]
                THEN answers[c] \o m ELSE answers[c]]
          /\ UNCHANGED <<receiver, server>>
        BY <1>5 DEF users!RunTask, rest
    <2>2. session_daemon' \in users!Daemon
        <3> DEFINE yes == TRUE
        <3>0. yes \in BOOLEAN
            OBVIOUS
        <3> HIDE DEF yes
        <3>1. [rest EXCEPT !.is_bound = yes, !.bound_uid = task.uid] \in users!Daemon
            BY <1>2, <3>0 DEF users!Daemon
        <3> QED
            BY <1>2, <2>1, <3>1 DEF yes
    <2>3. m \in Seq(users!Message) /\ NoResponse(m)
        BY <2>2 DEF users!bound_message, users!Message, users!Daemon, NoResponse
    <2> HIDE DEF told, m
    <2>4. ASSUME NEW c \in users!Connections
          PROVE  /\ \/ answers'[c] = answers[c]
                    \/ answers'[c] = answers[c] \o m /\ session_link[c[1]] = c[2]
                 /\ answers'[c] \in Seq(users!Message)
        BY <1>1, <2>1, <2>3
    <2>5. answers' \in [users!Connections -> Seq(users!Message)]
        BY <2>1, <2>4
    <2>6. users!TypeOK'
        BY <1>3, <2>1, <2>2, <2>5 DEF SessionInvariant, users!TypeOK
    <2>7. NothingLost'
        BY <1>3, <2>4 DEF SessionInvariant, NothingLost, users!Connections
    <2>8. ASSUME NEW u \in Users
          PROVE  UserInvariant(u)'
        <3> DEFINE c == <<u, session_link[u]>>
        <3>1. UserInvariant(u)
            BY DEF SessionInvariant
        <3>2. StateOfServer(u)'
            BY <1>3, <2>1, <3>1 DEF UserInvariant, StateOfServer
        <3>3. session_link[u] # 0 => c \in users!Connections
            BY DEF SessionInvariant, users!TypeOK, users!Connections
        <3>4. ASSUME session_link[u] # 0
              PROVE  /\ NoResponse(answers[c]) => NoResponse(answers'[c])
                     /\ \A v : OneResponse(answers[c], v) => OneResponse(answers'[c], v)
            <4> HIDE DEF c
            <4>1. answers[c] \in Seq(users!Message)
                BY <1>1, <3>3, <3>4
            <4>2. NoResponse(answers[c]) => NoResponse(answers[c] \o m)
                BY <2>3, <4>1, NoResponseJoined
            <4>3. \A v : OneResponse(answers[c], v) => OneResponse(answers[c] \o m, v)
                BY <2>3, <4>1, ResponseStays
            <4> QED
                BY <2>4, <3>3, <3>4, <4>2, <4>3
        <3>5. session_link[u] # 0 => /\ UnderWay(c) => UnderWay(c)'
                                     /\ Silent(c) => Silent(c)'
            <4> HIDE DEF c
            <4>1. c' = c
                BY <1>3 DEF c
            <4> QED
                BY <1>3, <3>4, <4>1 DEF UnderWay, Silent
        <3>6. OneRequest(u)'
            BY <1>3, <2>1, <3>1, <3>5 DEF UserInvariant, OneRequest
        <3> QED
            BY <3>2, <3>6 DEF UserInvariant
    <2> QED
        BY <2>6, <2>7, <2>8 DEF SessionInvariant
<1> QED
    BY <1>4, <1>5

-----------------------------------------------------------------------------
(* What a console_user_server does.                                          *)

\* An operation of u, and on connections of u, does not affect the others.
LEMMA OthersUnaffected ==
    ASSUME NEW u \in Users, session_link \in [Users -> 0..2],
           \A v \in Users : v # u => server'[v] = server[v] /\ session_link'[v] = session_link[v],
           \A c \in users!Connections : c[1] # u =>
                /\ session_requests'[c] = session_requests[c]
                /\ answers'[c] = answers[c] /\ peers'[c] = peers[c]
    PROVE  \A v \in Users : v # u => Unaffected(v)
<1> SUFFICES ASSUME NEW v \in Users, v # u
             PROVE  Unaffected(v)
    OBVIOUS
<1> DEFINE c == <<v, session_link[v]>>
<1>1. session_link[v] # 0 => c \in users!Connections /\ c[1] # u
    BY DEF users!Connections
<1> QED
    BY <1>1 DEF Unaffected, SameRequests

\* The receiver notices that its client is gone.
LEMMA WithoutClientType ==
    ASSUME SessionInvariant, NEW u \in Users
    PROVE  users!WithoutClient(u, receiver) \in users!Receiver
BY DEF SessionInvariant, users!TypeOK, users!WithoutClient, users!Receiver

\* A change of the session is pending, or requested at once.
LEMMA OnConsoleChangedKeepsSession ==
    ASSUME SessionInvariant, NEW u \in Users, users!OnConsoleChanged(u)
    PROVE  SessionInvariant'
<1> DEFINE v == users!OnConsole(u)
           stopped == [server[u] EXCEPT !.on_console = v, !.client = "none"]
           s == users!console_user_id_changed(stopped, v)
<1>1. /\ users!TypeOK /\ NothingLost /\ UserInvariant(u)
      /\ server \in [Users -> users!Server] /\ session_link \in [Users -> 0..2]
      /\ session_requests \in [users!Connections -> Seq({"on", "off"})]
    BY DEF SessionInvariant, users!TypeOK
<1>2. PICK i \in 1..2 : i = IF session_link[u] = 0 THEN 1 ELSE session_link[u]
    <2>1. (IF session_link[u] = 0 THEN 1 ELSE session_link[u]) \in 1..2
        BY <1>1
    <2> QED
        BY <2>1
<1> DEFINE c == <<u, i>>
<1> c \in users!Connections
    BY DEF users!Connections
<1>3. v \in {"on", "off"}
    BY DEF users!OnConsole
<1>4. stopped \in users!Server
    <2>1. server[u] \in users!Server
        BY <1>1
    <2> HIDE DEF v
    <2> QED
        BY <1>3, <2>1 DEF users!Server
<1>5. /\ users!Deliver(u, i, s) /\ receiver' = users!WithoutClient(u, receiver)
      /\ UNCHANGED <<console, session_link, answers, peers, session_daemon>>
    BY <1>2 DEF users!OnConsoleChanged
<1>6. /\ s.on_console = v /\ s.pending = v /\ s.accepted = FALSE
      /\ s.ready = server[u].ready /\ s.in_flight = server[u].in_flight
    BY <1>1, <1>4 DEF users!console_user_id_changed, users!Server
<1>7. s \in users!Server
    BY <1>3, <1>4, ServerTypes
<1> HIDE DEF s, v
<1>8. Delivered(u, i, s)
    BY <1>1, <1>5, <1>7, DeliverTypes
<1>9. users!TypeOK'
    BY <1>1, <1>5, <1>8, WithoutClientType DEF users!TypeOK, Delivered
<1>10. users!can_take_request(s) <=> server[u].ready /\ ~ server[u].in_flight
    BY <1>3, <1>6 DEF users!can_take_request
<1>11. server[u].ready => session_link[u] # 0 /\ session_link[u] = i /\ peers[c] # "closed"
    BY <1>1, <1>2 DEF UserInvariant, StateOfServer, OneRequest
<1>12. NothingLost'
    BY <1>1, <1>5, <1>8, <1>10, <1>11 DEF NothingLost, Delivered
<1>13. \A w \in Users : w # u => Unaffected(w)
    <2>1. \A d \in users!Connections : d[1] # u =>
            /\ session_requests'[d] = session_requests[d]
            /\ answers'[d] = answers[d] /\ peers'[d] = peers[d]
        BY <1>5, <1>8 DEF Delivered
    <2>2. \A w \in Users : w # u => server'[w] = server[w] /\ session_link'[w] = session_link[w]
        BY <1>5, <1>8 DEF Delivered
    <2> QED
        BY <1>1, <2>1, <2>2, OthersUnaffected
<1>14. UserInvariant(u)'
    <2>1. CASE users!can_take_request(s)
        <3>1. Silent(c)
            BY <1>1, <1>10, <1>11, <2>1 DEF UserInvariant, OneRequest
        <3>2. session_requests'[c] = <<v>> /\ answers'[c] = answers[c]
            <4>1. session_requests[c] = <<>> /\ session_requests'[c] = Append(session_requests[c], v)
                BY <1>6, <1>8, <2>1, <3>1 DEF Silent, Delivered
            <4> QED
                BY <1>5, <4>1
        <3>3. UnderWay(c)'
            BY <1>3, <3>1, <3>2 DEF Silent, UnderWay
        <3>4. /\ server'[u].ready /\ server'[u].in_flight /\ server'[u].accepted = FALSE
              /\ server'[u].on_console = v /\ server'[u].pending = v
            BY <1>6, <1>7, <1>8, <1>10, <2>1 DEF users!Server, Delivered
        <3> QED
            BY <1>5, <1>10, <1>11, <2>1, <3>3, <3>4
            DEF UserInvariant, OneRequest, StateOfServer
    <2>2. CASE ~ users!can_take_request(s)
        <3>1. server'[u] = s /\ session_requests' = session_requests
            BY <1>8, <2>2 DEF Delivered
        <3>2. /\ UnderWay(c)' <=> UnderWay(c)
              /\ Silent(c)' <=> Silent(c)
            BY <1>5, <3>1 DEF UnderWay, Silent
        <3>3. OneRequest(u)
            BY <1>1 DEF UserInvariant
        <3>4. OneRequest(u)'
            BY <1>2, <1>5, <1>6, <3>1, <3>2, <3>3 DEF OneRequest
        <3>5. StateOfServer(u)
            BY <1>1 DEF UserInvariant
        <3>6. StateOfServer(u)'
            BY <1>3, <1>5, <1>6, <3>1, <3>5 DEF StateOfServer
        <3> QED
            BY <3>4, <3>6 DEF UserInvariant
    <2> QED
        BY <2>1, <2>2
<1> QED
    BY <1>9, <1>12, <1>13, <1>14, UnaffectedUser DEF SessionInvariant

\* The connection u gets, and what it does there first.
ConnectsOn(u, i) ==
    /\ peers[<<u, i>>] = "closed" /\ \A j \in 1..(i - 1) : peers[<<u, j>>] # "closed"
    /\ session_link' = [session_link EXCEPT ![u] = i]
    /\ peers' = [peers EXCEPT ![<<u, i>>] = "none"]
    /\ LET now == users!connected(server[u])
       IN  users!Deliver(u, i, IF now.on_console = "none" THEN now
                               ELSE users!console_user_id_changed(now, now.on_console))

\* A new connection starts with the present state of the session.
LEMMA ConnectKeepsSession ==
    ASSUME SessionInvariant, NEW u \in Users, users!Connect(u)
    PROVE  SessionInvariant'
<1> DEFINE now == users!connected(server[u])
           s == IF now.on_console = "none" THEN now
                ELSE users!console_user_id_changed(now, now.on_console)
<1>1. /\ users!TypeOK /\ NothingLost /\ UserInvariant(u)
      /\ server \in [Users -> users!Server] /\ session_link \in [Users -> 0..2]
      /\ session_requests \in [users!Connections -> Seq({"on", "off"})]
      /\ peers \in [users!Connections -> {"closed", "none", "on", "off"}]
    BY DEF SessionInvariant, users!TypeOK
<1>2. PICK i \in 1..2 : ConnectsOn(u, i)
    <2>1. \E i \in 1..2 : ConnectsOn(u, i)
        BY DEF users!Connect, ConnectsOn
    <2> QED
        BY <2>1
<1> DEFINE c == <<u, i>>
<1> c \in users!Connections
    BY DEF users!Connections
<1>3. /\ peers[c] = "closed" /\ session_link[u] = 0
      /\ session_link' = [session_link EXCEPT ![u] = i]
      /\ peers' = [peers EXCEPT ![c] = "none"]
      /\ users!Deliver(u, i, s)
      /\ UNCHANGED <<console, answers, session_daemon, receiver>>
    BY <1>2 DEF ConnectsOn, users!Connect
<1>4. now \in users!Server
    BY <1>1, ServerTypes
<1>5. /\ now.on_console = server[u].on_console /\ now.ready = TRUE /\ now.in_flight = FALSE
      /\ now.accepted = FALSE /\ now.pending = server[u].pending
    BY <1>1 DEF users!connected, users!connection_not_ready, users!Server
<1> HIDE DEF now
<1>6. s \in users!Server
    <2>1. now.on_console \in {"none", "on", "off"}
        BY <1>4 DEF users!Server
    <2> QED
        BY <1>4, <2>1, ServerTypes
<1>7. server[u].pending \in {"none", server[u].on_console}
    BY <1>1 DEF UserInvariant, StateOfServer
<1>8. /\ s.on_console = server[u].on_console /\ s.ready = TRUE /\ s.in_flight = FALSE
      /\ s.accepted = FALSE /\ s.pending = s.on_console
      /\ s.on_console \in {"none", "on", "off"}
    <2>1. CASE now.on_console = "none"
        BY <1>4, <1>5, <1>7, <2>1 DEF users!Server
    <2>2. CASE now.on_console # "none"
        BY <1>4, <1>5, <2>2 DEF users!Server, users!console_user_id_changed
    <2> QED
        BY <2>1, <2>2
<1> HIDE DEF s
<1>9. Delivered(u, i, s)
    BY <1>1, <1>3, <1>6, DeliverTypes
<1>10. /\ session_link' \in [Users -> 0..2] /\ session_link'[u] = i
       /\ \A v \in Users : v # u => session_link'[v] = session_link[v]
       /\ peers' \in [users!Connections -> {"closed", "none", "on", "off"}] /\ peers'[c] = "none"
       /\ \A d \in users!Connections : d # c => peers'[d] = peers[d]
    BY <1>1, <1>3
<1>11. users!TypeOK'
    BY <1>1, <1>3, <1>9, <1>10 DEF users!TypeOK, Delivered
<1>12. session_requests[c] = <<>> /\ answers[c] = <<>>
    BY <1>1, <1>3 DEF NothingLost
<1>13. NothingLost'
    <2>1. ASSUME NEW d \in users!Connections, session_link'[d[1]] # d[2]
          PROVE  answers'[d] = <<>>
        BY <1>1, <1>3, <1>10, <1>12, <2>1 DEF NothingLost, users!Connections
    <2>2. ASSUME NEW d \in users!Connections, peers'[d] = "closed"
          PROVE  session_requests'[d] = <<>>
        BY <1>1, <1>9, <1>10, <2>2 DEF NothingLost, Delivered
    <2> QED
        BY <2>1, <2>2 DEF NothingLost
<1>14. \A w \in Users : w # u => Unaffected(w)
    <2>1. \A d \in users!Connections : d[1] # u =>
            /\ session_requests'[d] = session_requests[d]
            /\ answers'[d] = answers[d] /\ peers'[d] = peers[d]
        BY <1>3, <1>9, <1>10 DEF Delivered
    <2>2. \A w \in Users : w # u => server'[w] = server[w] /\ session_link'[w] = session_link[w]
        BY <1>9, <1>10 DEF Delivered
    <2> QED
        BY <1>1, <2>1, <2>2, OthersUnaffected
<1>15. UserInvariant(u)'
    <2>1. NoResponse(answers[c])
        BY <1>12 DEF NoResponse
    <2>2. CASE users!can_take_request(s)
        <3>1. s.pending \in {"on", "off"}
            BY <1>8, <2>2 DEF users!can_take_request
        <3>2. session_requests'[c] = <<s.pending>> /\ answers'[c] = answers[c]
            <4>1. session_requests'[c] = Append(<<>>, s.pending)
                BY <1>9, <1>12, <2>2 DEF Delivered
            <4> QED
                BY <1>3, <4>1
        <3>3. UnderWay(c)'
            BY <2>1, <3>1, <3>2 DEF UnderWay
        <3>4. /\ server'[u].ready /\ server'[u].in_flight /\ server'[u].accepted = FALSE
              /\ server'[u].pending = server'[u].on_console
            BY <1>6, <1>8, <1>9, <2>2 DEF users!Server, Delivered
        <3> QED
            BY <1>10, <3>3, <3>4 DEF UserInvariant, OneRequest, StateOfServer
    <2>3. CASE ~ users!can_take_request(s)
        <3>1. server'[u] = s /\ session_requests' = session_requests
            BY <1>9, <2>3 DEF Delivered
        <3>2. Silent(c)'
            BY <1>3, <1>12, <2>1, <3>1 DEF Silent
        <3> QED
            BY <1>8, <1>10, <3>1, <3>2 DEF UserInvariant, OneRequest, StateOfServer
    <2> QED
        BY <2>2, <2>3
<1> QED
    BY <1>11, <1>13, <1>14, <1>15, UnaffectedUser DEF SessionInvariant

\* A response ends a request; what became pending meanwhile is requested next.
LEMMA ReceiveKeepsSession ==
    ASSUME SessionInvariant, NEW u \in Users, users!Receive(u)
    PROVE  SessionInvariant'
<1>1. /\ users!TypeOK /\ NothingLost /\ UserInvariant(u)
      /\ server \in [Users -> users!Server] /\ session_link \in [Users -> 0..2]
      /\ session_requests \in [users!Connections -> Seq({"on", "off"})]
      /\ answers \in [users!Connections -> Seq(users!Message)]
      /\ peers \in [users!Connections -> {"closed", "none", "on", "off"}]
    BY DEF SessionInvariant, users!TypeOK
<1>2. PICK i \in 1..2 : i = session_link[u]
    <2>1. session_link[u] \in 1..2
        BY <1>1 DEF users!Receive
    <2> QED
        BY <2>1
<1> DEFINE c == <<u, i>>
           m == Head(answers[c])
<1> c \in users!Connections
    BY DEF users!Connections
<1>3. /\ answers[c] # <<>> /\ answers' = [answers EXCEPT ![c] = Tail(@)]
      /\ UNCHANGED <<console, session_link, peers, session_daemon, receiver>>
    BY <1>2 DEF users!Receive
<1>4. /\ answers[c] \in Seq(users!Message) /\ m \in users!Message
      /\ Tail(answers[c]) \in Seq(users!Message)
    <2>1. answers[c] \in Seq(users!Message)
        BY <1>1
    <2> HIDE DEF c
    <2> QED
        BY <1>3, <2>1
<1>5. /\ answers' \in [users!Connections -> Seq(users!Message)]
      /\ answers'[c] = Tail(answers[c])
      /\ \A d \in users!Connections : d # c => answers'[d] = answers[d]
    BY <1>1, <1>3, <1>4
<1>6. /\ server[u].ready /\ peers[c] # "closed"
      /\ IF server[u].in_flight THEN UnderWay(c) ELSE Silent(c)
    BY <1>1, <1>2 DEF UserInvariant, OneRequest, StateOfServer
<1> HIDE DEF m
<1>7. CASE m.type = "bound"
    <2> DEFINE told == [server[u] EXCEPT !.bound = <<m.uid>>]
               s == users!NotifyBound(u, told)
    <2>1. /\ server' = [server EXCEPT ![u] = s] /\ UNCHANGED session_requests
        BY <1>2, <1>7 DEF users!Receive, m
    <2>2. m.uid \in users!OptionalUsers
        BY <1>4, <1>7 DEF users!Message
    <2>3. told \in users!Server /\ SameRequests(told, server[u])
        BY <1>1, <2>2, BoundKeepsRequests
    <2> HIDE DEF told
    <2>4. s \in users!Server /\ SameRequests(s, told)
        BY <2>3, BoundKeepsRequests
    <2> HIDE DEF s
    <2>5. /\ server' \in [Users -> users!Server] /\ server'[u] = s
          /\ \A w \in Users : w # u => server'[w] = server[w]
        BY <1>1, <2>1, <2>4
    <2>6. SameRequests(server'[u], server[u])
        BY <2>3, <2>4, <2>5 DEF SameRequests
    <2>7. users!TypeOK'
        BY <1>1, <1>3, <1>5, <2>1, <2>5 DEF users!TypeOK
    <2>8. NothingLost'
        BY <1>1, <1>2, <1>3, <1>5, <2>1 DEF NothingLost
    <2>9. \A w \in Users : w # u => Unaffected(w)
        <3>1. \A d \in users!Connections : d[1] # u =>
                /\ session_requests'[d] = session_requests[d]
                /\ answers'[d] = answers[d] /\ peers'[d] = peers[d]
            BY <1>3, <1>5, <2>1
        <3>2. \A w \in Users : w # u => server'[w] = server[w] /\ session_link'[w] = session_link[w]
            BY <1>3, <2>5
        <3> QED
            BY <1>1, <3>1, <3>2, OthersUnaffected
    <2>10. UserInvariant(u)'
        <3>1. NoResponse(answers[c]) => NoResponse(answers'[c])
            BY <1>3, <1>4, <1>5, NoResponseTail
        <3>2. OneResponse(answers[c], peers[c]) => OneResponse(answers'[c], peers[c])
            <4>1. m.type # "response"
                BY <1>7
            <4> HIDE DEF c
            <4> QED
                BY <1>3, <1>4, <1>5, <4>1, OneResponseTail DEF m
        <3>3. IF server[u].in_flight THEN UnderWay(c)' ELSE Silent(c)'
            BY <1>3, <1>6, <2>1, <3>1, <3>2 DEF UnderWay, Silent
        <3>4. OneRequest(u)'
            BY <1>2, <1>3, <1>6, <2>6, <3>3 DEF OneRequest, SameRequests
        <3>5. StateOfServer(u)'
            BY <1>1, <1>3, <2>6 DEF UserInvariant, StateOfServer, SameRequests
        <3> QED
            BY <3>4, <3>5 DEF UserInvariant
    <2> QED
        BY <2>7, <2>8, <2>9, <2>10, UnaffectedUser DEF SessionInvariant
<1>8. CASE m.type # "bound"
    <2> DEFINE done == users!request_succeeded(server[u], m.request)
               s == users!NotifyBound(u, done)
    <2>1. m.type = "response" /\ m.request \in {"on", "off"}
        BY <1>4, <1>8 DEF users!Message
    <2>2. users!Deliver(u, i, s)
        BY <1>2, <1>8 DEF users!Receive, m
    <2>3. /\ server[u].in_flight /\ session_requests[c] = <<>> /\ OneResponse(answers[c], peers[c])
        <3>1. ~ NoResponse(answers[c])
            <4>1. 1 \in DOMAIN answers[c] /\ answers[c][1] = m
                <5> HIDE DEF c
                <5> QED
                    BY <1>3, <1>4 DEF m
            <4> QED
                BY <2>1, <4>1 DEF NoResponse
        <3> QED
            BY <1>6, <3>1 DEF UnderWay, Silent
    <2>4. m.request = peers[c] /\ NoResponse(answers'[c])
        <3> HIDE DEF c
        <3> QED
            BY <1>3, <1>4, <1>5, <2>1, <2>3, OneResponseTail DEF m
    <2>5. server[u].pending \in {"none", server[u].on_console}
        BY <1>1 DEF UserInvariant, StateOfServer
    <2>6. server[u] \in users!Server
        BY <1>1
    <2>7. done \in users!Server
        BY <2>1, <2>6, ServerTypes
    <2>8. /\ done.ready /\ done.in_flight = FALSE /\ done.on_console = server[u].on_console
          /\ \/ done.accepted = TRUE /\ done.pending = "none" /\ done.on_console = m.request
             \/ done.accepted = server[u].accepted /\ done.pending = server[u].pending
        <3>1. CASE server[u].pending = m.request
            BY <1>6, <2>1, <2>5, <2>6, <3>1 DEF users!request_succeeded, users!Server
        <3>2. CASE server[u].pending # m.request
            BY <1>6, <2>6, <3>2 DEF users!request_succeeded, users!Server
        <3> QED
            BY <3>1, <3>2
    <2> HIDE DEF done
    <2>9. s \in users!Server /\ SameRequests(s, done)
        BY <2>7, BoundKeepsRequests
    <2> HIDE DEF s
    <2>10. ~ server[u].accepted
        BY <1>1, <2>3 DEF UserInvariant, StateOfServer
    <2>11. /\ s.ready /\ s.in_flight = FALSE /\ s.pending \in {"none", s.on_console}
           /\ s.accepted => s.pending = "none" /\ s.on_console = peers[c]
        BY <2>4, <2>5, <2>8, <2>9, <2>10 DEF SameRequests
    <2>12. Delivered(u, i, s)
        BY <1>1, <2>2, <2>9, DeliverTypes
    <2>13. users!TypeOK'
        BY <1>1, <1>3, <1>5, <2>12 DEF users!TypeOK, Delivered
    <2>14. NothingLost'
        <3>1. ASSUME NEW d \in users!Connections, session_link'[d[1]] # d[2]
              PROVE  answers'[d] = <<>>
            BY <1>1, <1>2, <1>3, <1>5, <3>1 DEF NothingLost
        <3>2. ASSUME NEW d \in users!Connections, peers'[d] = "closed"
              PROVE  session_requests'[d] = <<>>
            BY <1>1, <1>3, <1>6, <2>12, <3>2 DEF NothingLost, Delivered
        <3> QED
            BY <3>1, <3>2 DEF NothingLost
    <2>15. \A w \in Users : w # u => Unaffected(w)
        <3>1. \A d \in users!Connections : d[1] # u =>
                /\ session_requests'[d] = session_requests[d]
                /\ answers'[d] = answers[d] /\ peers'[d] = peers[d]
            BY <1>3, <1>5, <2>12 DEF Delivered
        <3>2. \A w \in Users : w # u => server'[w] = server[w] /\ session_link'[w] = session_link[w]
            BY <1>3, <2>12 DEF Delivered
        <3> QED
            BY <1>1, <3>1, <3>2, OthersUnaffected
    <2>16. UserInvariant(u)'
        <3>1. CASE users!can_take_request(s)
            <4>1. s.pending \in {"on", "off"} /\ s.pending = s.on_console
                BY <2>9, <2>11, <3>1 DEF users!can_take_request, users!Server
            <4>2. session_requests'[c] = <<s.pending>>
                <5>1. session_requests'[c] = Append(<<>>, s.pending)
                    BY <2>3, <2>12, <3>1 DEF Delivered
                <5> QED
                    BY <5>1
            <4>3. UnderWay(c)'
                BY <2>4, <4>1, <4>2 DEF UnderWay
            <4>4. /\ server'[u].ready /\ server'[u].in_flight
                  /\ server'[u].accepted = s.accepted
                  /\ server'[u].pending = server'[u].on_console
                BY <2>9, <2>11, <2>12, <3>1, <4>1 DEF users!Server, Delivered
            <4>5. s.accepted = FALSE
                BY <2>9, <2>11, <4>1 DEF users!Server
            <4> QED
                BY <1>2, <1>3, <1>6, <4>3, <4>4, <4>5 DEF UserInvariant, OneRequest, StateOfServer
        <3>2. CASE ~ users!can_take_request(s)
            <4>1. server'[u] = s /\ session_requests' = session_requests
                BY <2>12, <3>2 DEF Delivered
            <4>2. Silent(c)'
                BY <2>3, <2>4, <4>1 DEF Silent
            <4>3. OneRequest(u)'
                BY <1>2, <1>3, <1>6, <2>11, <4>1, <4>2 DEF OneRequest
            <4>4. StateOfServer(u)'
                BY <1>2, <1>3, <1>6, <2>11, <4>1 DEF StateOfServer
            <4> QED
                BY <4>3, <4>4 DEF UserInvariant
        <3> QED
            BY <3>1, <3>2
    <2> QED
        BY <2>13, <2>14, <2>15, <2>16, UnaffectedUser DEF SessionInvariant
<1> QED
    BY <1>7, <1>8

-----------------------------------------------------------------------------
(* What the daemon does with requests, and what breaks.                      *)

\* A connection that is not of u, or was replaced by another one, is no concern
\* of u.
LEMMA OneConnection ==
    ASSUME NEW c \in users!Connections, session_link \in [Users -> 0..2],
           UNCHANGED <<server, session_link>>,
           \A d \in users!Connections : d # c =>
                /\ session_requests'[d] = session_requests[d]
                /\ answers'[d] = answers[d] /\ peers'[d] = peers[d]
    PROVE  \A u \in Users : c # <<u, session_link[u]>> => Unaffected(u)
<1> SUFFICES ASSUME NEW u \in Users, c # <<u, session_link[u]>>
             PROVE  Unaffected(u)
    OBVIOUS
<1> DEFINE d == <<u, session_link[u]>>
<1>1. session_link[u] # 0 => d \in users!Connections
    BY DEF users!Connections
<1> QED
    BY <1>1 DEF Unaffected, SameRequests

\* A request is registered before its response is sent.
LEMMA HandleRequestKeepsSession ==
    ASSUME SessionInvariant, NEW c \in users!Connections, users!HandleRequest(c)
    PROVE  SessionInvariant'
<1> DEFINE value == Head(session_requests[c])
           response == [type |-> "response", request |-> value]
           more == users!send_bound_if_current(session_daemon')
           u == c[1]
<1>1. /\ users!TypeOK /\ NothingLost /\ UserInvariant(u) /\ u \in Users
      /\ server \in [Users -> users!Server] /\ session_link \in [Users -> 0..2]
      /\ session_requests \in [users!Connections -> Seq({"on", "off"})]
      /\ answers \in [users!Connections -> Seq(users!Message)]
      /\ peers \in [users!Connections -> {"closed", "none", "on", "off"}]
      /\ session_daemon \in users!Daemon
    BY DEF SessionInvariant, users!TypeOK, users!Connections
<1>2. /\ peers[c] # "closed" /\ session_requests[c] # <<>>
      /\ peers' = [peers EXCEPT ![c] = value]
      /\ session_daemon' = IF value = "on" THEN users!update_current_console_user_id(session_daemon, u)
                           ELSE users!LeaveConsole(session_daemon, peers', u)
      /\ answers' = [answers EXCEPT ![c] = IF session_link[u] # c[2] THEN @ ELSE
                        @ \o <<response>> \o more]
      /\ session_requests' = [session_requests EXCEPT ![c] = Tail(@)]
      /\ UNCHANGED <<console, server, session_link, receiver>>
    BY DEF users!HandleRequest
<1>3. value \in {"on", "off"} /\ Tail(session_requests[c]) \in Seq({"on", "off"})
    <2>1. session_requests[c] \in Seq({"on", "off"})
        BY <1>1
    <2> QED
        BY <1>2, <2>1
<1>4. session_daemon' \in users!Daemon
    <2>1. u \in users!OptionalUsers
        BY <1>1 DEF users!OptionalUsers
    <2> HIDE DEF u
    <2> QED
        BY <1>1, <1>2, <2>1, DaemonTypes
<1>5. more \in Seq(users!Message) /\ NoResponse(more)
    <2>1. /\ users!bound_message(session_daemon') \in Seq(users!Message)
          /\ NoResponse(users!bound_message(session_daemon'))
        BY <1>4 DEF users!bound_message, users!Message, users!Daemon, NoResponse
    <2>2. <<>> \in Seq(users!Message) /\ NoResponse(<<>>)
        BY DEF NoResponse
    <2> QED
        BY <2>1, <2>2 DEF users!send_bound_if_current
<1>6. response \in users!Message /\ response.type = "response" /\ response.request = value
    BY <1>3 DEF users!Message
<1> HIDE DEF value, response, more
<1>7. answers[c] \o <<response>> \o more \in Seq(users!Message)
    <2>1. answers[c] \in Seq(users!Message)
        BY <1>1
    <2> QED
        BY <1>5, <1>6, <2>1
<1>8. /\ answers' \in [users!Connections -> Seq(users!Message)]
      /\ answers'[c] = IF session_link[u] # c[2] THEN answers[c] ELSE answers[c] \o <<response>> \o more
      /\ \A d \in users!Connections : d # c => answers'[d] = answers[d]
    BY <1>1, <1>2, <1>7
<1>9. /\ peers' \in [users!Connections -> {"closed", "none", "on", "off"}]
      /\ peers'[c] = value
      /\ \A d \in users!Connections : d # c => peers'[d] = peers[d]
    BY <1>1, <1>2, <1>3
<1>10. /\ session_requests' \in [users!Connections -> Seq({"on", "off"})]
       /\ session_requests'[c] = Tail(session_requests[c])
       /\ \A d \in users!Connections : d # c => session_requests'[d] = session_requests[d]
    BY <1>1, <1>2, <1>3
<1>11. users!TypeOK'
    BY <1>1, <1>2, <1>4, <1>8, <1>9, <1>10 DEF users!TypeOK
<1>12. NothingLost'
    <2>1. ASSUME NEW d \in users!Connections, session_link'[d[1]] # d[2]
          PROVE  answers'[d] = <<>>
        BY <1>1, <1>2, <1>8, <2>1 DEF NothingLost
    <2>2. ASSUME NEW d \in users!Connections, peers'[d] = "closed"
          PROVE  session_requests'[d] = <<>>
        BY <1>1, <1>3, <1>9, <1>10, <2>2 DEF NothingLost
    <2> QED
        BY <2>1, <2>2 DEF NothingLost
<1>13. \A v \in Users : c # <<v, session_link[v]>> => Unaffected(v)
    BY <1>1, <1>2, <1>8, <1>9, <1>10, OneConnection
<1>14. ASSUME NEW v \in Users, c = <<v, session_link[v]>>
       PROVE  UserInvariant(v)'
    <2>1. u = v /\ session_link[v] = c[2] /\ session_link[v] # 0
        BY <1>14 DEF users!Connections
    <2>2. server[v].in_flight /\ UnderWay(c)
        BY <1>1, <1>2, <1>14, <2>1 DEF UserInvariant, OneRequest, Silent
    <2>3. session_requests[c] = <<value>> /\ NoResponse(answers[c])
        BY <1>2, <2>2 DEF UnderWay, value
    <2>4. session_requests'[c] = <<>>
        BY <1>10, <2>3
    <2>5. OneResponse(answers'[c], value)
        <3>1. answers[c] \in Seq(users!Message)
            BY <1>1
        <3>2. OneResponse(answers[c] \o <<response>> \o more, value)
            BY <1>5, <1>6, <2>3, <3>1, ResponseAdded
        <3> QED
            BY <1>8, <2>1, <3>2
    <2>6. UnderWay(c)'
        BY <1>9, <2>4, <2>5 DEF UnderWay
    <2>7. OneRequest(v)'
        BY <1>2, <1>3, <1>9, <1>14, <2>2, <2>6 DEF OneRequest
    <2>8. StateOfServer(v)'
        BY <1>1, <1>2, <2>1, <2>2 DEF UserInvariant, StateOfServer
    <2> QED
        BY <2>7, <2>8 DEF UserInvariant
<1>15. ASSUME NEW v \in Users
       PROVE  UserInvariant(v)'
    <2>1. UserInvariant(v)
        BY DEF SessionInvariant
    <2> QED
        BY <1>13, <1>14, <2>1, UnaffectedUser
<1> QED
    BY <1>11, <1>12, <1>15 DEF SessionInvariant

\* The daemon forgets a connection only after its user has lost it.
LEMMA PeerClosedKeepsSession ==
    ASSUME SessionInvariant, NEW c \in users!Connections, users!PeerClosed(c)
    PROVE  SessionInvariant'
<1> DEFINE u == c[1]
<1>1. /\ users!TypeOK /\ NothingLost /\ u \in Users
      /\ session_link \in [Users -> 0..2]
      /\ session_requests \in [users!Connections -> Seq({"on", "off"})]
      /\ peers \in [users!Connections -> {"closed", "none", "on", "off"}]
      /\ session_daemon \in users!Daemon
    BY DEF SessionInvariant, users!TypeOK, users!Connections
<1>2. /\ session_link[u] # c[2]
      /\ peers' = [peers EXCEPT ![c] = "closed"]
      /\ session_daemon' = IF peers[c] = "on" THEN users!LeaveConsole(session_daemon, peers', u)
                           ELSE session_daemon
      /\ session_requests' = [session_requests EXCEPT ![c] = <<>>]
      /\ UNCHANGED <<console, server, session_link, answers, receiver>>
    BY DEF users!PeerClosed
<1>3. session_daemon' \in users!Daemon
    <2>1. u \in users!OptionalUsers
        BY <1>1 DEF users!OptionalUsers
    <2> HIDE DEF u
    <2> QED
        BY <1>1, <1>2, <2>1, DaemonTypes
<1>4. /\ peers' \in [users!Connections -> {"closed", "none", "on", "off"}]
      /\ \A d \in users!Connections : d # c => peers'[d] = peers[d]
    BY <1>1, <1>2
<1>5. /\ session_requests' \in [users!Connections -> Seq({"on", "off"})]
      /\ session_requests'[c] = <<>>
      /\ \A d \in users!Connections : d # c => session_requests'[d] = session_requests[d]
    <2>1. <<>> \in Seq({"on", "off"})
        OBVIOUS
    <2> QED
        BY <1>1, <1>2, <2>1
<1>6. users!TypeOK'
    BY <1>1, <1>2, <1>3, <1>4, <1>5 DEF users!TypeOK
<1>7. NothingLost'
    BY <1>1, <1>2, <1>4, <1>5 DEF NothingLost
<1>8. \A v \in Users : c # <<v, session_link[v]>> => Unaffected(v)
    BY <1>1, <1>2, <1>4, <1>5, OneConnection
<1>9. ASSUME NEW v \in Users
      PROVE  UserInvariant(v)'
    <2>1. UserInvariant(v) /\ c # <<v, session_link[v]>>
        BY <1>2 DEF SessionInvariant
    <2> QED
        BY <1>8, <2>1, UnaffectedUser
<1> QED
    BY <1>6, <1>7, <1>9 DEF SessionInvariant

\* A broken connection takes with it what was on the way to its user.
LEMMA LostConnection ==
    ASSUME SessionInvariant, NEW u \in Users,
           session_link' = [session_link EXCEPT ![u] = 0],
           answers' = users!WithoutAnswers(u),
           NEW s \in users!Server, server' = [server EXCEPT ![u] = s],
           s.ready = FALSE, s.in_flight = FALSE, s.accepted = FALSE,
           s.pending \in {"none", s.on_console},
           UNCHANGED <<console, session_requests, peers, session_daemon>>,
           receiver' \in users!Receiver
    PROVE  SessionInvariant'
<1>1. /\ users!TypeOK /\ NothingLost
      /\ server \in [Users -> users!Server] /\ session_link \in [Users -> 0..2]
      /\ answers \in [users!Connections -> Seq(users!Message)]
    BY DEF SessionInvariant, users!TypeOK
<1>2. /\ session_link' \in [Users -> 0..2] /\ session_link'[u] = 0
      /\ \A v \in Users : v # u => session_link'[v] = session_link[v]
      /\ server' \in [Users -> users!Server] /\ server'[u] = s
      /\ \A v \in Users : v # u => server'[v] = server[v]
    BY <1>1
<1>3. /\ answers' \in [users!Connections -> Seq(users!Message)]
      /\ \A c \in users!Connections : answers'[c] = IF c[1] = u THEN <<>> ELSE answers[c]
    <2>1. <<>> \in Seq(users!Message)
        OBVIOUS
    <2> QED
        BY <1>1, <2>1 DEF users!WithoutAnswers
<1>4. users!TypeOK'
    BY <1>1, <1>2, <1>3 DEF users!TypeOK
<1>5. NothingLost'
    BY <1>1, <1>2, <1>3 DEF NothingLost, users!Connections
<1>6. \A v \in Users : v # u => Unaffected(v)
    <2>1. \A d \in users!Connections : d[1] # u =>
            /\ session_requests'[d] = session_requests[d]
            /\ answers'[d] = answers[d] /\ peers'[d] = peers[d]
        BY <1>3
    <2> QED
        BY <1>1, <1>2, <2>1, OthersUnaffected
<1>7. UserInvariant(u)'
    BY <1>2 DEF UserInvariant, OneRequest, StateOfServer
<1> QED
    BY <1>4, <1>5, <1>6, <1>7, UnaffectedUser DEF SessionInvariant

\* Connections break, and processes are started again.
LEMMA FaultKeepsSession ==
    ASSUME SessionInvariant, NEW u \in Users,
           users!BreakConnection(u) \/ users!RestartServer(u)
    PROVE  SessionInvariant'
<1>1. /\ server[u] \in users!Server /\ server[u].pending \in {"none", server[u].on_console}
      /\ receiver \in users!Receiver
    BY DEF SessionInvariant, users!TypeOK, UserInvariant, StateOfServer
<1>2. CASE users!BreakConnection(u)
    <2> DEFINE s == users!connection_not_ready(server[u])
    <2>1. s \in users!Server
        BY <1>1, ServerTypes
    <2>2. /\ s.ready = FALSE /\ s.in_flight = FALSE /\ s.accepted = FALSE
          /\ s.pending \in {"none", s.on_console}
        BY <1>1 DEF users!connection_not_ready, users!Server
    <2>3. server' = [server EXCEPT ![u] = s]
        BY <1>2 DEF users!BreakConnection
    <2> HIDE DEF s
    <2> QED
        BY <1>1, <1>2, <2>1, <2>2, <2>3, LostConnection DEF users!BreakConnection
<1>3. CASE users!RestartServer(u)
    <2>1. /\ users!NewServer \in users!Server
          /\ users!NewServer.ready = FALSE /\ users!NewServer.in_flight = FALSE
          /\ users!NewServer.accepted = FALSE /\ users!NewServer.pending = "none"
        BY DEF users!NewServer, users!Server
    <2> QED
        BY <1>3, <2>1, LostConnection, WithoutClientType DEF users!RestartServer
<1> QED
    BY <1>2, <1>3

\* A new daemon knows nobody.
LEMMA RestartDaemonKeepsSession ==
    ASSUME SessionInvariant, users!RestartDaemon
    PROVE  SessionInvariant'
<1>1. /\ console \in users!OptionalUsers /\ server \in [Users -> users!Server]
      /\ \A u \in Users : UserInvariant(u)
    BY DEF SessionInvariant, users!TypeOK
<1>2. /\ session_daemon' = users!NewDaemon /\ receiver' = users!NewReceiver(NoUser)
      /\ session_link' = [u \in Users |-> 0]
      /\ peers' = [c \in users!Connections |-> "closed"]
      /\ session_requests' = [c \in users!Connections |-> <<>>]
      /\ answers' = [c \in users!Connections |-> <<>>]
      /\ UNCHANGED console
    BY DEF users!RestartDaemon
<1>3. ASSUME NEW u \in Users
      PROVE  /\ server'[u] \in users!Server
             /\ server'[u].ready = FALSE /\ server'[u].in_flight = FALSE
             /\ server'[u].accepted = FALSE /\ server'[u].pending \in {"none", server'[u].on_console}
    <2> DEFINE t == IF server[u].client = "connected" THEN [server[u] EXCEPT !.client = "connecting"]
                    ELSE server[u]
    <2>1. t \in users!Server /\ SameRequests(t, server[u])
        <3>1. server[u] \in users!Server
            BY <1>1
        <3> QED
            BY <3>1, ServerTypes, ClientKeepsRequests DEF SameRequests
    <2>2. server'[u] = users!connection_not_ready(t)
        BY DEF users!RestartDaemon
    <2> HIDE DEF t
    <2>3. t.pending \in {"none", t.on_console}
        BY <1>1, <2>1 DEF SameRequests, UserInvariant, StateOfServer
    <2>4. server'[u] \in users!Server
        BY <2>1, <2>2, ServerTypes
    <2> QED
        BY <2>1, <2>2, <2>3, <2>4 DEF users!connection_not_ready, users!Server
<1>4. server' \in [Users -> users!Server]
    <2>1. DOMAIN server' = Users /\ server' = [u \in Users |-> server'[u]]
        BY DEF users!RestartDaemon
    <2> QED
        BY <1>3, <2>1
<1>5. users!NewDaemon \in users!Daemon /\ users!NewReceiver(NoUser) \in users!Receiver
    <2>1. NoUser \in users!OptionalUsers
        BY DEF users!OptionalUsers
    <2> QED
        BY <2>1 DEF users!NewDaemon, users!Daemon, users!NewReceiver, users!Receiver
<1>6. users!TypeOK'
    BY <1>1, <1>2, <1>4, <1>5 DEF users!TypeOK
<1>7. NothingLost'
    BY <1>2 DEF NothingLost
<1>8. \A u \in Users : UserInvariant(u)'
    BY <1>2, <1>3 DEF UserInvariant, OneRequest, StateOfServer
<1> QED
    BY <1>6, <1>7, <1>8 DEF SessionInvariant

\* Before anybody is connected nothing is on the way.
LEMMA SessionAtFirst == Init => SessionInvariant
<1> SUFFICES ASSUME users!Init
             PROVE  SessionInvariant
    BY DEF Init
<1>1. users!TypeOK
    <2>1. console \in users!OptionalUsers /\ NoUser \in users!OptionalUsers
        BY ServicesAssumption DEF users!Init, users!OptionalUsers
    <2>2. users!NewServer \in users!Server
        BY DEF users!NewServer, users!Server
    <2>3. users!NewDaemon \in users!Daemon /\ users!NewReceiver(NoUser) \in users!Receiver
        BY <2>1 DEF users!NewDaemon, users!Daemon, users!NewReceiver, users!Receiver
    <2> QED
        BY <2>1, <2>2, <2>3 DEF users!Init, users!TypeOK
<1>2. NothingLost
    BY DEF users!Init, NothingLost
<1>3. ASSUME NEW u \in Users
      PROVE  UserInvariant(u)
    BY DEF users!Init, users!NewServer, UserInvariant, OneRequest, StateOfServer
<1> QED
    BY <1>1, <1>2, <1>3 DEF SessionInvariant

\* Every step of a session, and of the daemon, keeps the requests in order.
LEMMA SessionStep == SessionInvariant /\ [Next]_vars => SessionInvariant'
<1> SUFFICES ASSUME SessionInvariant, [Next]_vars
             PROVE  SessionInvariant'
    OBVIOUS
<1>1. CASE InSession(users!Next)
    <2>1. users!Next
        BY <1>1 DEF InSession
    <2> QED
        BY <2>1, ReceiverKeepsSession, ClientConnectedKeepsSession, RunTaskKeepsSession,
           OnConsoleChangedKeepsSession, ConnectKeepsSession, ReceiveKeepsSession,
           HandleRequestKeepsSession, PeerClosedKeepsSession, FaultKeepsSession,
           RestartDaemonKeepsSession
        DEF users!Next, users!Work
<1>2. CASE UNCHANGED session_vars
    <2>1. /\ users!TypeOK' <=> users!TypeOK
          /\ NothingLost' <=> NothingLost
        BY <1>2 DEF session_vars, users!TypeOK, NothingLost
    <2>2. ASSUME NEW u \in Users
          PROVE  Unaffected(u)
        BY <1>2 DEF session_vars, Unaffected, SameRequests
    <2> QED
        BY <2>1, <2>2, UnaffectedUser DEF SessionInvariant
<1> QED
    BY <1>1, <1>2 DEF Next, InProcesses, InFiles, vars

\* A connection carries one request at a time, and its response comes back before
\* the next one is sent, whatever breaks (console_user_id_changed_client_state).
THEOREM RequestsFollowEachOther == Spec => []SessionInvariant
BY SessionAtFirst, SessionStep, PTL DEF Spec

\* A console_user_server takes its request as accepted only when the daemon has
\* registered that very state for the connection it still uses
\* (take_core_service_daemon_server_bound_action).
THEOREM AcceptedIsRegistered == Spec => []AcceptedMeansRegistered
<1>1. SessionInvariant => AcceptedMeansRegistered
    BY DEF SessionInvariant, UserInvariant, StateOfServer, AcceptedMeansRegistered,
           users!AcceptedMeansRegistered
<1> QED
    BY <1>1, RequestsFollowEachOther, PTL

-----------------------------------------------------------------------------
(* karabiner.json: what waits in the dispatcher of a process.                *)

\* A task behind the others, which is harmless or brings a configuration.
LEMMA TaskAppended ==
    ASSUME NEW S, NEW tasks \in Seq(S), NEW t \in S, NEW c,
           Announces(t) \/ (EndsWithConfiguration(tasks, c) /\ ~ TakesAway(t))
    PROVE  EndsWithConfiguration(Append(tasks, t), c)
<1> DEFINE longer == Append(tasks, t)
           n == Len(tasks) + 1
<1>1. /\ n \in DOMAIN longer /\ longer[n] = t /\ n \in Nat
      /\ \A i \in DOMAIN tasks : i \in DOMAIN longer /\ longer[i] = tasks[i]
      /\ \A i \in DOMAIN longer : i \in Nat /\ i <= n /\ (i # n => i \in DOMAIN tasks /\ longer[i] = tasks[i])
    OBVIOUS
<1> HIDE DEF longer, n
<1>2. CASE Announces(t)
    <2>1. StaysAfter(longer, n)
        BY <1>1, <1>2 DEF StaysAfter
    <2> QED
        BY <1>1, <2>1 DEF EndsWithConfiguration, longer
<1>3. CASE ~ TakesAway(t) /\ c # files!Nothing /\ \A i \in DOMAIN tasks : ~ TakesAway(tasks[i])
    <2>1. \A i \in DOMAIN longer : ~ TakesAway(longer[i])
        BY <1>1, <1>3
    <2> QED
        BY <1>3, <2>1 DEF EndsWithConfiguration, longer
<1>4. CASE ~ TakesAway(t) /\ \E i \in DOMAIN tasks : StaysAfter(tasks, i)
    <2>1. PICK i \in DOMAIN tasks : StaysAfter(tasks, i)
        BY <1>4
    <2>2. StaysAfter(longer, i) /\ i \in DOMAIN longer
        BY <1>1, <1>4, <2>1 DEF StaysAfter
    <2> QED
        BY <2>2 DEF EndsWithConfiguration, longer
<1> QED
    BY <1>2, <1>3, <1>4 DEF EndsWithConfiguration

\* The first task runs and leaves d, which is what was there before, or a
\* configuration, or nothing because of the task.
LEMMA TaskRuns ==
    ASSUME NEW S, NEW tasks \in Seq(S), tasks # <<>>, NEW c, NEW d,
           EndsWithConfiguration(tasks, c),
           \/ TakesAway(Head(tasks))
           \/ d # files!Nothing
           \/ d = c /\ ~ Announces(Head(tasks))
    PROVE  EndsWithConfiguration(Tail(tasks), d)
<1> DEFINE rest == Tail(tasks)
           t == Head(tasks)
<1>1. /\ 1 \in DOMAIN tasks /\ tasks[1] = t
      /\ \A i \in DOMAIN rest : i \in Nat /\ i + 1 \in DOMAIN tasks /\ rest[i] = tasks[i + 1]
      /\ \A i \in DOMAIN tasks : i \in Nat /\ (i # 1 => i - 1 \in DOMAIN rest /\ rest[i - 1] = tasks[i])
    OBVIOUS
<1> HIDE DEF rest, t
<1>2. ~ (TakesAway(t) /\ Announces(t))
    BY DEF TakesAway, Announces
<1>3. CASE c # files!Nothing /\ \A i \in DOMAIN tasks : ~ TakesAway(tasks[i])
    <2>1. d # files!Nothing
        BY <1>1, <1>3 DEF t
    <2>2. \A i \in DOMAIN rest : ~ TakesAway(rest[i])
        BY <1>1, <1>3
    <2> QED
        BY <2>1, <2>2 DEF EndsWithConfiguration, rest
<1>4. CASE \E i \in DOMAIN tasks : StaysAfter(tasks, i)
    <2>1. PICK i \in DOMAIN tasks : StaysAfter(tasks, i)
        BY <1>4
    <2>2. CASE i = 1
        <3>1. d # files!Nothing
            BY <1>1, <1>2, <2>1, <2>2 DEF StaysAfter, t
        <3>2. \A j \in DOMAIN rest : ~ TakesAway(rest[j])
            <4>1. \A j \in DOMAIN rest : 1 < j + 1
                <5>1. \A j \in DOMAIN rest : j \in Nat /\ j # 0
                    BY DEF rest
                <5> QED
                    BY <5>1
            <4> QED
                BY <1>1, <2>1, <2>2, <4>1 DEF StaysAfter
        <3> QED
            BY <3>1, <3>2 DEF EndsWithConfiguration, rest
    <2>3. CASE i # 1
        <3>1. i - 1 \in DOMAIN rest /\ rest[i - 1] = tasks[i] /\ i \in Nat
            BY <1>1, <2>3
        <3>2. \A j \in DOMAIN rest : i - 1 < j => ~ TakesAway(rest[j])
            BY <1>1, <2>1, <3>1 DEF StaysAfter
        <3>3. StaysAfter(rest, i - 1)
            BY <2>1, <3>1, <3>2 DEF StaysAfter
        <3> QED
            BY <3>1, <3>3 DEF EndsWithConfiguration, rest
    <2> QED
        BY <2>2, <2>3
<1> QED
    BY <1>3, <1>4 DEF EndsWithConfiguration

\* A task that is no news of a file, or is about a removal, changes nothing here.
LEMMA HearsAppended ==
    ASSUME NEW m \in Monitor, NEW t \in MonitorTask, HearsOfRemovals(m),
           t.name = "file_changed" => t.file = files!Missing, NEW n,
           n.tasks = Append(m.tasks, t)
    PROVE  HearsOfRemovals(n)
<1>1. m.tasks \in Seq(MonitorTask)
    BY DEF Monitor
<1> HIDE DEF MonitorTask
<1>2. \A i \in DOMAIN n.tasks : \/ i \in DOMAIN m.tasks /\ n.tasks[i] = m.tasks[i]
                                \/ n.tasks[i] = t
    BY <1>1
<1> QED
    BY <1>2 DEF HearsOfRemovals

\* Nor does a task that has run.
LEMMA HearsPopped ==
    ASSUME NEW m \in Monitor, HearsOfRemovals(m), m.tasks # <<>>, NEW n,
           n.tasks = Tail(m.tasks)
    PROVE  HearsOfRemovals(n)
<1>1. m.tasks \in Seq(MonitorTask)
    BY DEF Monitor
<1>2. \A i \in DOMAIN n.tasks : i + 1 \in DOMAIN m.tasks /\ n.tasks[i] = m.tasks[i + 1]
    <2> HIDE DEF MonitorTask
    <2> QED
        BY <1>1
<1> QED
    BY <1>2 DEF HearsOfRemovals

-----------------------------------------------------------------------------
(* What becomes of a monitor.                                                *)

\* The monitor may have heard of other events, or wait for a file to come back.
SameTasks(m, n) ==
    n.running = m.running /\ n.tasks = m.tasks /\ n.load_state = m.load_state /\ n.current = m.current

\* Both monitors have the same tasks, and what they hear of.
LEMMA SameTasksKeep ==
    ASSUME NEW m, NEW n, NEW c, MonitorInvariant(m, c), SameTasks(m, n), m.running
    PROVE  MonitorInvariant(n, c)
BY DEF MonitorInvariant, SameTasks

\* A notification of the file system is no task yet.
LEMMA NotifiedKeeps ==
    ASSUME NEW p, NEW m \in Monitor, NEW path \in {"user", "system"}, NEW writer,
           NEW c, MonitorInvariant(m, c)
    PROVE  /\ files!Notified(p, m, path, writer) \in Monitor
           /\ SameTasks(m, files!Notified(p, m, path, writer))
           /\ MonitorInvariant(files!Notified(p, m, path, writer), c)
<1> DEFINE mine == p = writer
           event == [path |-> path, own |-> mine]
           heard == [m EXCEPT !.events = Append(@, event)]
<1>1. CASE files!Notified(p, m, path, writer) = m
    BY <1>1 DEF SameTasks
<1>2. CASE m.running /\ files!Notified(p, m, path, writer) = heard
    <2>1. mine \in BOOLEAN
        OBVIOUS
    <2> HIDE DEF mine
    <2>2. event \in MonitorEvent
        BY <2>1 DEF MonitorEvent
    <2> HIDE DEF event
    <2>3. heard \in Monitor /\ SameTasks(m, heard)
        <3> DEFINE events == Append(m.events, event)
        <3>1. events \in Seq(MonitorEvent)
            BY <2>2 DEF Monitor
        <3> HIDE DEF events
        <3>2. [m EXCEPT !.events = events] \in Monitor /\ SameTasks(m, [m EXCEPT !.events = events])
            BY <3>1 DEF Monitor, SameTasks
        <3> QED
            BY <3>2 DEF events
    <2> HIDE DEF heard
    <2> QED
        BY <1>2, <2>3, SameTasksKeep
<1> QED
    BY <1>1, <1>2 DEF files!Notified

\* What is loaded: the configuration is announced last.
LEMMA LoadedKeeps ==
    ASSUME NEW m \in Monitor, NEW c, MonitorInvariant(m, c), m.running, NEW file \in File
    PROVE  /\ files!Loaded(m, file) \in Monitor
           /\ MonitorInvariant(files!Loaded(m, file), c)
           /\ HearsOfRemovals(m) => HearsOfRemovals(files!Loaded(m, file))
           /\ files!Loaded(m, file).current \in {m.current, file}
<1> DEFINE load_state == files!LoadState(file)
           news == m.load_state # load_state
           recovered_from_error == m.load_state \notin {"none", "loaded"}
           updated == /\ load_state = "loaded"
                      /\ recovered_from_error \/ files!Content(m.current) # files!Content(file)
           t == files!LoadStateChanged(load_state)
           told == IF news THEN Append(m.tasks, t) ELSE m.tasks
           u == files!Updated(file)
           tasks == IF updated THEN Append(told, u) ELSE told
           current == IF updated THEN file ELSE m.current
           n == files!Loaded(m, file)
<1>1. /\ load_state \in {"loaded", "broken", "unreadable"}
      /\ load_state = "loaded" <=> file \in Loadable
    BY DEF files!LoadState, File, Loadable
<1>2. m.tasks \in Seq(MonitorTask)
    BY DEF Monitor
<1>3. t \in MonitorTask /\ t.name = "load_state_changed" /\ (load_state = "loaded" => ~ TakesAway(t))
    BY <1>1 DEF files!LoadStateChanged, MonitorTask, TakesAway
<1>4. updated => u \in MonitorTask /\ Announces(u) /\ u.name # "file_changed"
    BY <1>1 DEF files!Updated, MonitorTask, Announces
<1> HIDE DEF load_state, t, u
<1>5. n = [m EXCEPT !.load_state = load_state, !.current = current, !.tasks = tasks]
    <2>1. \A s \in Seq(MonitorTask) : \A x \in MonitorTask :
            s \o <<>> = s /\ s \o <<x>> = Append(s, x) /\ Append(s, x) \in Seq(MonitorTask)
        OBVIOUS
    <2> HIDE DEF updated, news
    <2>2. told = m.tasks \o (IF news THEN <<t>> ELSE <<>>) /\ told \in Seq(MonitorTask)
        BY <1>2, <1>3, <2>1
    <2>3. updated => u \in MonitorTask
        BY <1>4 DEF updated
    <2> HIDE DEF told
    <2>4. tasks = told \o (IF updated THEN <<u>> ELSE <<>>)
        <3>1. CASE updated
            BY <2>1, <2>2, <2>3, <3>1
        <3>2. CASE ~ updated
            BY <1>3, <2>1, <2>2, <3>2
        <3> QED
            BY <3>1, <3>2
    <2> QED
        BY <2>2, <2>4 DEF files!Loaded, load_state, t, u, updated, news
<1>6. told \in Seq(MonitorTask)
    BY <1>2, <1>3
<1>7. tasks \in Seq(MonitorTask) /\ current \in Configuration
    BY <1>1, <1>4, <1>6 DEF Monitor, Configuration
<1>8. /\ n \in Monitor /\ n.tasks = tasks /\ n.current = current
      /\ n.load_state = load_state /\ n.running = m.running
    <2> HIDE DEF tasks, current, n
    <2> QED
        BY <1>1, <1>5, <1>7 DEF Monitor
<1> HIDE DEF n
<1>9. load_state = "loaded" => EndsWithConfiguration(tasks, c)
    <2> SUFFICES ASSUME load_state = "loaded"
                 PROVE  EndsWithConfiguration(tasks, c)
        OBVIOUS
    <2>1. CASE updated
        <3> HIDE DEF told
        <3> QED
            BY <1>4, <1>6, <2>1, TaskAppended
    <2>2. CASE ~ updated
        <3>1. m.load_state # "none"
            BY <1>1, <2>2 DEF MonitorInvariant, files!Content, files!Nothing, files!Missing,
                              files!Bad, files!Valid, Loadable
        <3>2. m.load_state = "loaded"
            BY <2>2, <3>1 DEF Monitor
        <3> QED
            BY <2>2, <3>2 DEF MonitorInvariant
    <2> QED
        BY <2>1, <2>2
<1>10. MonitorInvariant(n, c)
    BY <1>1, <1>8, <1>9 DEF MonitorInvariant
<1>11. ASSUME HearsOfRemovals(m)
       PROVE  HearsOfRemovals(n)
    <2> DEFINE between == [m EXCEPT !.tasks = told]
    <2>1. between \in Monitor /\ between.tasks = told
        BY <1>6 DEF Monitor
    <2> HIDE DEF between
    <2>2. HearsOfRemovals(between)
        <3>1. CASE news
            BY <1>3, <1>11, <2>1, <3>1, HearsAppended
        <3>2. CASE ~ news
            BY <1>11, <2>1, <3>2 DEF HearsOfRemovals
        <3> QED
            BY <3>1, <3>2
    <2>3. CASE updated
        BY <1>4, <1>8, <2>1, <2>2, <2>3, HearsAppended
    <2>4. CASE ~ updated
        BY <1>8, <2>1, <2>2, <2>4 DEF HearsOfRemovals
    <2> QED
        BY <2>3, <2>4
<1> QED
    BY <1>8, <1>10, <1>11 DEF n

\* A change of a file is handled, or waits because the file is gone.
LEMMA FileChangedKeeps ==
    ASSUME FileTypes, NEW m \in Monitor, NEW c, MonitorInvariant(m, c), m.running,
           NEW path \in {"user", "system"}, NEW body \in Body
    PROVE  LET n == files!file_changed(m, path, body)
           IN  /\ n \in Monitor /\ MonitorInvariant(n, c)
               /\ HearsOfRemovals(m) => HearsOfRemovals(n)
               /\ n.current = files!Missing /\ m.current # files!Missing =>
                      /\ files!FileToLoad = files!Missing
                      /\ m.load_state = "none" \/ body # files!Missing
<1> DEFINE n == files!file_changed(m, path, body)
           waits == [m EXCEPT !.removal = path]
           ready == [m EXCEPT !.removal = "none"]
           loaded == files!Loaded(ready, files!FileToLoad)
<1>1. files!FileToLoad \in File
    BY DEF FileTypes, files!FileToLoad
<1>2. /\ waits \in Monitor /\ SameTasks(m, waits) /\ waits.running
      /\ ready \in Monitor /\ SameTasks(m, ready) /\ ready.running
    BY DEF Monitor, SameTasks
<1>3. \/ n = m \/ n = waits \/ n = ready
      \/ n = loaded /\ (m.load_state = "none" \/ body # files!Missing)
    BY DEF files!file_changed, files!handle_file_changed
<1> HIDE DEF n, waits, ready
<1>4. MonitorInvariant(waits, c) /\ MonitorInvariant(ready, c)
    BY <1>2, SameTasksKeep
<1>5. HearsOfRemovals(m) => HearsOfRemovals(waits) /\ HearsOfRemovals(ready)
    BY <1>2 DEF HearsOfRemovals, SameTasks
<1>6. /\ loaded \in Monitor /\ MonitorInvariant(loaded, c)
      /\ HearsOfRemovals(ready) => HearsOfRemovals(loaded)
      /\ loaded.current \in {ready.current, files!FileToLoad}
    BY <1>1, <1>2, <1>4, LoadedKeeps
<1> HIDE DEF loaded
<1>7. n \in Monitor /\ MonitorInvariant(n, c) /\ (HearsOfRemovals(m) => HearsOfRemovals(n))
    BY <1>2, <1>3, <1>4, <1>5, <1>6
<1>8. ASSUME n.current = files!Missing, m.current # files!Missing
      PROVE  files!FileToLoad = files!Missing /\ (m.load_state = "none" \/ body # files!Missing)
    BY <1>2, <1>3, <1>6, <1>8 DEF SameTasks
<1> QED
    BY <1>7, <1>8 DEF n

\* Everybody is notified, and nobody has done anything yet.
LEMMA NotifyKeeps ==
    ASSUME NEW monitors \in [files!Processes -> Monitor], NEW clients,
           \A q \in files!Processes : MonitorInvariant(monitors[q], clients[q]),
           NEW path \in {"user", "system"}, NEW writer
    PROVE  /\ files!Notify(monitors, path, writer) \in [files!Processes -> Monitor]
           /\ \A q \in files!Processes :
                /\ SameTasks(monitors[q], files!Notify(monitors, path, writer)[q])
                /\ MonitorInvariant(files!Notify(monitors, path, writer)[q], clients[q])
<1> DEFINE n == files!Notify(monitors, path, writer)
<1>1. n = [q \in files!Processes |-> files!Notified(q, monitors[q], path, writer)]
    BY DEF files!Notify
<1>2. ASSUME NEW q \in files!Processes
      PROVE  /\ files!Notified(q, monitors[q], path, writer) \in Monitor
             /\ SameTasks(monitors[q], files!Notified(q, monitors[q], path, writer))
             /\ MonitorInvariant(files!Notified(q, monitors[q], path, writer), clients[q])
    BY NotifiedKeeps
<1> HIDE DEF n
<1>3. n \in [files!Processes -> Monitor]
    BY <1>1, <1>2
<1>4. \A q \in files!Processes : SameTasks(monitors[q], n[q]) /\ MonitorInvariant(n[q], clients[q])
    BY <1>1, <1>2
<1> QED
    BY <1>3, <1>4 DEF n

-----------------------------------------------------------------------------
(* What the processes do.                                                    *)

\* Every process is as it should be after a step.
ProcessesKept ==
    /\ monitor' \in [files!Processes -> Monitor] /\ client' \in [files!Processes -> Configuration]
    /\ \A q \in files!Processes : MonitorInvariant(monitor'[q], client'[q])

\* A step of one process.
LEMMA OneProcess ==
    ASSUME FilesInvariant, NEW p \in files!Processes, NEW n \in Monitor, NEW d \in Configuration,
           MonitorInvariant(n, d), monitor' = [monitor EXCEPT ![p] = n],
           client' = [client EXCEPT ![p] = d]
    PROVE  ProcessesKept
BY DEF FilesInvariant, FileTypes, ProcessesKept

\* The task at the head of a process that runs.
LEMMA FirstTask ==
    ASSUME FilesInvariant, NEW p \in files!Processes, monitor[p].tasks # <<>>
    PROVE  /\ monitor[p].running /\ monitor[p] \in Monitor /\ client[p] \in Configuration
           /\ Head(monitor[p].tasks) \in MonitorTask
           /\ Head(monitor[p].tasks) = monitor[p].tasks[1] /\ 1 \in DOMAIN monitor[p].tasks
           /\ files!Rest(p) \in Monitor /\ files!Rest(p).tasks = Tail(monitor[p].tasks)
           /\ files!Rest(p).running = monitor[p].running
           /\ files!Rest(p).load_state = monitor[p].load_state
           /\ files!Rest(p).current = monitor[p].current
<1>1. monitor[p] \in Monitor /\ client[p] \in Configuration /\ MonitorInvariant(monitor[p], client[p])
    BY DEF FilesInvariant, FileTypes
<1>2. monitor[p].running
    BY <1>1 DEF MonitorInvariant, files!NoMonitor
<1>3. monitor[p].tasks \in Seq(MonitorTask)
    BY <1>1 DEF Monitor
<1>4. /\ Head(monitor[p].tasks) \in MonitorTask /\ Tail(monitor[p].tasks) \in Seq(MonitorTask)
      /\ Head(monitor[p].tasks) = monitor[p].tasks[1] /\ 1 \in DOMAIN monitor[p].tasks
    <2> HIDE DEF MonitorTask
    <2> QED
        BY <1>3
<1>5. /\ files!Rest(p) \in Monitor /\ files!Rest(p).tasks = Tail(monitor[p].tasks)
      /\ files!Rest(p).running = monitor[p].running
      /\ files!Rest(p).load_state = monitor[p].load_state
      /\ files!Rest(p).current = monitor[p].current
    <2> DEFINE rest == Tail(monitor[p].tasks)
    <2>1. rest \in Seq(MonitorTask)
        BY <1>4
    <2> HIDE DEF rest
    <2>2. \A m \in Monitor : /\ [m EXCEPT !.tasks = rest] \in Monitor
                             /\ [m EXCEPT !.tasks = rest].tasks = rest
                             /\ [m EXCEPT !.tasks = rest].running = m.running
                             /\ [m EXCEPT !.tasks = rest].load_state = m.load_state
                             /\ [m EXCEPT !.tasks = rest].current = m.current
        BY <2>1 DEF Monitor
    <2> QED
        BY <1>1, <2>2 DEF files!Rest, rest
<1> QED
    BY <1>1, <1>2, <1>4, <1>5

\* What is left when a task has run, and left d.
LEMMA RestKeeps ==
    ASSUME FilesInvariant, NEW p \in files!Processes, monitor[p].tasks # <<>>, NEW d,
           \/ TakesAway(Head(monitor[p].tasks))
           \/ d # files!Nothing /\ Head(monitor[p].tasks).name # "file_changed"
           \/ d = client[p] /\ ~ Announces(Head(monitor[p].tasks))
    PROVE  /\ MonitorInvariant(files!Rest(p), d)
           /\ HearsOfRemovals(monitor[p]) => HearsOfRemovals(files!Rest(p))
<1> DEFINE m == monitor[p]
           n == files!Rest(p)
<1>1. MonitorInvariant(m, client[p]) /\ m.tasks \in Seq(MonitorTask)
    BY FirstTask DEF FilesInvariant, Monitor
<1>2. /\ m.running /\ n.tasks = Tail(m.tasks) /\ n.running = m.running
      /\ n.load_state = m.load_state /\ n.current = m.current /\ m \in Monitor
      /\ Head(m.tasks) = m.tasks[1] /\ 1 \in DOMAIN m.tasks
    BY FirstTask
<1> HIDE DEF m, n
<1>3. m.load_state = "none" => Head(m.tasks).name = "file_changed"
    BY <1>1, <1>2 DEF MonitorInvariant
<1>4. m.load_state = "none" => d = files!Nothing
    BY <1>1, <1>3 DEF MonitorInvariant, TakesAway, m
<1>5. \A i \in DOMAIN n.tasks : i + 1 \in DOMAIN m.tasks /\ n.tasks[i] = m.tasks[i + 1]
    <2> HIDE DEF MonitorTask
    <2> QED
        BY <1>1, <1>2 DEF m
<1>6. m.load_state = "loaded" => EndsWithConfiguration(n.tasks, d)
    BY <1>1, <1>2, TaskRuns DEF MonitorInvariant, m
<1>7. MonitorInvariant(n, d)
    BY <1>1, <1>2, <1>4, <1>5, <1>6 DEF MonitorInvariant
<1>8. HearsOfRemovals(m) => HearsOfRemovals(n)
    BY <1>2, HearsPopped DEF m
<1> QED
    BY <1>7, <1>8 DEF m, n

\* A stream reports what it finds: a removal, if there is no file.
LEMMA StreamKeepsFiles ==
    ASSUME FilesInvariant, NEW p \in files!Processes, files!StreamCallback(p)
    PROVE  FilesInvariant'
<1> DEFINE m == monitor[p]
           event == Head(m.events)
           body == files!Body(files!File(event.path))
           t == files!FileChanged(event.path, body)
           told == body # m.bodies[event.path] /\ ~ event.own
           tasks == IF told THEN Append(m.tasks, t) ELSE m.tasks
           n == [m EXCEPT !.events = Tail(@), !.bodies[event.path] = body, !.tasks = tasks]
<1>1. /\ FileTypes /\ m \in Monitor /\ client[p] \in Configuration /\ MonitorInvariant(m, client[p])
      /\ monitor \in [files!Processes -> Monitor]
    BY DEF FilesInvariant, FileTypes
<1>2. m.events # <<>> /\ monitor' = [monitor EXCEPT ![p] = n]
    BY DEF files!StreamCallback
<1>3. UNCHANGED <<user_file, system_file, last_valid, replacing, client, version>>
    BY DEF files!StreamCallback
<1>4. m.running
    BY <1>1, <1>2 DEF MonitorInvariant, files!NoMonitor
<1>5. event \in MonitorEvent /\ Tail(m.events) \in Seq(MonitorEvent)
    <2>1. m.events \in Seq(MonitorEvent)
        BY <1>1 DEF Monitor
    <2> HIDE DEF m, MonitorEvent
    <2> QED
        BY <1>2, <2>1
<1>6. event.path \in {"user", "system"}
    BY <1>5 DEF MonitorEvent
<1>7. body \in Body
    BY <1>1, <1>6 DEF FileTypes, files!File, files!Body, File, Body, Loadable, files!Missing, files!Bad
<1> HIDE DEF m, event
<1>8. t \in MonitorTask /\ t.name = "file_changed" /\ t.file = body
    BY <1>6, <1>7 DEF files!FileChanged, MonitorTask
<1> HIDE DEF body, t, told
<1>9. tasks \in Seq(MonitorTask)
    <2>1. m.tasks \in Seq(MonitorTask)
        BY <1>1 DEF Monitor
    <2> QED
        BY <1>8, <2>1
<1>10. /\ n \in Monitor /\ n.running = m.running /\ n.tasks = tasks
       /\ n.load_state = m.load_state /\ n.current = m.current
    <2> DEFINE events == Tail(m.events)
               bodies == [m.bodies EXCEPT ![event.path] = body]
    <2>1. bodies \in [{"user", "system"} -> Body] /\ events \in Seq(MonitorEvent)
        BY <1>1, <1>5, <1>6, <1>7 DEF Monitor
    <2>2. n = [m EXCEPT !.events = events, !.bodies = bodies, !.tasks = tasks]
        BY <1>1 DEF Monitor
    <2> HIDE DEF n, events, bodies, tasks
    <2> QED
        BY <1>1, <1>9, <2>1, <2>2 DEF Monitor
<1> HIDE DEF n
<1>11. m.load_state = "loaded" => EndsWithConfiguration(tasks, client[p])
    <2>1. m.tasks \in Seq(MonitorTask) /\ ~ TakesAway(t)
        BY <1>1, <1>8 DEF Monitor, TakesAway
    <2>2. m.load_state = "loaded" => EndsWithConfiguration(m.tasks, client[p])
        BY <1>1 DEF MonitorInvariant
    <2> QED
        BY <1>8, <2>1, <2>2, TaskAppended
<1>12. m.load_state = "none" => \A i \in DOMAIN tasks : tasks[i].name = "file_changed"
    <2>1. m.tasks \in Seq(MonitorTask)
        BY <1>1 DEF Monitor
    <2>2. \A i \in DOMAIN tasks : (i \in DOMAIN m.tasks /\ tasks[i] = m.tasks[i]) \/ tasks[i] = t
        <3> HIDE DEF MonitorTask
        <3> QED
            BY <1>8, <2>1
    <2> QED
        BY <1>1, <1>8, <2>2 DEF MonitorInvariant
<1>13. MonitorInvariant(n, client[p])
    BY <1>1, <1>4, <1>10, <1>11, <1>12 DEF MonitorInvariant
<1>14. ProcessesKept
    <2>1. client' = [client EXCEPT ![p] = client[p]]
        BY <1>1, <1>3 DEF FileTypes
    <2> QED
        BY <1>1, <1>2, <1>10, <1>13, <2>1, OneProcess
<1>15. NothingStale'
    <2> SUFFICES ASSUME replacing, ~ files!Exists(user_file), ~ files!Exists(system_file),
                        NEW q \in files!Processes
                 PROVE  HearsOfRemovals(monitor'[q])
        BY <1>3 DEF NothingStale, files!Exists, HearsOfRemovals
    <2>1. HearsOfRemovals(monitor[q])
        BY DEF FilesInvariant, NothingStale
    <2>2. body = files!Missing
        BY <1>1, <1>6 DEF body, files!Body, files!File, files!Exists, FileTypes, File, files!Missing, files!Bad
    <2>3. p = q => HearsOfRemovals(n)
        <3>1. CASE told
            BY <1>1, <1>8, <1>10, <2>1, <2>2, <3>1, HearsAppended DEF m
        <3>2. CASE ~ told
            BY <1>10, <2>1, <3>2 DEF HearsOfRemovals, m
        <3> QED
            BY <3>1, <3>2
    <2> QED
        BY <1>1, <1>2, <2>1, <2>3
<1> QED
    BY <1>1, <1>3, <1>14, <1>15 DEF FilesInvariant, FileTypes, ProcessesKept

\* What a step of one process must leave alone, or nothing is in the way of a file.
LEMMA OneHearer ==
    ASSUME FilesInvariant, NEW p \in files!Processes, NEW n,
           monitor' = [monitor EXCEPT ![p] = n],
           UNCHANGED <<user_file, system_file, replacing>>,
           replacing /\ HearsOfRemovals(monitor[p]) => HearsOfRemovals(n)
    PROVE  NothingStale'
<1> SUFFICES ASSUME replacing, ~ files!Exists(user_file), ~ files!Exists(system_file),
                    NEW q \in files!Processes
             PROVE  HearsOfRemovals(monitor'[q])
    BY DEF NothingStale, files!Exists, HearsOfRemovals
<1>1. HearsOfRemovals(monitor[q])
    BY DEF FilesInvariant, NothingStale
<1>2. monitor'[q] = IF q = p THEN n ELSE monitor[q]
    BY DEF FilesInvariant, FileTypes
<1> QED
    BY <1>1, <1>2

\* A process hears of a change and loads the file that is there now.
LEMMA ChangedFileKeepsFiles ==
    ASSUME FilesInvariant, NEW p \in files!Processes, files!ChangedFile(p)
    PROVE  FilesInvariant'
<1> DEFINE task == Head(monitor[p].tasks)
           rest == files!Rest(p)
           n == files!file_changed(rest, task.path, task.file)
<1>1. /\ monitor[p].tasks # <<>> /\ task.name = "file_changed"
      /\ monitor' = [monitor EXCEPT ![p] = n]
      /\ UNCHANGED <<user_file, system_file, last_valid, replacing, client, version>>
    BY DEF files!ChangedFile, files!Task
<1>2. /\ rest \in Monitor /\ rest.running /\ task \in MonitorTask /\ client[p] \in Configuration
    BY <1>1, FirstTask
<1>3. task.path \in {"user", "system"} /\ task.file \in Body
    BY <1>1, <1>2 DEF MonitorTask
<1>4. ~ Announces(task)
    BY <1>1 DEF Announces
<1>5. /\ MonitorInvariant(rest, client[p])
      /\ HearsOfRemovals(monitor[p]) => HearsOfRemovals(rest)
    BY <1>1, <1>4, RestKeeps
<1>6. FileTypes
    BY DEF FilesInvariant
<1> HIDE DEF rest, task
<1>7. /\ n \in Monitor /\ MonitorInvariant(n, client[p])
      /\ HearsOfRemovals(rest) => HearsOfRemovals(n)
    BY <1>2, <1>3, <1>5, <1>6, FileChangedKeeps
<1> HIDE DEF n
<1>8. ProcessesKept
    <2>1. client' = [client EXCEPT ![p] = client[p]]
        BY <1>1, <1>6 DEF FileTypes
    <2> QED
        BY <1>1, <1>2, <1>7, <2>1, OneProcess
<1>9. NothingStale'
    BY <1>1, <1>5, <1>7, OneHearer
<1> QED
    BY <1>1, <1>6, <1>8, <1>9 DEF FilesInvariant, FileTypes, ProcessesKept

\* The file did not come back.
LEMMA FileRemovalKeepsFiles ==
    ASSUME FilesInvariant, NEW p \in files!Processes, files!FileRemovalTask(p)
    PROVE  FilesInvariant'
<1> DEFINE m == monitor[p]
           ready == [m EXCEPT !.removal = "none"]
           n == files!handle_file_changed(ready, m.removal)
<1>1. /\ FileTypes /\ m \in Monitor /\ client[p] \in Configuration /\ MonitorInvariant(m, client[p])
    BY DEF FilesInvariant, FileTypes
<1>2. /\ m.removal # "none" /\ ~ replacing /\ monitor' = [monitor EXCEPT ![p] = n]
      /\ UNCHANGED <<user_file, system_file, last_valid, replacing, client, version>>
    BY DEF files!FileRemovalTask
<1>3. m.running
    BY <1>1, <1>2 DEF MonitorInvariant, files!NoMonitor
<1>4. ready \in Monitor /\ SameTasks(m, ready) /\ ready.running
    <2> HIDE DEF m
    <2> QED
        BY <1>1, <1>3 DEF Monitor, SameTasks
<1>5. files!FileToLoad \in File
    BY <1>1 DEF FileTypes, files!FileToLoad
<1>6. MonitorInvariant(ready, client[p])
    BY <1>1, <1>3, <1>4, SameTasksKeep
<1>7. n = ready \/ n = files!Loaded(ready, files!FileToLoad)
    BY DEF files!handle_file_changed
<1> HIDE DEF ready, n
<1>8. n \in Monitor /\ MonitorInvariant(n, client[p])
    BY <1>4, <1>5, <1>6, <1>7, LoadedKeeps
<1>9. ProcessesKept
    <2>1. client' = [client EXCEPT ![p] = client[p]]
        BY <1>1, <1>2 DEF FileTypes
    <2> QED
        BY <1>1, <1>2, <1>8, <2>1, OneProcess
<1>10. NothingStale'
    BY <1>2 DEF NothingStale
<1> QED
    BY <1>1, <1>2, <1>9, <1>10 DEF FilesInvariant, FileTypes, ProcessesKept

\* A configuration is handed over.
LEMMA UpdatedKeepsFiles ==
    ASSUME FilesInvariant, NEW p \in files!Processes, files!ConfigurationUpdated(p)
    PROVE  FilesInvariant'
<1> DEFINE task == Head(monitor[p].tasks)
           rest == files!Rest(p)
<1>1. /\ monitor[p].tasks # <<>> /\ task.name = "core_configuration_updated"
      /\ monitor' = [monitor EXCEPT ![p] = rest] /\ client' = [client EXCEPT ![p] = task.file]
      /\ UNCHANGED <<user_file, system_file, last_valid, replacing, version>>
    BY DEF files!ConfigurationUpdated, files!Task, files!Told
<1>2. rest \in Monitor /\ task \in MonitorTask
    BY <1>1, FirstTask
<1>3. task.file \in Configuration /\ task.file # files!Nothing
    BY <1>1, <1>2 DEF MonitorTask, Configuration, Loadable, files!Nothing, files!Bad
<1>4. /\ MonitorInvariant(rest, task.file)
      /\ HearsOfRemovals(monitor[p]) => HearsOfRemovals(rest)
    BY <1>1, <1>3, RestKeeps
<1> HIDE DEF rest, task
<1>5. ProcessesKept
    BY <1>1, <1>2, <1>3, <1>4, OneProcess
<1>6. NothingStale'
    BY <1>1, <1>4, OneHearer
<1>7. client'["cli"] = client["cli"]
    <2>1. p # "cli" /\ client \in [files!Processes -> Configuration]
        BY DEF files!ConfigurationUpdated, FilesInvariant, FileTypes
    <2> QED
        BY <1>1, <2>1
<1> QED
    BY <1>1, <1>5, <1>6, <1>7 DEF FilesInvariant, FileTypes, ProcessesKept

\* Only the menu drops what it has.
LEMMA LoadStateKeepsFiles ==
    ASSUME FilesInvariant, NEW p \in files!Processes, files!LoadStateIsNew(p)
    PROVE  FilesInvariant'
<1> DEFINE task == Head(monitor[p].tasks)
           rest == files!Rest(p)
           d == IF task.path # "loaded" /\ p = "console_user_server" THEN files!Nothing ELSE client[p]
<1>1. /\ monitor[p].tasks # <<>> /\ task.name = "load_state_changed"
      /\ monitor' = [monitor EXCEPT ![p] = rest]
      /\ UNCHANGED <<user_file, system_file, last_valid, replacing, version>>
    BY DEF files!LoadStateIsNew, files!Task
<1>2. client \in [files!Processes -> Configuration]
    BY DEF FilesInvariant, FileTypes
<1>3. client' = [client EXCEPT ![p] = d]
    BY <1>2 DEF files!LoadStateIsNew, files!Told
<1>4. rest \in Monitor
    BY <1>1, FirstTask
<1>5. d \in Configuration
    BY <1>2 DEF Configuration, files!Nothing, files!Bad
<1>6. TakesAway(task) \/ (d = client[p] /\ ~ Announces(task))
    BY <1>1 DEF TakesAway, Announces
<1> HIDE DEF d
<1>7. /\ MonitorInvariant(rest, d)
      /\ HearsOfRemovals(monitor[p]) => HearsOfRemovals(rest)
    BY <1>1, <1>6, RestKeeps
<1> HIDE DEF rest, task
<1>8. ProcessesKept
    BY <1>1, <1>3, <1>4, <1>5, <1>7, OneProcess
<1>9. NothingStale'
    BY <1>1, <1>7, OneHearer
<1>10. client'["cli"] = client["cli"]
    <2>1. "cli" # "console_user_server"
        OBVIOUS
    <2>2. CASE p = "cli"
        BY <1>2, <1>3, <2>1, <2>2 DEF d
    <2>3. CASE p # "cli"
        BY <1>2, <1>3, <2>3
    <2> QED
        BY <2>2, <2>3
<1> QED
    BY <1>1, <1>8, <1>9, <1>10 DEF FilesInvariant, FileTypes, ProcessesKept

-----------------------------------------------------------------------------
(* Saving.                                                                   *)

\* The file that is saved is one with a configuration.
LEMMA SavedFile ==
    ASSUME NEW configuration \in Loadable
    PROVE  files!Content(configuration) \in File /\ files!Exists(files!Content(configuration))
BY ServicesAssumption
DEF files!Content, files!Valid, files!Missing, files!Bad, files!Exists, File, Loadable

\* A save leaves the processes as they are, apart from what the writer did.
LEMMA SaveKeepsFiles ==
    ASSUME FilesInvariant,
           NEW monitors \in [files!Processes -> Monitor], NEW clients \in [files!Processes -> Configuration],
           \A q \in files!Processes : MonitorInvariant(monitors[q], clients[q]),
           clients["cli"] = files!Nothing, client' = clients,
           NEW writer, NEW configuration \in Loadable,
           files!Save(monitors, writer, configuration), system_file' = system_file, version' \in Nat
    PROVE  FilesInvariant'
<1>1. /\ user_file' = files!Content(configuration) /\ last_valid' = user_file'
      /\ monitor' = files!Notify(monitors, "user", writer)
    BY DEF files!Save
<1>2. user_file' \in File /\ files!Exists(user_file)'
    BY <1>1, SavedFile DEF files!Exists
<1>3. /\ monitor' \in [files!Processes -> Monitor]
      /\ \A q \in files!Processes : MonitorInvariant(monitor'[q], clients[q])
    BY <1>1, NotifyKeeps
<1>4. NothingStale'
    BY <1>2 DEF NothingStale
<1>5. FileTypes'
    BY <1>1, <1>2, <1>3 DEF FilesInvariant, FileTypes
<1> QED
    BY <1>3, <1>4, <1>5 DEF FilesInvariant

\* What is edited is a configuration that was loaded.
LEMMA EditedKeeps ==
    ASSUME NEW m \in Monitor, NEW c, MonitorInvariant(m, c), c # files!Nothing,
           NEW configuration \in Loadable
    PROVE  /\ files!Edited(m, configuration) \in Monitor
           /\ files!Edited(m, configuration).tasks = m.tasks
           /\ files!Edited(m, configuration).current \in {m.current, configuration}
           /\ MonitorInvariant(files!Edited(m, configuration), configuration)
<1> DEFINE n == files!Edited(m, configuration)
           edited == [m EXCEPT !.current = configuration]
<1>1. configuration \in Configuration /\ configuration # files!Nothing
    BY DEF Configuration, Loadable, files!Nothing, files!Bad
<1>2. /\ edited \in Monitor /\ edited.tasks = m.tasks /\ edited.running = m.running
      /\ edited.load_state = m.load_state /\ edited.current = configuration
    BY <1>1 DEF Monitor
<1>3. n = edited \/ n = m
    BY DEF files!Edited
<1> HIDE DEF n, edited
<1>4. /\ n \in Monitor /\ n.tasks = m.tasks /\ n.running = m.running
      /\ n.load_state = m.load_state /\ n.current \in {m.current, configuration}
    BY <1>2, <1>3
<1>5. MonitorInvariant(n, configuration)
    BY <1>1, <1>4 DEF MonitorInvariant, EndsWithConfiguration
<1> QED
    BY <1>4, <1>5 DEF n

\* The user's next configuration.
LEMMA FreshIsLoadable ==
    ASSUME FilesInvariant
    PROVE  files!Fresh \in Loadable /\ files!Fresh # files!Missing
BY DEF FilesInvariant, FileTypes, files!Fresh, files!Valid, Loadable, files!Missing, files!Bad

\* A process that ends, or has not started, knows nothing.
LEMMA NoMonitorIsOne ==
    files!NoMonitor \in Monitor /\ MonitorInvariant(files!NoMonitor, files!Nothing)
        /\ HearsOfRemovals(files!NoMonitor) /\ files!Nothing \in Configuration
<1>1. files!Missing \in Body /\ files!Nothing \in Configuration
    BY DEF files!Missing, files!Nothing, files!Bad, Body, Loadable, Configuration
<1>2. files!NoMonitor \in Monitor
    BY <1>1 DEF files!NoMonitor, files!Paths, Monitor
<1> QED
    BY <1>1, <1>2 DEF files!NoMonitor, MonitorInvariant, HearsOfRemovals

\* The profile menu.
LEMMA SelectProfileKeepsFiles ==
    ASSUME FilesInvariant, files!SelectProfile
    PROVE  FilesInvariant'
<1> DEFINE p == "console_user_server"
           fresh == files!Fresh
           n == files!Edited(monitor[p], fresh)
           monitors == [monitor EXCEPT ![p] = n]
           clients == [client EXCEPT ![p] = fresh]
<1>1. /\ client[p] # files!Nothing /\ client' = clients
      /\ files!Save(monitors, p, fresh)
      /\ system_file' = system_file /\ version' = version + 1
    BY DEF files!SelectProfile, files!UserChoice
<1>2. /\ monitor \in [files!Processes -> Monitor] /\ client \in [files!Processes -> Configuration]
      /\ version \in Nat /\ client["cli"] = files!Nothing
      /\ \A q \in files!Processes : MonitorInvariant(monitor[q], client[q])
    BY DEF FilesInvariant, FileTypes
<1>3. p \in files!Processes /\ p # "cli"
    BY DEF files!Processes
<1>4. fresh \in Loadable /\ fresh \in Configuration
    BY FreshIsLoadable DEF Configuration
<1> HIDE DEF p, fresh
<1>5. n \in Monitor /\ MonitorInvariant(n, fresh)
    BY <1>1, <1>2, <1>3, <1>4, EditedKeeps
<1> HIDE DEF n
<1>6. /\ monitors \in [files!Processes -> Monitor] /\ clients \in [files!Processes -> Configuration]
      /\ \A q \in files!Processes : MonitorInvariant(monitors[q], clients[q])
      /\ clients["cli"] = files!Nothing
    BY <1>2, <1>3, <1>4, <1>5 DEF files!Processes
<1> HIDE DEF monitors, clients
<1>7. version' \in Nat
    BY <1>1, <1>2
<1> QED
    BY <1>1, <1>4, <1>6, <1>7, SaveKeepsFiles

\* An edit in the Settings window, saved later.
LEMMA EditSettingsKeepsFiles ==
    ASSUME FilesInvariant, files!EditSettings
    PROVE  FilesInvariant'
<1> DEFINE p == "settings"
           fresh == files!Fresh
           n == files!Edited(monitor[p], fresh)
<1>1. /\ UNCHANGED <<user_file, system_file, last_valid, replacing>> /\ version' = version + 1
    BY DEF files!EditSettings, files!UserChoice
<1>2. /\ monitor \in [files!Processes -> Monitor] /\ client \in [files!Processes -> Configuration]
      /\ version \in Nat /\ client["cli"] = files!Nothing /\ FileTypes
      /\ \A q \in files!Processes : MonitorInvariant(monitor[q], client[q])
    BY DEF FilesInvariant, FileTypes
<1>3. version' \in Nat
    BY <1>1, <1>2
<1>4. CASE files!CurrentOfSettings
    <2>1. /\ client[p] # files!Nothing /\ client' = [client EXCEPT ![p] = fresh]
          /\ monitor' = [monitor EXCEPT ![p] = n]
        BY <1>4 DEF files!EditSettings, files!CurrentOfSettings
    <2>2. p \in files!Processes /\ p # "cli"
        BY DEF files!Processes
    <2>3. fresh \in Loadable /\ fresh \in Configuration
        BY FreshIsLoadable DEF Configuration
    <2> HIDE DEF p, fresh
    <2>4. n \in Monitor /\ MonitorInvariant(n, fresh) /\ n.tasks = monitor[p].tasks
        BY <1>2, <2>1, <2>2, <2>3, EditedKeeps
    <2> HIDE DEF n
    <2>5. ProcessesKept
        BY <2>1, <2>2, <2>3, <2>4, OneProcess
    <2>6. NothingStale'
        BY <1>1, <2>1, <2>2, <2>4, OneHearer DEF HearsOfRemovals
    <2>7. client'["cli"] = client["cli"]
        BY <1>2, <2>1, <2>2
    <2> QED
        BY <1>1, <1>2, <1>3, <2>5, <2>6, <2>7 DEF FilesInvariant, FileTypes, ProcessesKept
<1>5. CASE ~ files!CurrentOfSettings
    <2>1. UNCHANGED <<client, monitor>>
        BY <1>5 DEF files!EditSettings
    <2>2. NothingStale'
        BY <1>1, <2>1 DEF NothingStale, FilesInvariant, files!Exists, HearsOfRemovals
    <2> QED
        BY <1>1, <1>2, <1>3, <2>1, <2>2 DEF FilesInvariant, FileTypes
<1> QED
    BY <1>4, <1>5

\* What CurrentOfSettings promises, and what is saved of it.
LEMMA SettingsHaveIt ==
    ASSUME FilesInvariant, files!CurrentOfSettings
    PROVE  client["settings"] \in Loadable
<1>1. client["settings"] \in Configuration
    BY DEF FilesInvariant, FileTypes, files!Processes
<1> QED
    BY <1>1 DEF files!CurrentOfSettings, Configuration, files!Nothing, files!Bad

\* The edit is saved a little later.
LEMMA DebouncedSaveKeepsFiles ==
    ASSUME FilesInvariant, files!DebouncedSave
    PROVE  FilesInvariant'
<1>1. /\ UNCHANGED <<system_file, replacing, client, version>>
      /\ FileTypes /\ client["cli"] = files!Nothing
      /\ monitor \in [files!Processes -> Monitor] /\ client \in [files!Processes -> Configuration]
      /\ \A q \in files!Processes : MonitorInvariant(monitor[q], client[q])
    BY DEF files!DebouncedSave, FilesInvariant, FileTypes
<1>2. CASE settings.loaded /\ files!CurrentOfSettings
    <2>1. files!Save(monitor, "settings", client["settings"])
        BY <1>2 DEF files!DebouncedSave
    <2>2. client["settings"] \in Loadable /\ version' \in Nat
        BY <1>1, <1>2, SettingsHaveIt DEF FileTypes
    <2> QED
        BY <1>1, <2>1, <2>2, SaveKeepsFiles
<1>3. CASE ~ (settings.loaded /\ files!CurrentOfSettings)
    <2>1. UNCHANGED <<user_file, last_valid, monitor>>
        BY <1>3 DEF files!DebouncedSave
    <2>2. NothingStale'
        BY <1>1, <2>1 DEF NothingStale, FilesInvariant, files!Exists, HearsOfRemovals
    <2> QED
        BY <1>1, <2>1, <2>2 DEF FilesInvariant, FileTypes
<1> QED
    BY <1>2, <1>3

\* The Settings window is closed; an edit is saved before.
LEMMA StopSettingsKeepsFiles ==
    ASSUME FilesInvariant, files!StopSettings
    PROVE  FilesInvariant'
<1> DEFINE p == "settings"
           monitors == [monitor EXCEPT ![p] = files!NoMonitor]
           clients == [client EXCEPT ![p] = files!Nothing]
<1>1. /\ UNCHANGED <<system_file, replacing, version>> /\ client' = clients
      /\ FileTypes /\ client["cli"] = files!Nothing
      /\ monitor \in [files!Processes -> Monitor] /\ client \in [files!Processes -> Configuration]
      /\ \A q \in files!Processes : MonitorInvariant(monitor[q], client[q])
    BY DEF files!StopSettings, FilesInvariant, FileTypes
<1>2. p \in files!Processes /\ p # "cli"
    BY DEF files!Processes
<1>3. CASE settings.pending /\ files!CurrentOfSettings
    <2>1. files!Save(monitors, p, client[p])
        BY <1>3 DEF files!StopSettings
    <2>2. client[p] \in Loadable /\ version' \in Nat
        BY <1>1, <1>3, SettingsHaveIt DEF FileTypes
    <2> HIDE DEF p
    <2>3. /\ monitors \in [files!Processes -> Monitor] /\ clients \in [files!Processes -> Configuration]
          /\ \A q \in files!Processes : MonitorInvariant(monitors[q], clients[q])
          /\ clients["cli"] = files!Nothing
        BY <1>1, <1>2, NoMonitorIsOne
    <2> HIDE DEF monitors, clients
    <2> QED
        BY <1>1, <2>1, <2>2, <2>3, SaveKeepsFiles
<1>4. CASE ~ (settings.pending /\ files!CurrentOfSettings)
    <2>1. UNCHANGED <<user_file, last_valid>> /\ monitor' = monitors
        BY <1>4 DEF files!StopSettings
    <2> HIDE DEF p
    <2>2. ProcessesKept
        BY <1>1, <1>2, <2>1, NoMonitorIsOne, OneProcess
    <2>3. NothingStale'
        BY <1>1, <1>2, <2>1, NoMonitorIsOne, OneHearer
    <2>4. client'["cli"] = client["cli"]
        BY <1>1, <1>2
    <2> QED
        BY <1>1, <2>1, <2>2, <2>3, <2>4 DEF FilesInvariant, FileTypes, ProcessesKept
<1> QED
    BY <1>3, <1>4

\* The command line saves what it was told, and is gone.
LEMMA CommandLineKeepsFiles ==
    ASSUME FilesInvariant, files!CommandLine
    PROVE  FilesInvariant'
<1> DEFINE p == "cli"
           fresh == files!Fresh
           monitors == [monitor EXCEPT ![p] = files!NoMonitor]
<1>1. /\ system_file' = system_file /\ client' = client /\ version' = version + 1
      /\ files!Save(monitors, p, fresh)
      /\ version \in Nat /\ client[p] = files!Nothing
      /\ monitor \in [files!Processes -> Monitor] /\ client \in [files!Processes -> Configuration]
      /\ \A q \in files!Processes : MonitorInvariant(monitor[q], client[q])
    BY DEF files!CommandLine, FilesInvariant, FileTypes
<1>2. fresh \in Loadable
    BY FreshIsLoadable
<1>3. p \in files!Processes
    BY DEF files!Processes
<1> HIDE DEF fresh
<1>4. /\ monitors \in [files!Processes -> Monitor]
      /\ \A q \in files!Processes : MonitorInvariant(monitors[q], client[q])
    BY <1>1, <1>3, NoMonitorIsOne
<1>5. version' \in Nat
    BY <1>1
<1> HIDE DEF monitors
<1> QED
    BY <1>1, <1>2, <1>4, <1>5, SaveKeepsFiles

\* A process that starts hears of both files as they are.
LEMMA StartedIsOne ==
    ASSUME user_file \in File, system_file \in File
    PROVE  /\ files!Started \in Monitor /\ MonitorInvariant(files!Started, files!Nothing)
           /\ ~ files!Exists(user_file) /\ ~ files!Exists(system_file) => HearsOfRemovals(files!Started)
<1> DEFINE body(path) == files!Body(files!File(path))
           bodies == [path \in {"user", "system"} |-> body(path)]
           t == files!FileChanged("user", files!Body(user_file))
           u == files!FileChanged("system", files!Body(system_file))
           n == files!Started
<1>1. files!Body(user_file) \in Body /\ files!Body(system_file) \in Body
    BY DEF files!Body, File, Body, Loadable, files!Missing, files!Bad
<1>2. t \in MonitorTask /\ u \in MonitorTask
    BY <1>1 DEF files!FileChanged, MonitorTask
<1>3. bodies \in [{"user", "system"} -> Body]
    BY <1>1 DEF files!File
<1>4. /\ t.name = "file_changed" /\ t.file = files!Body(user_file)
      /\ u.name = "file_changed" /\ u.file = files!Body(system_file)
    BY DEF files!FileChanged
<1> HIDE DEF t, u, bodies
<1>5. n = [files!NoMonitor EXCEPT !.running = TRUE, !.bodies = bodies, !.tasks = <<t, u>>]
    BY DEF files!Started, files!Paths, bodies, t, u
<1>6. /\ n \in Monitor /\ n.running = TRUE /\ n.tasks = <<t, u>> /\ n.load_state = "none"
      /\ n.current = files!Nothing
    <2> DEFINE tasks == <<t, u>>
    <2>1. tasks \in Seq(MonitorTask)
        <3> HIDE DEF MonitorTask
        <3> QED
            BY <1>2
    <2>2. n = [files!NoMonitor EXCEPT !.running = TRUE, !.bodies = bodies, !.tasks = tasks]
        BY <1>5
    <2> HIDE DEF tasks, n
    <2>3. /\ n \in Monitor /\ n.running = TRUE /\ n.tasks = tasks /\ n.load_state = "none"
          /\ n.current = files!Nothing
        <3>1. files!NoMonitor \in Monitor
            BY NoMonitorIsOne
        <3>2. /\ n \in Monitor /\ n.running = TRUE /\ n.tasks = tasks
              /\ n.load_state = files!NoMonitor.load_state /\ n.current = files!NoMonitor.current
            BY <1>3, <2>1, <2>2, <3>1 DEF Monitor
        <3> QED
            BY <3>2 DEF files!NoMonitor
    <2> QED
        BY <2>3 DEF tasks
<1> HIDE DEF n
<1>7. \A i \in DOMAIN n.tasks : n.tasks[i] = t \/ n.tasks[i] = u
    BY <1>6
<1>8. MonitorInvariant(n, files!Nothing)
    BY <1>4, <1>6, <1>7 DEF MonitorInvariant
<1>9. ASSUME ~ files!Exists(user_file), ~ files!Exists(system_file)
      PROVE  HearsOfRemovals(n)
    <2>1. t.file = files!Missing /\ u.file = files!Missing
        BY <1>4, <1>9 DEF files!Body, files!Exists, File, files!Missing, files!Bad
    <2> QED
        BY <1>7, <2>1 DEF HearsOfRemovals
<1> QED
    BY <1>6, <1>8, <1>9 DEF n

\* A process starts while others go on.
LEMMA StartKeepsFiles ==
    ASSUME FilesInvariant, NEW p \in files!Processes, files!StartProcess(p)
    PROVE  FilesInvariant'
<1>1. /\ ~ monitor[p].running /\ monitor' = [monitor EXCEPT ![p] = files!Started]
      /\ UNCHANGED <<user_file, system_file, last_valid, replacing, client, version>>
      /\ FileTypes /\ client["cli"] = files!Nothing /\ client[p] \in Configuration
      /\ client \in [files!Processes -> Configuration] /\ monitor \in [files!Processes -> Monitor]
    BY DEF files!StartProcess, FilesInvariant, FileTypes
<1>2. client[p] = files!Nothing
    BY <1>1 DEF FilesInvariant, MonitorInvariant
<1>3. /\ files!Started \in Monitor /\ MonitorInvariant(files!Started, client[p])
      /\ ~ files!Exists(user_file) /\ ~ files!Exists(system_file) => HearsOfRemovals(files!Started)
    BY <1>1, <1>2, StartedIsOne DEF FileTypes
<1>4. ProcessesKept
    <2>1. client' = [client EXCEPT ![p] = client[p]]
        BY <1>1
    <2> QED
        BY <1>1, <1>3, <2>1, OneProcess
<1>5. NothingStale'
    <2> SUFFICES ASSUME replacing, ~ files!Exists(user_file), ~ files!Exists(system_file),
                        NEW q \in files!Processes
                 PROVE  HearsOfRemovals(monitor'[q])
        BY <1>1 DEF NothingStale, files!Exists, HearsOfRemovals
    <2>1. HearsOfRemovals(monitor[q]) /\ HearsOfRemovals(files!Started)
        BY <1>3 DEF FilesInvariant, NothingStale
    <2>2. monitor'[q] = IF q = p THEN files!Started ELSE monitor[q]
        BY <1>1
    <2> QED
        BY <2>1, <2>2
<1> QED
    BY <1>1, <1>4, <1>5 DEF FilesInvariant, FileTypes, ProcessesKept

\* A file changes under everybody's hands: nobody has still to hear of another
\* change, and everybody is notified.
LEMMA FileChangesKeepFiles ==
    ASSUME FilesInvariant, NEW path \in {"user", "system"}, NEW writer,
           monitor' = files!Notify(monitor, path, writer), client' = client,
           user_file' \in File, system_file' \in File, last_valid' \in File, version' \in Nat,
           \/ replacing' = FALSE
           \/ \A q \in files!Processes : \A i \in DOMAIN monitor[q].tasks :
                  monitor[q].tasks[i].name # "file_changed"
    PROVE  FilesInvariant'
<1>1. /\ monitor \in [files!Processes -> Monitor] /\ client["cli"] = files!Nothing
      /\ client \in [files!Processes -> Configuration]
      /\ \A q \in files!Processes : MonitorInvariant(monitor[q], client[q])
    BY DEF FilesInvariant, FileTypes
<1>2. /\ monitor' \in [files!Processes -> Monitor]
      /\ \A q \in files!Processes : SameTasks(monitor[q], monitor'[q]) /\ MonitorInvariant(monitor'[q], client[q])
    BY <1>1, NotifyKeeps
<1>3. NothingStale'
    BY <1>2 DEF NothingStale, HearsOfRemovals, SameTasks
<1> QED
    BY <1>1, <1>2, <1>3 DEF FilesInvariant, FileTypes

\* Nobody has still to hear of a change.
LEMMA NobodyReads ==
    ASSUME FilesInvariant, files!FilesMayChange("editor")
    PROVE  \A q \in files!Processes : \A i \in DOMAIN monitor[q].tasks :
               monitor[q].tasks[i].name # "file_changed"
<1>1. \A q \in files!Processes : q # "editor"
    BY DEF files!Processes
<1>2. \A q \in files!Processes : \A i \in 1..Len(monitor[q].tasks) :
          monitor[q].tasks[i].name # "file_changed"
    BY <1>1 DEF files!FilesMayChange
<1>3. \A q \in files!Processes : DOMAIN monitor[q].tasks = 1..Len(monitor[q].tasks)
    BY DEF FilesInvariant, FileTypes, Monitor
<1> QED
    BY <1>2, <1>3

\* An editor writes the file, removes it, or brings it back.
LEMMA WriteKeepsFiles ==
    ASSUME FilesInvariant, NEW file \in File, files!Write(file),
           UNCHANGED <<system_file, client>>, replacing' \in BOOLEAN
    PROVE  FilesInvariant'
<1>1. /\ monitor' = files!Notify(monitor, "user", "editor") /\ user_file' = file
      /\ last_valid' \in {file, last_valid}
      /\ version' \in {version, version + 1}
      /\ FileTypes
    BY DEF files!Write, FilesInvariant
<1>2. /\ version' \in Nat /\ last_valid' \in File /\ system_file' \in File
    BY <1>1 DEF FileTypes
<1>3. files!FilesMayChange("editor")
    BY DEF files!Write
<1> QED
    BY <1>1, <1>2, <1>3, NobodyReads, FileChangesKeepFiles

\* The editor and the administrator.
LEMMA EditorKeepsFiles ==
    ASSUME FilesInvariant,
           \/ \E file \in {files!Fresh, last_valid, files!Missing, files!Bad("broken"),
                           files!Bad("unreadable")} : files!EditorWrites(file)
           \/ files!Recreates \/ files!EditorReplaces \/ files!SystemFileChanges
    PROVE  FilesInvariant'
<1>1. /\ files!Fresh \in File /\ last_valid \in File /\ files!Missing \in File
      /\ files!Bad("broken") \in File /\ files!Bad("unreadable") \in File
    BY FreshIsLoadable DEF FilesInvariant, FileTypes, File, Loadable, files!Missing, files!Bad
<1>2. ASSUME NEW file \in File, files!EditorWrites(file) \/ files!EditorRecreates(file)
      PROVE  FilesInvariant'
    <2>1. /\ files!Write(file) /\ UNCHANGED <<system_file, client>> /\ replacing' = FALSE
        BY <1>2 DEF files!EditorWrites, files!EditorRecreates
    <2> QED
        BY <2>1, WriteKeepsFiles
<1>3. CASE files!EditorReplaces
    <2>1. /\ files!Write(files!Missing) /\ UNCHANGED <<system_file, client>> /\ replacing' = TRUE
        BY <1>3 DEF files!EditorReplaces
    <2> QED
        BY <1>1, <2>1, WriteKeepsFiles
<1>4. CASE files!SystemFileChanges
    <2>1. /\ monitor' = files!Notify(monitor, "system", "editor")
          /\ UNCHANGED <<user_file, last_valid, replacing, client, version>>
          /\ system_file' \in {files!Missing, files!Valid(0)} /\ files!FilesMayChange("editor")
          /\ FileTypes
        BY <1>4 DEF files!SystemFileChanges, FilesInvariant
    <2>2. system_file' \in File /\ user_file' \in File /\ last_valid' \in File /\ version' \in Nat
        BY <1>1, <2>1 DEF FileTypes, files!Valid, File
    <2> QED
        BY <2>1, <2>2, NobodyReads, FileChangesKeepFiles
<1> QED
    BY <1>1, <1>2, <1>3, <1>4 DEF files!Recreates

\* At first everybody has still to hear of both files.
LEMMA FilesAtFirst == Init => FilesInvariant
<1> SUFFICES ASSUME files!Init
             PROVE  FilesInvariant
    BY DEF Init
<1>1. /\ user_file \in File /\ system_file \in File /\ last_valid \in File /\ version \in Nat
      /\ ~ replacing
    BY DEF files!Init, files!Valid, files!Missing, files!Bad, File
<1>2. client = [p \in files!Processes |-> files!Nothing]
    BY DEF files!Init
<1>3. PICK residents \in Residents :
          monitor = [p \in files!Processes |-> IF p \in residents THEN files!Started ELSE files!NoMonitor]
    BY DEF files!Init
<1>4. /\ files!NoMonitor \in Monitor /\ MonitorInvariant(files!NoMonitor, files!Nothing)
      /\ files!Nothing \in Configuration
    BY NoMonitorIsOne
<1>5. files!Started \in Monitor /\ MonitorInvariant(files!Started, files!Nothing)
    BY <1>1, StartedIsOne
<1>6. \A p \in files!Processes : monitor[p] \in Monitor /\ MonitorInvariant(monitor[p], client[p])
    BY <1>2, <1>3, <1>4, <1>5
<1>7. /\ monitor \in [files!Processes -> Monitor] /\ client \in [files!Processes -> Configuration]
      /\ client["cli"] = files!Nothing
    BY <1>2, <1>3, <1>4, <1>6 DEF files!Processes
<1> QED
    BY <1>1, <1>6, <1>7 DEF FilesInvariant, FileTypes, NothingStale

\* Every step of the processes and of the editors keeps the tasks in order.
LEMMA FilesStep == FilesInvariant /\ [Next]_vars => FilesInvariant'
<1> SUFFICES ASSUME FilesInvariant, [Next]_vars
             PROVE  FilesInvariant'
    OBVIOUS
<1>1. ASSUME UNCHANGED <<user_file, system_file, last_valid, replacing, monitor, client, version>>
      PROVE  FilesInvariant'
    <2>1. NothingStale' <=> NothingStale
        BY <1>1 DEF NothingStale, files!Exists, HearsOfRemovals
    <2> QED
        BY <1>1, <2>1 DEF FilesInvariant, FileTypes
<1>2. CASE InFiles(files!Next)
    <2>1. files!Next
        BY <1>2 DEF InFiles
    <2>2. ASSUME NEW p \in files!Processes, files!Work(p) \/ files!StartProcess(p)
          PROVE  FilesInvariant'
        BY <2>2, StreamKeepsFiles, ChangedFileKeepsFiles, FileRemovalKeepsFiles, UpdatedKeepsFiles,
           LoadStateKeepsFiles, StartKeepsFiles
        DEF files!Work
    <2>3. CASE files!MainActor
        BY <1>1, <2>3 DEF files!MainActor
    <2> QED
        BY <2>1, <2>2, <2>3, SelectProfileKeepsFiles, EditSettingsKeepsFiles, DebouncedSaveKeepsFiles,
           StopSettingsKeepsFiles, CommandLineKeepsFiles, EditorKeepsFiles
        DEF files!Next
<1>3. CASE UNCHANGED configuration_vars
    BY <1>1, <1>3 DEF configuration_vars
<1> QED
    BY <1>2, <1>3 DEF Next, InProcesses, InSession, vars

-----------------------------------------------------------------------------
(* A file that is replaced is not taken for a missing one.                   *)

\* A notification does not change the configuration.
LEMMA NotifyKeepsCurrent ==
    ASSUME NEW monitors \in [files!Processes -> Monitor], NEW path, NEW writer,
           NEW p \in files!Processes
    PROVE  files!Notify(monitors, path, writer)[p].current = monitors[p].current
<1> DEFINE m == monitors[p]
           event == [path |-> path, own |-> p = writer]
<1>1. m \in Monitor
    OBVIOUS
<1> HIDE DEF m
<1>2. /\ files!Notified(p, m, path, writer) \in {m, [m EXCEPT !.events = Append(@, event)]}
    BY DEF files!Notified
<1> HIDE DEF event
<1>3. files!Notified(p, m, path, writer).current = m.current
    BY <1>1, <1>2 DEF Monitor
<1> QED
    BY <1>3 DEF files!Notify, m

\* What a process hears while the file is replaced does not make it load the
\* default configuration.
LEMMA NoDefaultHeard ==
    ASSUME FilesInvariant, replacing, NEW p \in files!Processes, files!ChangedFile(p),
           client[p] # files!Nothing, monitor[p].current # files!Missing
    PROVE  monitor'[p].current # files!Missing
<1> DEFINE task == Head(monitor[p].tasks)
           rest == files!Rest(p)
           n == files!file_changed(rest, task.path, task.file)
<1>1. /\ monitor[p].tasks # <<>> /\ task.name = "file_changed"
      /\ monitor' = [monitor EXCEPT ![p] = n]
    BY DEF files!ChangedFile, files!Task
<1>2. /\ rest \in Monitor /\ rest.running /\ task \in MonitorTask
      /\ rest.load_state = monitor[p].load_state /\ rest.current = monitor[p].current
      /\ task = monitor[p].tasks[1] /\ 1 \in DOMAIN monitor[p].tasks
    BY <1>1, FirstTask
<1>3. task.path \in {"user", "system"} /\ task.file \in Body
    BY <1>1, <1>2 DEF MonitorTask
<1>4. MonitorInvariant(rest, client[p])
    BY <1>1, RestKeeps DEF Announces
<1>5. FileTypes /\ monitor[p].load_state # "none" /\ monitor \in [files!Processes -> Monitor]
    BY DEF FilesInvariant, FileTypes, MonitorInvariant
<1>6. SUFFICES ASSUME n.current = files!Missing
               PROVE  FALSE
    BY <1>1, <1>5
<1> HIDE DEF rest, task
<1>7. files!FileToLoad = files!Missing /\ task.file # files!Missing
    BY <1>2, <1>3, <1>4, <1>5, <1>6, FileChangedKeeps
<1>8. ~ files!Exists(user_file) /\ ~ files!Exists(system_file)
    BY <1>7 DEF files!FileToLoad, files!Exists, files!Missing, files!Bad
<1>9. HearsOfRemovals(monitor[p])
    BY <1>8 DEF FilesInvariant, NothingStale
<1> QED
    BY <1>1, <1>2, <1>7, <1>9 DEF HearsOfRemovals, task

\* Nor does anything else that happens meanwhile.
LEMMA NoDefaultStep ==
    ASSUME FilesInvariant, replacing, files!Next, NEW p \in files!Processes,
           client[p] # files!Nothing, monitor[p].current # files!Missing
    PROVE  monitor'[p].current # files!Missing
<1>1. /\ monitor \in [files!Processes -> Monitor]
      /\ \A q \in files!Processes : MonitorInvariant(monitor[q], client[q]) /\ monitor[q] \in Monitor
    BY DEF FilesInvariant, FileTypes
<1>2. files!Fresh # files!Missing /\ files!Fresh \in Loadable /\ files!Nothing # files!Missing
    BY FreshIsLoadable DEF files!Nothing, files!Missing, files!Bad
<1>3. ASSUME NEW q \in files!Processes, NEW n \in Monitor, monitor' = [monitor EXCEPT ![q] = n],
             n.current # files!Missing \/ n.current = monitor[q].current
      PROVE  monitor'[p].current # files!Missing
    BY <1>1, <1>3
<1>4. ASSUME NEW monitors \in [files!Processes -> Monitor], NEW path, NEW writer,
             monitor' = files!Notify(monitors, path, writer), monitors[p].current # files!Missing
      PROVE  monitor'[p].current # files!Missing
    BY <1>4, NotifyKeepsCurrent
<1>5. ASSUME NEW q \in files!Processes, files!StreamCallback(q)
      PROVE  monitor'[p].current # files!Missing
    <2>1. monitor'[q].current = monitor[q].current
        BY <1>1, <1>5 DEF files!StreamCallback, Monitor
    <2>2. q # p => monitor'[p] = monitor[p]
        BY <1>1, <1>5 DEF files!StreamCallback
    <2> QED
        BY <2>1, <2>2
<1>6. ASSUME NEW q \in files!Processes, files!ChangedFile(q)
      PROVE  monitor'[p].current # files!Missing
    <2>1. q # p => monitor'[p] = monitor[p]
        BY <1>1, <1>6 DEF files!ChangedFile
    <2> QED
        BY <1>6, <2>1, NoDefaultHeard
<1>7. ASSUME NEW q \in files!Processes, files!ConfigurationUpdated(q) \/ files!LoadStateIsNew(q)
      PROVE  monitor'[p].current # files!Missing
    <2>1. monitor[q].tasks # <<>> /\ monitor' = [monitor EXCEPT ![q] = files!Rest(q)]
        BY <1>7 DEF files!ConfigurationUpdated, files!LoadStateIsNew, files!Task
    <2> QED
        BY <1>3, <2>1, FirstTask
<1>8. ASSUME NEW q \in files!Processes, files!StartProcess(q)
      PROVE  monitor'[p].current # files!Missing
    <2>1. q # p
        BY <1>1, <1>8 DEF files!StartProcess, MonitorInvariant
    <2> QED
        BY <1>1, <1>8, <2>1 DEF files!StartProcess
<1>9. CASE files!SelectProfile
    <2> DEFINE q == "console_user_server"
               n == files!Edited(monitor[q], files!Fresh)
               monitors == [monitor EXCEPT ![q] = n]
    <2>1. /\ client[q] # files!Nothing
          /\ monitor' = files!Notify(monitors, "user", "console_user_server")
        BY <1>9 DEF files!SelectProfile, files!Save
    <2>2. q \in files!Processes
        BY DEF files!Processes
    <2> HIDE DEF q
    <2>3. n \in Monitor /\ n.current \in {monitor[q].current, files!Fresh}
        BY <1>1, <1>2, <2>1, <2>2, EditedKeeps
    <2> HIDE DEF n
    <2>4. monitors \in [files!Processes -> Monitor] /\ monitors[p].current # files!Missing
        BY <1>1, <1>2, <2>2, <2>3
    <2> HIDE DEF monitors
    <2> QED
        BY <1>4, <2>1, <2>4
<1>10. CASE files!EditSettings
    <2> DEFINE q == "settings"
               n == files!Edited(monitor[q], files!Fresh)
    <2>1. CASE files!CurrentOfSettings
        <3>1. client[q] # files!Nothing /\ monitor' = [monitor EXCEPT ![q] = n]
            BY <1>10, <2>1 DEF files!EditSettings, files!CurrentOfSettings
        <3>2. q \in files!Processes
            BY DEF files!Processes
        <3> HIDE DEF q
        <3>3. n \in Monitor /\ n.current \in {monitor[q].current, files!Fresh}
            BY <1>1, <1>2, <3>1, <3>2, EditedKeeps
        <3> HIDE DEF n
        <3> QED
            BY <1>2, <1>3, <3>1, <3>2, <3>3
    <2>2. CASE ~ files!CurrentOfSettings
        BY <1>10, <2>2 DEF files!EditSettings
    <2> QED
        BY <2>1, <2>2
<1>11. CASE files!DebouncedSave
    <2>1. monitor' = monitor \/ monitor' = files!Notify(monitor, "user", "settings")
        BY <1>11 DEF files!DebouncedSave, files!Save
    <2> QED
        BY <1>1, <1>4, <2>1
<1>12. ASSUME NEW q \in {"settings", "cli"},
              LET monitors == [monitor EXCEPT ![q] = files!NoMonitor]
              IN  monitor' = monitors \/ monitor' = files!Notify(monitors, "user", q)
       PROVE  monitor'[p].current # files!Missing
    <2> DEFINE monitors == [monitor EXCEPT ![q] = files!NoMonitor]
    <2>1. files!NoMonitor.current # files!Missing
        BY <1>2 DEF files!NoMonitor
    <2>2. /\ monitors \in [files!Processes -> Monitor]
          /\ monitors[p].current # files!Missing
        <3>1. q \in files!Processes
            BY DEF files!Processes
        <3> QED
            BY <1>1, <2>1, <3>1, NoMonitorIsOne
    <2>3. monitor' = monitors \/ monitor' = files!Notify(monitors, "user", q)
        BY <1>12
    <2> HIDE DEF monitors
    <2> QED
        BY <1>4, <2>2, <2>3
<1>13. CASE files!StopSettings \/ files!CommandLine
    BY <1>12, <1>13 DEF files!StopSettings, files!CommandLine, files!Save
<1>14. ASSUME \/ \E file : files!EditorWrites(file)
              \/ files!Recreates \/ files!EditorReplaces \/ files!SystemFileChanges
       PROVE  monitor'[p].current # files!Missing
    <2>1. \/ monitor' = files!Notify(monitor, "user", "editor")
          \/ monitor' = files!Notify(monitor, "system", "editor")
        BY <1>14 DEF files!EditorWrites, files!Recreates, files!EditorRecreates, files!EditorReplaces,
                     files!SystemFileChanges, files!Write
    <2> QED
        BY <1>1, <1>4, <2>1
<1>15. CASE files!MainActor
    BY <1>15 DEF files!MainActor
<1> QED
    BY <1>5, <1>6, <1>7, <1>8, <1>9, <1>10, <1>11, <1>13, <1>14, <1>15
    DEF files!Next, files!Work, files!FileRemovalTask

\* What a process has loaded, what it has been told and what it has still to hear
\* of agree with each other (configuration_monitor).
THEOREM TasksAreInOrder == Spec => []FilesInvariant
BY FilesAtFirst, FilesStep, PTL DEF Spec

\* After an error in the file the menu has a configuration when its tasks have
\* run, however saves, removals and errors follow each other (handle_file_changed).
THEOREM MenuRecovers == Spec => []RecoveredMenuHasConfiguration
<1>1. ASSUME FilesInvariant
      PROVE  RecoveredMenuHasConfiguration
    <2>1. MonitorInvariant(monitor["console_user_server"], client["console_user_server"])
        BY <1>1 DEF FilesInvariant, files!Processes
    <2> QED
        BY <2>1 DEF MonitorInvariant, EndsWithConfiguration, RecoveredMenuHasConfiguration,
                    files!RecoveredMenuHasConfiguration
<1> QED
    BY <1>1, TasksAreInOrder, PTL

\* Nobody who has a configuration falls back to the default one while an editor
\* replaces the file, whatever was on the way to him (file_removal_delay).
THEOREM ReplacedIsNotMissing == Spec => NoTransientDefault
<1>1. ASSUME FilesInvariant, [Next]_vars
      PROVE  [replacing => \A p \in files!Processes : ~files!BecomesDefault(p)]_vars
    <2>1. CASE InFiles(files!Next)
        <3>1. ASSUME NEW p \in files!Processes, replacing, files!BecomesDefault(p)
              PROVE  FALSE
            BY <1>1, <2>1, <3>1, NoDefaultStep DEF InFiles, files!BecomesDefault, files!Nothing, files!Bad
        <3> QED
            BY <3>1
    <2>2. CASE UNCHANGED configuration_vars
        BY <2>2 DEF configuration_vars, files!BecomesDefault
    <2> QED
        BY <1>1, <2>1, <2>2 DEF Next, InSession, InProcesses, vars
<1> QED
    BY <1>1, FilesAtFirst, FilesStep, PTL DEF Spec, NoTransientDefault

=============================================================================
