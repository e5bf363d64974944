-------------------------- MODULE ServiceLifecycle --------------------------
(***************************************************************************)
(* The two processes of the core service and the permissions they need.    *)
(* The daemon learns its own permissions when it starts and never again.   *)
(* The agent asks a new process of the same bundle what is allowed now,    *)
(* again and again while something is missing, and tells the daemon, which *)
(* terminates when the permissions have been granted since it started;     *)
(* launchd starts it again.  The agent terminates itself for the same      *)
(* reason.  Meanwhile the system goes to sleep: both processes destroy     *)
(* their components before they let it, and build them again afterwards.   *)
(***************************************************************************)
EXTENDS Naturals, Sequences

CONSTANTS
    MaxChanges,     \* bound on permissions granted and revoked
    MaxSleeps,
    MaxResults,     \* bound on results on their way: the polls are seconds apart
    MaxFaults       \* bound on crashes, lost connections and refreshes

VARIABLES
    permission,     \* the user has granted the permissions to the bundle
    power,          \* of the system: awake, notified (about to sleep) or asleep
    process,        \* process_lifecycle_manager of each process
    daemon,         \* core_service_daemon_state_manager, in the process of the daemon
    agent,          \* permission_checker and components_manager of the agent
    link,           \* core_service_daemon_client of the agent is connected
    results,        \* permission check results on their way to the daemon
    changes, sleeps, faults

lifecycle_vars == <<permission, power, process, daemon, agent, link, results, changes, sleeps, faults>>

Processes == {"daemon", "agent"}

NewProcess(up) ==
    [up |-> up, components |-> up, termination_requested |-> FALSE, notified |-> FALSE,
     pending |-> FALSE, acknowledged |-> FALSE]

\* A permission_checker is created with the components, and checks as soon as
\* the session is known to be on the console.
NewChecker == [scheduled |-> TRUE, last |-> "none", restart_required |-> FALSE]

NewDaemon(allowed) == [granted |-> allowed, bundle |-> allowed]

TypeOK ==
    /\ permission \in BOOLEAN /\ power \in {"awake", "notified", "asleep"}
    /\ \A p \in Processes : process[p].components => process[p].up
    /\ agent.last \in {"none", "granted", "missing"} /\ agent.scheduled \in BOOLEAN
    /\ link => process["agent"].components /\ process["daemon"].components

Init ==
    /\ permission \in BOOLEAN
    /\ power = "awake"
    /\ process = [p \in Processes |-> NewProcess(TRUE)]
    /\ daemon = NewDaemon(permission) /\ agent = NewChecker
    /\ link = FALSE /\ results = <<>>
    /\ changes = 0 /\ sleeps = 0 /\ faults = 0

-----------------------------------------------------------------------------
(* permission_checker                                                       *)

Result == IF permission THEN "granted" ELSE "missing"

\* async_request_termination, on the dispatcher of the process: components
\* are destroyed, a pending sleep is acknowledged, the process ends.
Terminates(p) ==
    process' = [process EXCEPT ![p].termination_requested = TRUE]

\* send_core_service_bundle_permission_check_result
Send(result) == results' = IF link THEN Append(results, result) ELSE results

\* Mutant: the permissions are checked only until they are missing.
polls_again_never(result) == FALSE

polls_again(result) == result = "missing"

\* check_permissions
CheckPermissions ==
    /\ process["agent"].components /\ ~ process["agent"].termination_requested
    /\ agent.scheduled /\ Len(results) < MaxResults
    /\ IF agent.last = "granted" /\ Result = "missing"
       THEN /\ agent' = [agent EXCEPT !.last = Result, !.scheduled = FALSE]
            /\ Terminates("agent")
            /\ UNCHANGED results
       ELSE /\ agent' = [last |-> Result, scheduled |-> polls_again(Result),
                         restart_required |-> agent.restart_required \/ Result = "missing"]
            /\ Send(Result)
            /\ IF Result = "granted" /\ agent.restart_required THEN Terminates("agent")
               ELSE UNCHANGED process
    /\ UNCHANGED <<permission, power, daemon, link, changes, sleeps, faults>>

\* connected: enqueue_check_permissions
Connect ==
    /\ ~ link
    /\ \A p \in Processes : process[p].components /\ ~ process[p].termination_requested
    /\ link' = TRUE
    /\ agent' = [agent EXCEPT !.scheduled = TRUE]
    /\ UNCHANGED <<permission, power, process, daemon, results, changes, sleeps, faults>>

-----------------------------------------------------------------------------
(* The daemon                                                               *)

\* core_service_bundle_permission_check_result
DaemonReceivesResult ==
    /\ results # <<>> /\ process["daemon"].components
    /\ LET granted == Head(results) = "granted"
       IN  /\ daemon' = [daemon EXCEPT !.bundle = granted]
           /\ IF ~ daemon.granted /\ granted THEN Terminates("daemon") ELSE UNCHANGED process
    /\ results' = Tail(results)
    /\ UNCHANGED <<permission, power, agent, link, changes, sleeps, faults>>

\* start_device_grabber of a console_user_server that connects again:
\* request_core_service_bundle_permission_check_result_refresh
RequestRefresh ==
    /\ faults < MaxFaults /\ faults' = faults + 1
    /\ link
    /\ agent' = [agent EXCEPT !.scheduled = TRUE]
    /\ UNCHANGED <<permission, power, process, daemon, link, results, changes, sleeps>>

-----------------------------------------------------------------------------
(* process_lifecycle_manager                                                *)

\* The clients and servers of the process go with its components.
WithoutComponents(p) ==
    /\ link' = FALSE
    /\ results' = IF p = "daemon" THEN <<>> ELSE results

\* async_request_termination and the end of the process, which gives up what
\* its client has not written yet.
Terminate(p) ==
    /\ process[p].up /\ process[p].termination_requested
    /\ process' = [process EXCEPT ![p] = NewProcess(FALSE)]
    /\ link' = FALSE
    /\ results' \in {<<>>} \cup (IF p = "agent" THEN {results} ELSE {})
    /\ UNCHANGED <<permission, power, daemon, agent, changes, sleeps, faults>>

\* launchd starts the process again: main/daemon.hpp and main/agent.hpp.
Launch(p) ==
    /\ ~ process[p].up /\ power # "asleep"
    /\ process' = [process EXCEPT ![p] = NewProcess(TRUE)]
    /\ daemon' = IF p = "daemon" THEN NewDaemon(permission) ELSE daemon
    /\ agent' = IF p = "agent" THEN NewChecker ELSE agent
    /\ UNCHANGED <<permission, power, link, results, changes, sleeps, faults>>

\* Mutant: the components outlive the acknowledgement.
stopped_later(s) == [s EXCEPT !.notified = FALSE, !.pending = TRUE]

stopped(s) == [s EXCEPT !.components = FALSE, !.notified = FALSE, !.pending = TRUE]

\* system_will_sleep: stop_components, and the acknowledgement after
\* system_will_sleep_delay
SystemWillSleep(p) ==
    /\ process[p].notified /\ ~ process[p].termination_requested
    /\ process' = [process EXCEPT ![p] = stopped(@)]
    /\ WithoutComponents(p)
    /\ UNCHANGED <<permission, power, daemon, agent, changes, sleeps, faults>>

acknowledge_pending_system_sleep(p) ==
    /\ process[p].pending
    /\ process' = [process EXCEPT ![p].pending = FALSE, ![p].acknowledged = TRUE]
    /\ UNCHANGED <<permission, power, daemon, agent, link, results, changes, sleeps, faults>>

\* system_will_power_on, system_has_powered_on, system_will_not_sleep:
\* start_components.  New components know nothing of earlier checks.
SystemWakes(p) ==
    /\ power = "awake"
    /\ process[p].acknowledged /\ ~ process[p].components /\ ~ process[p].termination_requested
    /\ process' = [process EXCEPT ![p].components = TRUE, ![p].acknowledged = FALSE]
    /\ agent' = IF p = "agent" THEN NewChecker ELSE agent
    /\ UNCHANGED <<permission, power, daemon, link, results, changes, sleeps, faults>>

-----------------------------------------------------------------------------
(* The system, the user and faults                                          *)

Sleep ==
    /\ power = "awake" /\ sleeps < MaxSleeps
    /\ \A p \in Processes : process[p].up => process[p].components
    /\ sleeps' = sleeps + 1
    /\ power' = "notified"
    /\ process' = [p \in Processes |-> [process[p] EXCEPT !.notified = @ \/ process[p].up]]
    /\ UNCHANGED <<permission, daemon, agent, link, results, changes, faults>>

Answered(p) == ~ process[p].notified /\ ~ process[p].pending

\* The kernel waits for everybody; then the system sleeps, or decides not to.
FallAsleep ==
    /\ power = "notified" /\ \A p \in Processes : Answered(p)
    /\ power' \in {"asleep", "awake"}
    /\ UNCHANGED <<permission, process, daemon, agent, link, results, changes, sleeps, faults>>

WakeUp ==
    /\ power = "asleep"
    /\ power' = "awake"
    /\ UNCHANGED <<permission, process, daemon, agent, link, results, changes, sleeps, faults>>

\* In System Settings.
ChangePermission ==
    /\ changes < MaxChanges /\ changes' = changes + 1
    /\ permission' = ~ permission
    /\ UNCHANGED <<power, process, daemon, agent, link, results, sleeps, faults>>

Fault == faults < MaxFaults /\ faults' = faults + 1

BreakConnection ==
    /\ Fault
    /\ link /\ link' = FALSE /\ results' = <<>>
    /\ UNCHANGED <<permission, power, process, daemon, agent, changes, sleeps>>

\* A termination signal, or a crash.
Crash(p) ==
    /\ Fault
    /\ process[p].up
    /\ process' = [process EXCEPT ![p] = NewProcess(FALSE)]
    /\ link' = FALSE /\ results' = <<>>
    /\ UNCHANGED <<permission, power, daemon, agent, changes, sleeps>>

-----------------------------------------------------------------------------
Work ==
    \/ CheckPermissions \/ Connect \/ DaemonReceivesResult \/ FallAsleep \/ WakeUp
    \/ \E p \in Processes : \/ Terminate(p) \/ Launch(p) \/ SystemWillSleep(p)
                            \/ acknowledge_pending_system_sleep(p) \/ SystemWakes(p)

Next ==
    \/ Work
    \/ Sleep \/ ChangePermission \/ RequestRefresh \/ BreakConnection
    \/ \E p \in Processes : Crash(p)

\* The dispatchers run, launchd starts what has ended, the agent goes on
\* connecting and polling, and the system wakes up.
Fairness ==
    /\ WF_lifecycle_vars(Connect) /\ WF_lifecycle_vars(DaemonReceivesResult)
    /\ WF_lifecycle_vars(FallAsleep) /\ WF_lifecycle_vars(WakeUp)
    /\ WF_lifecycle_vars(CheckPermissions)
    /\ \A p \in Processes :
        /\ WF_lifecycle_vars(Terminate(p)) /\ WF_lifecycle_vars(Launch(p))
        /\ WF_lifecycle_vars(SystemWillSleep(p)) /\ WF_lifecycle_vars(acknowledge_pending_system_sleep(p))
        /\ WF_lifecycle_vars(SystemWakes(p))

Spec == Init /\ [][Next]_lifecycle_vars /\ Fairness

-----------------------------------------------------------------------------
\* A process that has let the system sleep has destroyed its components, the
\* seized devices with them (system_will_sleep_delay of main/daemon.hpp: "Give
\* device_grabber time to release seized devices").
AcknowledgedMeansStopped ==
    \A p \in Processes : process[p].acknowledged => ~ process[p].components

\* Permissions that are granted and stay granted end up in the daemon,
\* whatever results were lost, whoever crashed and slept (permission_checker
\* and core_service_bundle_permission_check_result).
PermissionsInEffect == permission => process["daemon"].components /\ daemon.granted /\ daemon.bundle

GrantedPermissionsTakeEffect == <>[]PermissionsInEffect
=============================================================================
