----------------------------- MODULE MCServices -----------------------------
(* What keeps the processes of a session together, each on its own: which   *)
(* user is served, which processes run with which permissions, and what     *)
(* they know of the configuration file.                                     *)
EXTENDS Naturals, Sequences

CONSTANTS
    Users, NoUser, FirstConsole, MaxSwitches, SessionFaults, PromptMonitors,
    MaxPermissionChanges, MaxSleeps, MaxResults, LifecycleFaults,
    Residents, Starts, MaxVersion, MaxFileChanges, MaxSaves

ASSUME ServicesAssumption ==
    /\ FirstConsole \subseteq Users \cup {NoUser}
    /\ MaxVersion \in Nat

VARIABLES component,
    console, switches, session_faults, server, session_link, session_requests, answers, peers,
        session_daemon, receiver,
    permission, power, process, lifecycle_daemon, agent, lifecycle_link, results, permission_changes,
        sleeps, lifecycle_faults,
    user_file, system_file, last_valid, replacing, monitor, client, settings, version, changes, saves

session_vars == <<console, switches, session_faults, server, session_link, session_requests, answers,
    peers, session_daemon, receiver>>
lifecycle_vars == <<permission, power, process, lifecycle_daemon, agent, lifecycle_link, results,
    permission_changes, sleeps, lifecycle_faults>>
configuration_vars == <<user_file, system_file, last_valid, replacing, monitor, client, settings,
    version, changes, saves>>
vars == <<component, session_vars, lifecycle_vars, configuration_vars>>

users == INSTANCE ConsoleUserSession WITH
    faults <- session_faults, link <- session_link, requests <- session_requests,
    daemon <- session_daemon, MaxFaults <- SessionFaults

processes == INSTANCE ServiceLifecycle WITH
    daemon <- lifecycle_daemon, link <- lifecycle_link, changes <- permission_changes,
    faults <- lifecycle_faults, MaxChanges <- MaxPermissionChanges, MaxFaults <- LifecycleFaults

files == INSTANCE ConfigurationFiles WITH Races <- FALSE, MaxChanges <- MaxFileChanges

Init == /\ component \in {"users", "processes", "files"}
        /\ users!Init /\ processes!Init /\ files!Init
        /\ component # "processes" => permission = FALSE
        /\ component # "files" => /\ ~files!Exists(user_file) /\ ~files!Exists(system_file)
                                  /\ monitor["settings"].running

InSession(action) ==
    /\ component = "users" /\ action
    /\ UNCHANGED <<component, lifecycle_vars, configuration_vars>>
InProcesses(action) ==
    /\ component = "processes" /\ action
    /\ UNCHANGED <<component, session_vars, configuration_vars>>
InFiles(action) ==
    /\ component = "files" /\ action
    /\ UNCHANGED <<component, session_vars, lifecycle_vars>>

Next ==
    \/ InSession(users!Next)
    \/ InProcesses(processes!Next)
    \/ InFiles(files!Next)

\* What each specification asks for.
Fairness ==
    /\ WF_vars(InSession(users!Work))
    /\ WF_vars(InProcesses(processes!Connect)) /\ WF_vars(InProcesses(processes!DaemonReceivesResult))
    /\ WF_vars(InProcesses(processes!FallAsleep)) /\ WF_vars(InProcesses(processes!WakeUp))
    /\ WF_vars(InProcesses(processes!CheckPermissions))
    /\ \A p \in {"daemon", "agent"} :
        /\ WF_vars(InProcesses(processes!Terminate(p))) /\ WF_vars(InProcesses(processes!Launch(p)))
        /\ WF_vars(InProcesses(processes!SystemWillSleep(p)))
        /\ WF_vars(InProcesses(processes!acknowledge_pending_system_sleep(p)))
        /\ WF_vars(InProcesses(processes!SystemWakes(p)))
    /\ \A p \in {"core_service", "console_user_server", "settings", "cli"} :
        WF_vars(InFiles(files!Work(p)))
    /\ WF_vars(InFiles(files!MainActor)) /\ WF_vars(InFiles(files!DebouncedSave))
    /\ WF_vars(InFiles(files!CommandLine)) /\ WF_vars(InFiles(files!Recreates))

Spec == Init /\ [][Next]_vars /\ Fairness

\* A console_user_server whose request was accepted is registered in the daemon
\* (console_user_id_changed_client_state::take_core_service_daemon_server_bound_action).
AcceptedMeansRegistered == users!AcceptedMeansRegistered

\* The user on the console gets a device_grabber, and nobody else is connected
\* (components_manager of both processes).
ConsoleUserIsServed == <>[](component = "users" => users!Served)

\* A process that let the system sleep has no components
\* (process_lifecycle_manager: system_will_sleep).
AcknowledgedMeansStopped == processes!AcknowledgedMeansStopped

\* Granted permissions end up in the daemon (permission_checker).
GrantedPermissionsTakeEffect == <>[](component = "processes" => processes!PermissionsInEffect)

\* Those who only read end up with the file of the user (configuration_monitor).
ReadersCatchUp == <>[](component = "files" => files!ReadersAreCurrent)

\* After an error in the file the menu has a configuration again
\* (configuration_monitor::handle_file_changed: recovered_from_error).
RecoveredMenuHasConfiguration == files!RecoveredMenuHasConfiguration

\* A file that is being replaced does not turn into the default configuration
\* (configuration_monitor: file_removal_delay).
NoTransientDefault == [][replacing => \A p \in files!Processes : ~files!BecomesDefault(p)]_vars
=============================================================================
