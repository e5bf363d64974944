SPECIFICATION Spec
CONSTANTS
    u1 = u1
    u2 = u2
    Users = {u1, u2}
    NoUser = NoUser
    FirstConsole = {u1}
    MaxSwitches = 1
    SessionFaults = 1
    PromptMonitors = TRUE
    MaxPermissionChanges = 3
    MaxSleeps = 1
    MaxResults = 2
    LifecycleFaults = 2
    Residents = {{"core_service"}, {"settings"}, {"console_user_server"}}
    Starts = {"cli"}
    MaxVersion = 2
    MaxFileChanges = 2
    MaxSaves = 1
INVARIANTS AcceptedMeansRegistered  RecoveredMenuHasConfiguration
PROPERTIES  GrantedPermissionsTakeEffect  
CHECK_DEADLOCK FALSE
