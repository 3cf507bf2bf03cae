SPECIFICATION Spec
CONSTANTS
    main = main
    farm = farm
    Roles <- MCRoles
    TopRole = main
    maxRedirectHops = 2
    MaxShard = 1
    MaxRuns = 3
    MaxFaults = 2
INVARIANTS
    BindingKept
    AskedRoleTraded
PROPERTIES
    RunsEnd
CHECK_DEADLOCK FALSE
