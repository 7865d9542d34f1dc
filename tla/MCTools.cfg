SPECIFICATION ToolsSpec
CONSTANTS
    fetch = fetch
    other = other
    fsRead = fsRead
    netConnect = netConnect
    spawn = spawn
    fs = fs
    net = net
    t1 = t1
    t2 = t2
    Unrestricted = Unrestricted
    AgentSpawn = AgentSpawn
    SpawnPermission = spawn
    Calls <- MCCalls
    Permissions <- MCPermissions
    Covers <- MCCovers
    Required <- MCRequired
    Registered <- MCRegistered
    MaxRevocations <- MCMaxRevocations
    Tasks <- MCTasks
    Programs <- MCPrograms
    Recordings <- MCRecordings
    Class <- MCClass
    Tool <- MCTool
    Durations <- MCDurations
    MaxCalls <- MCMaxCalls
    Strict = FALSE
    SilentWrites = TRUE
INVARIANTS
    RunsIfAllowedAtOnce
    SameGenerationStillGranted
    TraceTellsCalls
    CleanIsPrefix
    SameProgramReplays
    ReportAddsUp
SYMMETRY TaskSymmetry
CHECK_DEADLOCK FALSE
