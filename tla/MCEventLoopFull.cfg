SPECIFICATION Spec
CONSTANTS
    io = io
    Wake = Wake
    Shutdown = Shutdown
    Delay <- MCDelay
    Posts <- MCPosts
    Capacity <- Tight
    Longest = 2
PROPERTIES
    ShutdownStops
CHECK_DEADLOCK FALSE
