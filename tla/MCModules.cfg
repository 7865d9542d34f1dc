SPECIFICATION ModulesSpec
CONSTANTS
    l1 = l1
    l2 = l2
    m1 = m1
    m2 = m2
    m3 = m3
    Loads <- MCLoads
    Modules <- MCModuleNames
    MaxImports = 2
    Workers = 1
    MaxTime = 1
    MaxEdits = 3
    Word = 6
    Scale = 2
    Step = 1
    Extensions <- MCExtensions
    Indexes <- MCIndexes
    BuiltinDir = "__bua_builtin__"
    Builtins <- MCBuiltins
    Targets <- MCTargets
INVARIANTS
    LoadsWhatIsThere
    OrderRespectsImports
    WarnsOfCycles
    ResolversAgree
    TimeNeverGoesBack
    ModulesFindNatives
PROPERTIES
    LoadsReturn
CHECK_DEADLOCK FALSE
