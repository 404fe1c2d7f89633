\* A supervised process that loads and reloads two files while they change.
SPECIFICATION Spec
CONSTANTS
    Scenarios <- MCScenarios
    Tree <- MCTree
    Docs <- MCDocs
    Casts <- MCCasts
    Late = {"late"}
    LogPaths = {"log"}
    Loggers = {"app"}
    Patterns <- MCPatterns
    Defaults <- MCDefaults
INVARIANTS
    LoadedIsCurrent
    ListenersInSync
    LogFollowsPath
    PatternRenders
\* The process ends, and then nothing happens.
CHECK_DEADLOCK FALSE
