SPECIFICATION Spec
CONSTANTS
    Providers = {anthropic, ollama}
    KeyProviders = {anthropic}
    MaxSaves = 2
    MaxOpen = 2
    MaxLaunches = 1
INVARIANTS
    ProcessInv
    RestartIsSeen
PROPERTY
    SaveEnds
