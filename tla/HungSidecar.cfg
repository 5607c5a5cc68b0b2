SPECIFICATION Spec
CONSTANTS
    Providers = {anthropic, ollama}
    KeyProviders = {anthropic}
    MaxSaves = 0
    MaxOpen = 1
    MaxLaunches = 1
PROPERTY SignalledEnds
