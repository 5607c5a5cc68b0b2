SPECIFICATION Spec
CONSTANTS
    Sessions = {s1}
    NoSession = NoSession
    Past <- AnyPast
    MaxEvents = 5
    MaxAnswers = 2
INVARIANTS
    
    ConnectedViewIsTrue
PROPERTY
    SidebarConverges
