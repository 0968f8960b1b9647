SPECIFICATION FairSpec
CONSTANTS
    Actions = {1, 2}
    Requests = {r1}
    Executors = {e1}
    Kinds = {"outbox.send", "external"}
    Risks = {"RED", "YELLOW"}
    Limit = 2
    MaxFaults = 2
INVARIANTS
    ExternalExactlyOnce
PROPERTIES
    FinalStays
    ApprovedIsHandled
