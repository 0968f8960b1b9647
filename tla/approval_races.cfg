SPECIFICATION Spec
CONSTANTS
    Actions = {1}
    Requests = {r1, r2}
    Executors = {e1, e2}
    Kinds = {"noop", "outbox.send", "dangling", "external"}
    Risks = {"RED", "YELLOW"}
    Limit = 1
    MaxFaults = 1
INVARIANTS
    TypeOK
    EffectWasConfirmed
    DoneTookEffect
