SPECIFICATION FairSpec
CONSTANTS
    home = home
    away = away
    NoAddress = none
    Messages = {1}
    Workers = {w1}
    Addresses <- HomeAddress
    TenantAllowlists <- HomeOnly
    RequestAllowlists <- HomeOnly
    Channels = {"email"}
    TelegramLive = FALSE
    EnvChats <- HomeAddress
    GithubLive = FALSE
    Actions = {1}
    Requests = {r1, r2}
    Executors = {e1, e2}
    Limit = 1
    MaxFaults = 1
INVARIANTS
    DispatchedWasConfirmed
    ExecutorIsConfirmed
    DoneMeansApproved
PROPERTIES
    ApprovedIsDispatched
