SPECIFICATION Spec
CONSTANTS
    home = home
    away = away
    NoAddress = none
    Messages = {1}
    Workers = {w1}
    Addresses <- BothAddresses
    TenantAllowlists <- NoAllowlist
    RequestAllowlists <- HomeOnly
    Channels = {"email"}
    TelegramLive = FALSE
    EnvChats <- HomeAddress
    GithubLive = FALSE
    Actions = {1}
    Requests = {r1}
    Executors = {e1}
    Limit = 1
    MaxFaults = 0
INVARIANTS
    DoneMeansApproved
