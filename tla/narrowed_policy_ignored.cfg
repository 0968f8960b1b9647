SPECIFICATION Spec
CONSTANTS
    home = home
    away = away
    NoAddress = none
    Messages = {1}
    Workers = {w1}
    Approvers = {a1}
    Addresses <- BothAddresses
    TenantAllowlists <- HomeOnly
    RequestAllowlists <- NoAllowlist
    Channels = {"email"}
    TelegramLive = TRUE
    EnvChats <- HomeChat
    GithubLive = TRUE
    Limit = 1
    MaxFaults = 0
PROPERTIES
    ClaimFollowsPolicy
