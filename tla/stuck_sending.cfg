SPECIFICATION FairSpec
CONSTANTS
    home = home
    away = away
    NoAddress = none
    Messages = {1}
    Workers = {w1}
    Approvers = {a1}
    Addresses <- BothAddresses
    TenantAllowlists <- NoAllowlist
    RequestAllowlists <- HomeOnly
    Channels = {"email"}
    TelegramLive = TRUE
    EnvChats <- HomeChat
    GithubLive = TRUE
    Limit = 1
    MaxFaults = 1
PROPERTIES
    SendingIsPassed
