SPECIFICATION FairSpec
CONSTANTS
    home = home
    away = away
    NoAddress = none
    Messages = {1, 2}
    Workers = {w1}
    Approvers = {a1}
    Addresses <- HomeChat
    TenantAllowlists <- NoAllowlist
    RequestAllowlists <- HomeOnly
    Channels = {"telegram", "github_issue"}
    TelegramLive = TRUE
    EnvChats <- HomeChat
    GithubLive = FALSE
    Limit = 2
    MaxFaults = 1
INVARIANTS
    PreviewRecorded
PROPERTIES
    ImplementsContract
    Drains
