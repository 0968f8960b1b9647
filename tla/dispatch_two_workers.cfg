SPECIFICATION Spec
CONSTANTS
    home = home
    away = away
    NoAddress = none
    Messages = {1}
    Workers = {w1, w2}
    Approvers = {a1}
    Addresses <- BothAddresses
    TenantAllowlists <- HomeOnly
    RequestAllowlists <- HomeOnly
    Channels = {"github_issue", "telegram", "stub"}
    TelegramLive = TRUE
    EnvChats <- HomeChat
    GithubLive = TRUE
    Limit = 1
    MaxFaults = 1
INVARIANTS
    TypeOK
    NoWorkerRepeats
    UnapprovedStaysQueued
    ClaimedIsCleared
    OutcomeIsTrue
PROPERTIES
    RequirementIsKept
    NeverRequeued
