SPECIFICATION Spec
CONSTANTS
    Exercised = {"bootstrap"}
    Sources <- TwoSources
    Required = {"next"}
    Contents = {"old", "new"}
    NoContent = "old"
    Refreshers = {r1, r2}
    MaxAge = 1
    MaxTime = 3
    Workflows = {w1, w2}
    WorkItems = 3
    Names = {n1, n2}
    Callers = {c1, c2, c3}
    Seeds = {c3}
    MaxIds = 5
    Projects <- Table1
    Portfolios <- Tables
    MinActive = 1
    MaxActive = 2
    Boxes = {"ann", "bob"}
    Domains = {"corp", "else"}
    Targets = {"room", "repo"}
    OwnLists <- SomeLists
    TenantLists <- SomeLists
    Mails <- SomeMails
    None = "none"
    Kinds = {"smoke", "e2e", "status"}
    Yields <- YieldsOf
    Runs = {"smoke1", "smoke2", "e2e1"}
    Script <- ScriptOf
    Routers = {t1, t2}
    MaxUpdate = 3
    Commands = {1, 3}
    FetchLimit = 2
    Watchdogs = {d1, d2}
    Threshold = 3
    CoolDown = 2
    MaxKills = 2
PROPERTIES
    RefreshMakesFresh
