SPECIFICATION FairSpec
CONSTANTS
    first = first
    second = second
    hello = hello
    followup = followup
    paper = paper
    note = note
    draft = draft
    outreach = outreach
    teaser = teaser
    encore = encore
    submission = submission
    review = review
    ping = ping
    noproduct = noproduct
    noeditor = noeditor
    nonsense = nonsense
    badcount = badcount
    badchat = badchat
    Jobs = {outreach, teaser, encore, submission, review, ping, noproduct, noeditor, nonsense, badcount, badchat}
    Callers = {first, second}
    Mixes <- JobMixes
    Skill <- SkillOfJobs
    Lacks <- JobLacks
    Flaw <- JobFlaw
    Parts <- JobParts
    Messages = {hello, followup, paper, note, draft}
    Asks = {paper}
    Covered = {paper}
    Listable <- Policies
    Requests = {r1, r2}
    MaxFaults = 1
INVARIANTS
    TypeOK
    DoneCanBeSent
    BlockedAsks
    OrphanOnlyWhenCut
PROPERTIES
    JobsAreAnswered
