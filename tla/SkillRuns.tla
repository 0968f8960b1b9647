------------------------------- MODULE SkillRuns -------------------------------
(***************************************************************************)
(* The producers of outbox messages: POST /skills/run and                  *)
(* /tasks/{id}/run_skill with the three registered skills, and             *)
(* POST /tools/telegram/send.  All go through create_outbox_message, which *)
(* stores a message once per idempotency key.                              *)
(*                                                                         *)
(* A request commits after every message and after every pending action,   *)
(* so it can end between any two of them: the process dies, the unique     *)
(* index on the key refuses an insert, or the schema refuses the payload.  *)
(* A job stands for a request body; sending the same body again yields the *)
(* same keys, and other bodies may yield them too: those of a sales job    *)
(* depend on the chat and the place in the sequence only.                  *)
(***************************************************************************)
EXTENDS Naturals, Sequences, FiniteSets, SequencesExt

CONSTANTS
    Jobs,         \* request bodies
    Callers,      \* clients of the API
    Mixes,        \* what they may want in one behaviour, each a job
    Skill,        \* Skill[j]: what j asks for
    Lacks,        \* Lacks[j]: the input that j does not give
    Flaw,         \* Flaw[j]: what of j is there and of the wrong form
    Parts,        \* Parts[j]: the messages of j, in order
    Messages,     \* idempotency keys
    Asks,         \* messages whose request demands approval
    Covered,      \* messages whose own allowlist covers all recipients
    Listable,     \* sets of messages that tenant allowlists cover
    Requests,     \* requests in progress at once
    MaxFaults     \* bound on the requests cut short in a behaviour

Skills   == {"sales", "article", "weekly", "unknown", "tool"}
Outcomes == {"DONE", "BLOCKED", "FAILED"}

\* A sequence has at least one message (sales_outreach_sequence.py 88).
ASSUME JobsAssumption ==
    /\ 0 \notin Jobs
    /\ Skill \in [Jobs -> Skills]
    /\ Lacks \in [Jobs -> {"nothing", "input", "recipient"}]
    /\ Flaw \in [Jobs -> {"none", "count", "payload"}]
    /\ Parts \in [Jobs -> Seq(Messages)]
    /\ \A j \in Jobs :
         /\ Skill[j] \in {"sales", "article", "tool"} => Parts[j] # <<>>
         /\ Skill[j] \in {"weekly", "unknown"} => Parts[j] = <<>>
         /\ Lacks[j] = "recipient" => Skill[j] = "article"
    /\ Mixes \subseteq [Callers -> Jobs]
    /\ Asks \subseteq Messages /\ Covered \subseteq Messages
    /\ Listable \subseteq SUBSET Messages
    /\ MaxFaults \in Nat

VARIABLES
    wanted,     \* wanted[c]: the job that caller c posts in this behaviour
    stored,     \* stored[m]: the job whose request stored the row with key m, or 0
    requires,   \* rows stored with requires_approval
    proposed,   \* pending actions: the row they name, and whether they have a token
    documents,  \* jobs whose documents are stored
    asked,      \* jobs for which a task asks for the missing input
    listed,     \* messages the tenant's allowlist covers
    fresh,      \* what require_bootstrap answers
    run,        \* run[r]: where request r is
    known,      \* observer: known[j], the messages of whose actions callers of j hold a token
    answers,    \* observer: answers[j], the outcomes callers of j have got
    cut,        \* observer: messages whose request was cut short before proposing
    faults      \* requests cut short so far

vars == <<wanted, stored, requires, proposed, documents, asked, listed, fresh, run,
          known, answers, cut, faults>>

PCs  == {"idle", "begin", "recipient", "enforce", "lookup", "insert", "reload",
         "propose", "respond"}
Run  == [pc: PCs, job: Jobs \cup {0}, next: Nat, need: BOOLEAN, tokens: SUBSET Messages,
         outcome: Outcomes]
NoRun == [pc |-> "idle", job |-> 0, next |-> 1, need |-> FALSE, tokens |-> {},
          outcome |-> "FAILED"]

At(r, pc) == run[r].pc = pc
Goto(r, pc) == run' = [run EXCEPT ![r].pc = pc]
Answer(r, outcome) == run' = [run EXCEPT ![r].pc = "respond", ![r].outcome = outcome]
SkillOf(r) == Skill[run[r].job]
Current(r) == Parts[run[r].job][run[r].next]
IsCurrent(r) == run[r].pc \notin {"idle", "respond"} /\ run[r].next <= Len(Parts[run[r].job])

\* On to the message after this one, or to the response.
AfterPart(x) ==
    IF x.next < Len(Parts[x.job])
    THEN [x EXCEPT !.next = @ + 1, !.need = FALSE, !.pc = "enforce"]
    ELSE [x EXCEPT !.outcome = "DONE", !.need = FALSE, !.pc = "respond"]
NextPart(r) == run' = [run EXCEPT ![r] = AfterPart(@)]

Init ==
    /\ wanted \in Mixes
    /\ stored    = [m \in Messages |-> 0]
    /\ requires  = {} /\ proposed = {} /\ documents = {} /\ asked = {} /\ listed = {}
    /\ fresh     = FALSE
    /\ run       = [r \in Requests |-> NoRun]
    /\ known     = [j \in Jobs |-> {}]
    /\ answers   = [j \in Jobs |-> {}]
    /\ cut       = {}
    /\ faults    = 0

-------------------------------------------------------------------------------
\* Surroundings

PutAllowlist(covers) ==
    /\ listed' = covers
    /\ UNCHANGED <<wanted, stored, requires, proposed, documents, asked, fresh, run, known, answers,
                   cut, faults>>

BootstrapVerdict ==
    /\ fresh' = ~fresh
    /\ UNCHANGED <<wanted, stored, requires, proposed, documents, asked, listed, run, known,
                   answers, cut, faults>>

-------------------------------------------------------------------------------
\* A request

settings  == <<wanted, listed, fresh>>
observers == <<known, answers, cut, faults>>

\* A caller posts j, perhaps not for the first time.  Only the skill endpoints ask
\* for a fresh bootstrap; they commit an audit record first.
Post(r, j) ==
    /\ At(r, "idle") /\ \E c \in Callers : wanted[c] = j
    /\ Skill[j] # "tool" => fresh
    /\ run' = [run EXCEPT ![r] =
                 [NoRun EXCEPT !.job = j,
                               !.pc  = IF Skill[j] = "tool" THEN "enforce" ELSE "begin"]]
    /\ UNCHANGED <<stored, requires, proposed, documents, asked, settings, observers>>

UnknownSkillNotFound(r) ==                  \* mutant: an outcome of its own
    /\ At(r, "begin") /\ SkillOf(r) = "unknown"
    /\ Answer(r, "NOT_FOUND")
    /\ UNCHANGED <<stored, requires, proposed, documents, asked, settings, observers>>
UnknownSkill(r) ==
    /\ At(r, "begin") /\ SkillOf(r) = "unknown"
    /\ Answer(r, "FAILED")
    /\ UNCHANGED <<stored, requires, proposed, documents, asked, settings, observers>>

\* A count that is no number ends the request with an exception, each time.
CountRefused(r) ==
    /\ At(r, "begin") /\ SkillOf(r) = "sales" /\ Flaw[run[r].job] = "count"
    /\ run' = [run EXCEPT ![r] = NoRun]
    /\ UNCHANGED <<stored, requires, proposed, documents, asked, settings, observers>>

ReadsInputs(r) ==
    SkillOf(r) # "unknown" /\ ~(SkillOf(r) = "sales" /\ Flaw[run[r].job] = "count")

\* Missing inputs become tasks, and nothing else is stored.
BlockOnInputSilently(r) ==                  \* mutant: the tasks are not committed
    /\ At(r, "begin") /\ ReadsInputs(r) /\ Lacks[run[r].job] = "input"
    /\ Answer(r, "BLOCKED")
    /\ UNCHANGED <<stored, requires, proposed, documents, asked, settings, observers>>
BlockOnInput(r) ==
    /\ At(r, "begin") /\ ReadsInputs(r) /\ Lacks[run[r].job] = "input"
    /\ asked' = asked \cup {run[r].job}
    /\ Answer(r, "BLOCKED")
    /\ UNCHANGED <<stored, requires, proposed, documents, settings, observers>>

\* The documents of the skill, in one commit; the tasks of a weekly review are in it.
StoreDocuments(r) ==
    LET j == run[r].job IN
    /\ At(r, "begin") /\ ReadsInputs(r) /\ Lacks[j] # "input"
    /\ documents' = documents \cup {j}
    /\ IF SkillOf(r) = "weekly" THEN Answer(r, "DONE")
       ELSE Goto(r, IF Lacks[j] = "recipient" THEN "recipient" ELSE "enforce")
    /\ UNCHANGED <<stored, requires, proposed, asked, settings, observers>>

\* An article without an editor's address gets its documents first.
BlockOnRecipient(r) ==
    /\ At(r, "recipient")
    /\ asked' = asked \cup {run[r].job}
    /\ Answer(r, "BLOCKED")
    /\ UNCHANGED <<stored, requires, proposed, documents, settings, observers>>

-------------------------------------------------------------------------------
\* create_outbox_message

\* A payload against the schema raises; by then a skill has committed its documents.
PayloadRefused(r) ==
    /\ At(r, "enforce") /\ Flaw[run[r].job] = "payload"
    /\ run' = [run EXCEPT ![r] = NoRun]
    /\ UNCHANGED <<stored, requires, proposed, documents, asked, settings, observers>>

\* The tenant's allowlist is read and enforced.
Requires(m) == m \in Asks \/ m \notin Covered \cup listed

EnforcePolicy(r) ==
    /\ At(r, "enforce") /\ Flaw[run[r].job] # "payload"
    /\ run' = [run EXCEPT ![r].need = Requires(Current(r)), ![r].pc = "lookup"]
    /\ UNCHANGED <<stored, requires, proposed, documents, asked, settings, observers>>

\* A known key is answered with the stored row, whatever the policy says today.
FoundNever(m) == FALSE                      \* mutant: the key is not looked up
Found(m) == stored[m] # 0

LookUp(r) ==
    /\ At(r, "lookup")
    /\ Goto(r, IF Found(Current(r)) THEN "reload" ELSE "insert")
    /\ UNCHANGED <<stored, requires, proposed, documents, asked, settings, observers>>

\* The unique index on (tenant, key).
Unique(m) == stored[m] = 0

Insert(r) ==
    LET m == Current(r) IN
    /\ At(r, "insert") /\ Unique(m)
    /\ stored' = [stored EXCEPT ![m] = run[r].job]
    /\ requires' = IF run[r].need THEN requires \cup {m} ELSE requires \ {m}
    /\ Goto(r, "reload")
    /\ UNCHANGED <<proposed, documents, asked, settings, observers>>

\* Another request has stored the key since: the error ends the request.
InsertRefused(r) ==
    /\ At(r, "insert") /\ ~Unique(Current(r))
    /\ run' = [run EXCEPT ![r] = NoRun]
    /\ UNCHANGED <<stored, requires, proposed, documents, asked, settings, observers>>

-------------------------------------------------------------------------------
\* The pending action

\* The stored row decides, not this request's policy; an article is always proposed.
WantsActionByPolicy(r) ==                   \* mutant: today's policy decides
    SkillOf(r) = "article" \/ run[r].need
WantsActionByRequest(r) ==                  \* mutant: only what the request demands
    SkillOf(r) = "article" \/ Current(r) \in Asks
WantsAction(r) == SkillOf(r) = "article" \/ Current(r) \in requires

Reload(r) ==
    /\ At(r, "reload")
    /\ IF WantsAction(r) THEN Goto(r, "propose") ELSE NextPart(r)
    /\ UNCHANGED <<stored, requires, proposed, documents, asked, settings, observers>>

\* Skills keep the token for the response; the tool endpoint makes none.
Propose(r) ==
    LET m == Current(r)
        token == SkillOf(r) # "tool"
        kept == IF token THEN run[r].tokens \cup {m} ELSE run[r].tokens
    IN
    /\ At(r, "propose")
    /\ proposed' = proposed \cup {[of |-> m, token |-> token]}
    /\ run' = [run EXCEPT ![r] = AfterPart([run[r] EXCEPT !.tokens = kept])]
    /\ UNCHANGED <<stored, requires, documents, asked, settings, observers>>

Respond(r) ==
    /\ At(r, "respond")
    /\ known' = [known EXCEPT ![run[r].job] = @ \cup run[r].tokens]
    /\ answers' = [answers EXCEPT ![run[r].job] = @ \cup {run[r].outcome}]
    /\ run' = [run EXCEPT ![r] = NoRun]
    /\ UNCHANGED <<stored, requires, proposed, documents, asked, settings, cut, faults>>

\* The process dies, or the answer does not arrive.
CutShort(r) ==
    /\ ~At(r, "idle") /\ faults < MaxFaults
    /\ faults' = faults + 1
    /\ cut' = IF run[r].pc \in {"reload", "propose"} THEN cut \cup {Current(r)} ELSE cut
    /\ run' = [run EXCEPT ![r] = NoRun]
    /\ UNCHANGED <<stored, requires, proposed, documents, asked, settings, known, answers>>

-------------------------------------------------------------------------------

Progress(r) ==
    \/ UnknownSkill(r) \/ CountRefused(r) \/ BlockOnInput(r) \/ StoreDocuments(r)
    \/ BlockOnRecipient(r) \/ PayloadRefused(r) \/ EnforcePolicy(r) \/ LookUp(r)
    \/ Insert(r) \/ InsertRefused(r)
    \/ Reload(r) \/ Propose(r) \/ Respond(r)

Next ==
    \/ \E covers \in Listable : PutAllowlist(covers)
    \/ BootstrapVerdict
    \/ \E r \in Requests : (\E j \in Jobs : Post(r, j)) \/ Progress(r) \/ CutShort(r)

Spec == Init /\ [][Next]_vars

\* A request in progress goes on.  A caller repeats its job until it is answered.
Fairness ==
    /\ \A r \in Requests : WF_vars(Progress(r))
    /\ \A c \in Callers :
         SF_vars(answers[wanted[c]] = {} /\ \E r \in Requests : Post(r, wanted[c]))
FairSpec == Spec /\ Fairness

-------------------------------------------------------------------------------
\* Properties

\* Types; an answer is one of DONE, BLOCKED and FAILED (runner.py 15).
TypeOK ==
    /\ wanted \in [Callers -> Jobs]
    /\ stored \in [Messages -> Jobs \cup {0}]
    /\ requires \subseteq Messages
    /\ proposed \subseteq [of: Messages, token: BOOLEAN]
    /\ documents \subseteq Jobs /\ asked \subseteq Jobs
    /\ listed \subseteq Messages
    /\ fresh \in BOOLEAN
    /\ run \in [Requests -> Run]
    /\ known \in [Jobs -> SUBSET Messages]
    /\ answers \in [Jobs -> SUBSET Outcomes]
    /\ cut \subseteq Messages
    /\ faults \in 0..MaxFaults

\* A caller that got DONE can have everything sent: the documents and messages are
\* stored, and for each message that waits for approval there is an action and this
\* caller holds a token of it, also when a request of another job stored the message,
\* under another policy (sales_outreach_sequence.py 160-194, submit_article_package.py
\* 141-168).  The tool endpoint gives no token.
DoneCanBeSent ==
    \A j \in Jobs : "DONE" \in answers[j] =>
        /\ Skill[j] # "tool" => j \in documents
        /\ \A m \in ToSet(Parts[j]) :
             /\ stored[m] # 0
             /\ m \in requires =>
                  /\ [of |-> m, token |-> Skill[j] # "tool"] \in proposed
                  /\ Skill[j] # "tool" => m \in known[j]

\* "BLOCKED if missing inputs (creates tasks)" (MINDMAP.md): a blocked job has a task
\* that asks for the input, and none of its requests has stored a message, whoever else
\* stores messages with the keys it would have.
BlockedAsks ==
    \A j \in Jobs : "BLOCKED" \in answers[j] =>
        j \in asked /\ \A m \in Messages : stored[m] # j

\* A message that waits for approval has an action someone may approve, except while
\* its request is about to propose it or was cut short there: the window between
\* the two commits is the only one.
OrphanOnlyWhenCut ==
    \A m \in requires :
        \/ \E p \in proposed : p.of = m
        \/ m \in cut
        \/ \E r \in Requests : IsCurrent(r) /\ Current(r) = m /\ run[r].pc \in {"reload", "propose"}

\* While the bootstrap stays fresh, a repeated job is answered in the end: a lost
\* race against the unique index or a crash between two commits is healed by the
\* look-up of the next attempt.  A request of the wrong form fails each time.
JobsAreAnswered ==
    <>[]fresh => <>(\A c \in Callers :
                       Flaw[wanted[c]] = "none" => answers[wanted[c]] # {})
===============================================================================
