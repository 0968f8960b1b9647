----------------------------- MODULE OutboxPolicy -----------------------------
(***************************************************************************)
(* enforce_allowlist: which recipients the merged allowlist covers, and    *)
(* what becomes of a message when it does not cover them all.  It runs     *)
(* when a message is created and again when it is dispatched, on the       *)
(* payload the first run has stored.                                       *)
(*                                                                         *)
(* OutboxDispatch abstracts an allowlist to the set of addresses it lets   *)
(* through and a merge to a union; here both are what the code does.       *)
(***************************************************************************)
EXTENDS Naturals

CONSTANTS
    Boxes, Domains,     \* an email address is a box at a domain
    Targets,            \* chats and repositories
    OwnLists, TenantLists,  \* allowlists of requests and of the tenant
    Mails,              \* recipients of emails: records of to, cc, bcc
    None                \* a telegram message without chat id and username

Addresses == [box: Boxes, domain: Domains]

\* Entries are strings in any case, and some have an "@" in front.  Comparison lowers
\* both sides and drops the "@" of a domain, but not of an address, which then matches
\* nothing.  Chats and repositories are compared as they are.
Spellings == {"plain", "upper", "at"}
Allowlist == [domains: SUBSET (Domains \X Spellings), emails: SUBSET (Addresses \X Spellings),
              targets: SUBSET Targets]
Mail == [to: SUBSET Addresses, cc: SUBSET Addresses, bcc: SUBSET Addresses]

ASSUME PolicyAssumption ==
    /\ OwnLists \subseteq Allowlist /\ TenantLists \subseteq Allowlist
    /\ Mails \subseteq Mail
    /\ None \notin Targets

VARIABLES
    payload,        \* kind, recipients, policy.allowlist, policy.requires_approval
    tenantList,     \* the tenant's newest allowlist
    enforced        \* observer: how often enforce_allowlist has run on the payload: 0, 1, 2

policyVars == <<payload, tenantList, enforced>>

Message == [kind: {"email"}, mail: Mails] \cup
           [kind: {"telegram", "github_issue"}, target: Targets \cup {None}]
Payload == [message: Message, allowlist: Allowlist, requires: BOOLEAN]

LoweredDomains(entries) == {e[1] : e \in entries}
LoweredEmails(entries) == {e[1] : e \in {x \in entries : x[2] # "at"}}

MergeLists(a, b) ==
    [domains |-> a.domains \cup b.domains, emails |-> a.emails \cup b.emails,
     targets |-> a.targets \cup b.targets]

OkAddress(address, allow) ==
    \/ address \in LoweredEmails(allow.emails)
    \/ address.domain \in LoweredDomains(allow.domains)

RecipientsToCc(mail) == mail.to \cup mail.cc         \* mutant: blind copies forgotten
Recipients(mail) == mail.to \cup mail.cc \cup mail.bcc

Allowed(message, allow) ==
    IF message.kind = "email"
    THEN \A address \in Recipients(message.mail) : OkAddress(address, allow)
    ELSE message.target \in allow.targets

Enforced(p, list) ==
    LET merged == MergeLists(p.allowlist, list) IN
    [p EXCEPT !.allowlist = merged, !.requires = @ \/ ~Allowed(p.message, merged)]

-------------------------------------------------------------------------------

NewPayloads ==
    {p \in [message: Message, allowlist: OwnLists, requires: BOOLEAN] :
        p.message.kind = "github_issue" => p.message.target # None}

PolicyInit ==
    /\ payload \in NewPayloads
    /\ tenantList \in TenantLists
    /\ enforced = 0

\* create_outbox_message, then dispatch_outbox.
EnforceAllowlist ==
    /\ enforced < 2
    /\ payload' = Enforced(payload, tenantList)
    /\ enforced' = enforced + 1
    /\ UNCHANGED tenantList

PutTenantList(allow) ==
    /\ tenantList' = allow
    /\ UNCHANGED <<payload, enforced>>

PolicyNext == EnforceAllowlist \/ \E allow \in TenantLists : PutTenantList(allow)

PolicySpec == PolicyInit /\ [][PolicyNext]_policyVars

-------------------------------------------------------------------------------
\* Properties

PolicyTypeOK ==
    /\ payload \in Payload
    /\ tenantList \in TenantLists
    /\ enforced \in 0..2

\* What an allowlist lets through, and whom a message reaches.
LetsThrough(allow) ==
    {a \in Addresses : \/ \E s \in Spellings \ {"at"} : <<a, s>> \in allow.emails
                       \/ \E s \in Spellings : <<a.domain, s>> \in allow.domains}
Reaches(mail) == {a \in Addresses : a \in mail.to \/ a \in mail.cc \/ a \in mail.bcc}
Covered(message, own, list) ==
    IF message.kind = "email"
    THEN Reaches(message.mail) \subseteq LetsThrough(own) \cup LetsThrough(list)
    ELSE message.target \in own.targets \cup list.targets

\* The verdict falls at creation: a message requires approval exactly when it asked
\* for it or one of its recipients, blind copies included, is let through neither by its
\* own list nor by the tenant's; enforcement at dispatch, under whatever list the
\* tenant has by then, neither adds nor lifts the requirement (outbox_policy.py 67).
\* This is what OutboxDispatch abstracts lists and recipients to.
EnforcementIsExact ==
    [][enforced' # enforced =>
         (payload'.requires <=>
            \/ payload.requires
            \/ enforced = 0 /\ ~Covered(payload.message, payload.allowlist, tenantList))]_policyVars
===============================================================================
