----------------------------- MODULE TenantCreate -----------------------------
(***************************************************************************)
(* POST /admin/tenants is create-or-get by unique name; the seed script    *)
(* inserts its tenant the same way, but without handling the error of the  *)
(* unique index.  Both look the name up first and commit later.            *)
(***************************************************************************)
EXTENDS Naturals, FiniteSets

CONSTANTS
    Names,      \* tenant names
    Callers,    \* requests and seed scripts in progress at once
    Seeds,      \* the callers that run the seed script
    MaxIds      \* uuids are 1..MaxIds, enough never to run out; 0 stands for none

ASSUME TenantAssumption ==
    /\ Seeds \subseteq Callers
    /\ IsFiniteSet(Names) /\ IsFiniteSet(Callers)
    /\ MaxIds \in Nat /\ MaxIds >= Cardinality(Names) + Cardinality(Callers)

VARIABLES
    tenant,     \* tenant[n]: the id of the row with unique name n
    call,       \* call[c]: where caller c is, and the id it has drawn
    told        \* observer: told[n], the ids callers were given for n

tenantVars == <<tenant, call, told>>

Call == [pc: {"idle"}, id: {0}] \cup
        [pc: {"lookup", "insert", "again"}, id: 0..MaxIds, name: Names]
NoCall == [pc |-> "idle", id |-> 0]

TenantInit ==
    /\ tenant = [n \in Names |-> 0]
    /\ call = [c \in Callers |-> NoCall]
    /\ told = [n \in Names |-> {}]

\* An id that no row has and no caller has drawn or been told.
NewUuid ==
    CHOOSE id \in 1..MaxIds :
        /\ \A n \in Names : id # tenant[n] /\ id \notin told[n]
        /\ \A c \in Callers : id # call[c].id

\* The answer: the caller learns the id of its tenant.
AnswerTenant(c, id) ==
    /\ told' = [told EXCEPT ![call[c].name] = @ \cup {id}]
    /\ call' = [call EXCEPT ![c] = NoCall]

-------------------------------------------------------------------------------

AskTenant(c, n) ==
    /\ call[c].pc = "idle"
    /\ call' = [call EXCEPT ![c] = [pc |-> "lookup", id |-> 0, name |-> n]]
    /\ UNCHANGED <<tenant, told>>

LookupTenant(c) ==
    LET n == call[c].name IN
    /\ call[c].pc = "lookup"
    /\ \/ tenant[n] # 0 /\ AnswerTenant(c, tenant[n])
       \/ /\ tenant[n] = 0
          /\ call' = [call EXCEPT ![c].pc = "insert", ![c].id = NewUuid]
          /\ UNCHANGED told
    /\ UNCHANGED tenant

\* The commit; the unique index refuses a second row, and the seed script dies of it.
InsertTenant(c) ==
    LET n == call[c].name IN
    /\ call[c].pc = "insert"
    /\ \/ /\ tenant[n] = 0
          /\ tenant' = [tenant EXCEPT ![n] = call[c].id]
          /\ AnswerTenant(c, call[c].id)
       \/ /\ tenant[n] # 0
          /\ call' = [call EXCEPT ![c] = IF c \in Seeds THEN NoCall ELSE [@ EXCEPT !.pc = "again"]]
          /\ UNCHANGED <<tenant, told>>

AnswerOwn(c) ==                                     \* mutant: the id that was not stored
    /\ call[c].pc = "again"
    /\ AnswerTenant(c, call[c].id)
    /\ UNCHANGED tenant

\* After the IntegrityError: the tenant another caller has stored.
LookupAgain(c) ==
    /\ call[c].pc = "again"
    /\ AnswerTenant(c, tenant[call[c].name])
    /\ UNCHANGED tenant

TenantNext ==
    \E c \in Callers :
        \/ \E n \in Names : AskTenant(c, n)
        \/ LookupTenant(c) \/ InsertTenant(c) \/ LookupAgain(c)

TenantSpec == TenantInit /\ [][TenantNext]_tenantVars

-------------------------------------------------------------------------------
\* Properties

TenantTypeOK ==
    /\ tenant \in [Names -> 0..MaxIds]
    /\ call \in [Callers -> Call]
    /\ told \in [Names -> SUBSET (0..MaxIds)]

\* "create-or-get by unique name (idempotent)" (admin.py 26): however many callers
\* race for a name, all that get an answer get the id of the one stored row, and
\* no other name has it.
NamesAgree ==
    /\ \A n \in Names : told[n] \subseteq {tenant[n]} \ {0}
    /\ \A n, k \in Names : tenant[n] = tenant[k] /\ tenant[n] # 0 => n = k
===============================================================================
