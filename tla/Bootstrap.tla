------------------------------- MODULE Bootstrap -------------------------------
(***************************************************************************)
(* The bootstrap memory of one tenant: POST /memory/bootstrap copies the   *)
(* source-of-truth files into documents, and every operation that changes  *)
(* the world asks check_bootstrap_fresh first.                             *)
(*                                                                         *)
(* A refresh reads the files one after the other and commits each new      *)
(* document by itself, so other refreshes and a crash come in between.     *)
(* Its documents carry the time it began.                                  *)
(***************************************************************************)
EXTENDS Naturals, FiniteSets, Sequences

CONSTANTS
    Sources,      \* document types in the order of SOT_SOURCES
    Required,     \* REQUIRED_DOC_TYPES
    Contents,     \* what a file can hold; a missing file holds NoContent
    NoContent,
    Refreshers,   \* refreshes in progress at once
    MaxAge,       \* BOOTSTRAP_MAX_AGE_HOURS, in ticks of the clock
    MaxTime       \* bound of the clock

DocTypes == {Sources[i] : i \in DOMAIN Sources}

ASSUME BootstrapAssumption ==
    /\ Sources \in Seq(DocTypes) /\ Sources # <<>>
    /\ \A i, j \in DOMAIN Sources : Sources[i] = Sources[j] => i = j
    /\ Required \subseteq DocTypes
    /\ NoContent \in Contents
    /\ MaxAge \in Nat /\ MaxTime \in Nat

VARIABLES
    files,      \* files[t]: what the file of type t holds
    docs,       \* documents with domain "sot"
    now,        \* the clock
    refresh,    \* refresh[r]: where refresh r is
    edited      \* observer: a file changed while the refreshes in progress were

bootstrapVars == <<files, docs, now, refresh, edited>>

Document == [type: DocTypes, content: Contents, at: 0..MaxTime]

\* alone is an observer: no other refresh was active since this one began.
Refresh == [pc: {"idle", "read", "query", "insert", "audit", "answered"},
            at: 0..MaxTime, next: 1..Len(Sources) + 1,
            seen: [DocTypes -> Contents], alone: BOOLEAN]

Active(r) == refresh[r].pc \in {"read", "query", "insert", "audit"}
InProgress == \E r \in Refreshers : Active(r)
TypeAt(r) == Sources[refresh[r].next]

\* ORDER BY created_at DESC LIMIT 1.
Versions(t) == {d \in docs : d.type = t}
Newest(versions) == CHOOSE d \in versions : \A e \in versions : e.at <= d.at
Latest(t) == Newest(Versions(t))

Present == {t \in DocTypes : Versions(t) # {}}

\* compute_context_version hashes the contents by type; hashes do not collide.
ContextVersion == [t \in Present |-> Latest(t).content]

\* check_bootstrap_fresh: some document, whichever, must be young enough.
CheckFresh ==
    /\ Required \subseteq Present
    /\ \E t \in Present : now <= Latest(t).at + MaxAge

-------------------------------------------------------------------------------

NoRefresh == [pc |-> "idle", at |-> 0, next |-> 1,
              seen |-> [t \in DocTypes |-> NoContent], alone |-> FALSE]

BootstrapInit ==
    /\ files \in [DocTypes -> Contents]
    /\ docs = {}
    /\ now = 0
    /\ refresh = [r \in Refreshers |-> NoRefresh]
    /\ edited = FALSE

EditFile(t, c) ==
    /\ files[t] # c
    /\ files' = [files EXCEPT ![t] = c]
    /\ edited' = (edited \/ InProgress)
    /\ UNCHANGED <<docs, now, refresh>>

Tick ==
    /\ now < MaxTime
    /\ now' = now + 1
    /\ UNCHANGED <<files, docs, refresh, edited>>

\* No two refreshes begin at the same instant.
BeginRefresh(r) ==
    /\ ~Active(r) /\ now < MaxTime
    /\ now' = now + 1
    /\ refresh' = [q \in Refreshers |->
         IF q = r
         THEN [pc |-> "read", at |-> now + 1, next |-> 1, seen |-> NoRefresh.seen,
               alone |-> \A other \in Refreshers : ~Active(other)]
         ELSE IF Active(q) THEN [refresh[q] EXCEPT !.alone = FALSE] ELSE NoRefresh]
    /\ edited' = (edited /\ InProgress)
    /\ UNCHANGED <<files, docs>>

ReadFile(r) ==
    /\ refresh[r].pc = "read"
    /\ refresh' = [refresh EXCEPT ![r].pc = "query", ![r].seen[TypeAt(r)] = files[TypeAt(r)]]
    /\ UNCHANGED <<files, docs, now, edited>>

\* On to the next file, or to the audit record.
NextFile(r) ==
    refresh' = [refresh EXCEPT
        ![r].next = refresh[r].next + 1,
        ![r].pc = IF refresh[r].next = Len(Sources) THEN "audit" ELSE "read"]

UnchangedSinceFirst(t, c) ==                        \* mutant: ascending order
    LET first == {d \in Versions(t) : \A e \in Versions(t) : d.at <= e.at}
    IN  \E d \in first : d.content = c
UnchangedEver(t, c) == \E d \in Versions(t) : d.content = c   \* mutant: any version
Unchanged(t, c) == Versions(t) # {} /\ Latest(t).content = c

\* An unchanged document stays as it is, its created_at too.
QueryLatest(r) ==
    /\ refresh[r].pc = "query"
    /\ IF Unchanged(TypeAt(r), refresh[r].seen[TypeAt(r)]) THEN NextFile(r)
       ELSE refresh' = [refresh EXCEPT ![r].pc = "insert"]
    /\ UNCHANGED <<files, docs, now, edited>>

InsertDocument(r) ==
    /\ refresh[r].pc = "insert"
    /\ docs' = docs \cup {[type |-> TypeAt(r), content |-> refresh[r].seen[TypeAt(r)],
                           at |-> refresh[r].at]}
    /\ NextFile(r)
    /\ UNCHANGED <<files, now, edited>>

\* The audit record and the answer.  The answer is kept, for the properties, until
\* the next refresh begins, and only when it was alone.
AuditRefresh(r) ==
    /\ refresh[r].pc = "audit"
    /\ refresh' = [refresh EXCEPT
         ![r] = IF refresh[r].alone THEN [refresh[r] EXCEPT !.pc = "answered"] ELSE NoRefresh]
    /\ UNCHANGED <<files, docs, now, edited>>

\* The process dies, or a read or a commit raises: what is committed stays.
CutRefresh(r) ==
    /\ Active(r)
    /\ refresh' = [refresh EXCEPT ![r] = NoRefresh]
    /\ UNCHANGED <<files, docs, now, edited>>

BootstrapNext ==
    \/ \E t \in DocTypes, c \in Contents : EditFile(t, c)
    \/ Tick
    \/ \E r \in Refreshers :
         \/ BeginRefresh(r) \/ ReadFile(r) \/ QueryLatest(r)
         \/ InsertDocument(r) \/ AuditRefresh(r) \/ CutRefresh(r)

BootstrapSpec == BootstrapInit /\ [][BootstrapNext]_bootstrapVars

-------------------------------------------------------------------------------
\* Properties

BootstrapTypeOK ==
    /\ files \in [DocTypes -> Contents]
    /\ docs \subseteq Document
    /\ now \in 0..MaxTime
    /\ refresh \in [Refreshers -> Refresh]
    /\ edited \in BOOLEAN

\* A refresh answers with the context version that the status endpoint and the guard
\* then report, whatever cut or overlapping refreshes left behind before it
\* (bootstrap.py 138, 186): one that no other overlapped, however the files change;
\* and one that others overlap, when no file has changed since the first of them
\* began.  Overlapping refreshes of changing files can store an older copy over a
\* newer answer.
AnswerIsStatus ==
    \A r \in Refreshers :
        \/ refresh[r].pc = "answered"
        \/ refresh[r].pc = "audit" /\ ~edited
        => ContextVersion = refresh[r].seen

\* Documents are versions: refreshes that do not overlap store a document only
\* when its file differs from the newest one stored (bootstrap.py 108).
EachVersionIsNew ==
    [][\A d \in docs' \ docs :
         (\A r \in Refreshers : Active(r) => refresh[r].alone)
             => d.type \notin Present \/ Latest(d.type).content # d.content]_bootstrapVars

\* "Ensure bootstrap is fresh: call POST /memory/bootstrap" (BOOTSTRAP.md 17): a
\* refresh that took less than the permitted age leaves the bootstrap fresh.
RefreshMakesFresh ==
    [][\A r \in Refreshers :
         /\ refresh[r].pc = "audit" /\ refresh'[r].pc = "answered"
         /\ now <= refresh[r].at + MaxAge
         => CheckFresh]_bootstrapVars
===============================================================================
