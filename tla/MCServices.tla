------------------------------- MODULE MCServices -------------------------------
(* Constants for TLC. *)
EXTENDS Services, TLC

\* Bootstrap
TwoSources == <<"next", "backlog">>

\* Portfolio: rows that differ in one rule each, and tables around them.
Row(id, score, urgency, money, leverage, done) ==
    [id |-> id, score |-> score, urgency |-> urgency, money |-> money, leverage |-> leverage,
     strategic |-> 0, risk |-> 1, done |-> done, action |-> TRUE]
Table1 == {Row(1, 0, 1, 1, 1, FALSE),   \* score 0, computed: 2
           Row(2, 2, 1, 0, 0, FALSE),   \* ties with it but for money
           Row(3, 2, 1, 1, 0, FALSE),   \* ties with the first entirely
           Row(4, 3, 0, 0, 0, FALSE),   \* best score
           Row(5, 9, 1, 1, 1, TRUE)}    \* done
Head1 == <<[other |-> "prose"], [other |-> "header"], [other |-> "separator"]>>
Blank == [other |-> "blank project"]
Tables ==
    {Head1 \o <<p, q, r>> : p \in Table1, q \in Table1, r \in Table1 \cup {Blank}}
    \cup {Head1 \o <<p, [other |-> "prose"], q, r, s>> :
             p \in Table1, q \in Table1, r \in Table1, s \in {Row(4, 3, 0, 0, 0, FALSE)}}
    \cup {Head1 \o <<Head1[3], p, Head1[2]>> : p \in Table1}      \* read as rows
    \cup {<<Head1[2], p, q>> : p \in Table1, q \in Table1}        \* no separator
    \cup {<<>>, Head1, <<Row(1, 0, 1, 1, 1, FALSE)>>}

\* OutboxPolicy
At(box, domain) == [box |-> box, domain |-> domain]
Lists(domains, emails, targets) == [domains |-> domains, emails |-> emails, targets |-> targets]
NoList == Lists({}, {}, {})
MailTo(to, cc, bcc) == [to |-> {to}, cc |-> cc, bcc |-> bcc]
SomeMails ==
    {MailTo(to, cc, bcc) :
        to \in {At("ann", "corp"), At("bob", "else")},
        cc \in {{}, {At("bob", "corp")}},
        bcc \in {{}, {At("ann", "else")}, {At("bob", "else")}}}
SomeLists ==
    {Lists(d, e, t) : d \in {{}, {<<"corp", "at">>}, {<<"corp", "plain">>, <<"else", "upper">>}},
                      e \in {{}, {<<At("bob", "else"), "upper">>, <<At("ann", "corp"), "at">>}},
                      t \in {{}, {"room"}}}

\* OnDemandScripts: two processes of smoke and one of e2e, which yield to each other.
\* status yields to both and nobody to it, so nothing depends on its processes.
YieldsOf ==
    "smoke" :> {"e2e"} @@ "e2e" :> {"smoke"} @@ "status" :> {"e2e", "smoke"}
ScriptOf ==
    "smoke1" :> "smoke" @@ "smoke2" :> "smoke" @@ "e2e1" :> "e2e"
===============================================================================
