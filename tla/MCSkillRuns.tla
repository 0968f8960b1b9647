------------------------------ MODULE MCSkillRuns ------------------------------
(* Constants for TLC: one job of each kind.  The sales jobs but one write to the
   same chat, so their messages have the same keys. *)
EXTENDS SkillRuns, TLC

CONSTANTS first, second                         \* callers
CONSTANTS hello, followup, paper, note, draft   \* messages
CONSTANTS outreach, teaser, encore, submission, review, ping    \* jobs that can be done
CONSTANTS noproduct, noeditor, nonsense, badcount, badchat  \* jobs that cannot

JobSkill ==
    outreach :> "sales" @@ teaser :> "sales" @@ encore :> "sales" @@ submission :> "article"
    @@ review :> "weekly" @@ ping :> "tool" @@ noproduct :> "sales" @@ noeditor :> "article"
    @@ nonsense :> "unknown" @@ badcount :> "sales" @@ badchat :> "sales"
SkillOfJobs == [j \in Jobs |-> JobSkill[j]]
JobLacks ==
    [j \in Jobs |-> IF j = noproduct THEN "input"
                    ELSE IF j = noeditor THEN "recipient" ELSE "nothing"]
JobFlaw ==
    [j \in Jobs |-> IF j = badcount THEN "count"
                    ELSE IF j = badchat THEN "payload" ELSE "none"]
JobParts ==
    [j \in Jobs |-> IF j = outreach THEN <<hello, followup>>
                    ELSE IF j \in {teaser, encore, noproduct, badcount} THEN <<hello>>
                    ELSE IF j = submission THEN <<paper>>
                    ELSE IF j = ping THEN <<note>>
                    ELSE IF j \in {noeditor, badchat} THEN <<draft>> ELSE <<>>]
Wants(j, k) == first :> j @@ second :> k
JobMixes ==
    {Wants(outreach, outreach), Wants(teaser, encore), Wants(teaser, noproduct),
     Wants(ping, submission), Wants(badcount, badchat), Wants(review, noeditor),
     Wants(nonsense, review)}
Policies == {{}, {hello, followup}}
===============================================================================
