------------------------------- MODULE Portfolio -------------------------------
(***************************************************************************)
(* The portfolio part of the weekly review: the markdown table is parsed   *)
(* into rows, the active set is picked from them, and each picked project  *)
(* with a next action becomes a task.  A line of the document is prose or  *)
(* a line of the table; a table line that names a project has its cells    *)
(* already as integers (_to_int).  A separator or a second header among    *)
(* the data is a row to the code, with its cells for a name and no number. *)
(***************************************************************************)
EXTENDS Integers, Sequences, FiniteSets, FiniteSetsExt

CONSTANTS
    Projects,       \* table lines that name a project
    Portfolios,     \* documents: sequences of lines
    MinActive, MaxActive    \* min_active and max_active of the inputs; 0 stands for the default
                            \* there, so it never gets here

\* Every field of a project line that a rule reads.
ProjectLine == [money: Int, urgency: Int, leverage: Int, strategic: Int, risk: Int,
                score: Int, done: BOOLEAN, action: BOOLEAN, id: Nat]

\* Other lines, as records too, so that lines can be compared.
Other  == {"prose", "header", "separator", "blank project"}

ASSUME PortfolioAssumption ==
    /\ Projects \subseteq ProjectLine
    /\ Portfolios \subseteq Seq(Projects \cup [other: Other])
    /\ MinActive \in Nat \ {0} /\ MaxActive \in Nat \ {0}

VARIABLES
    lines,      \* the document of the request
    rows,       \* what the parser made of it
    active,     \* the active set, in order
    reviewing   \* where the request is

portfolioVars == <<lines, rows, active, reviewing>>

IsProject(line) == line \in Projects
IsHeader(line) == line = [other |-> "header"]
IsRow(line) == IsProject(line) \/ line \in [other: {"header", "separator"}]

\* "---" and "Project" name projects, too, and their next actions are not empty.
Cells(line) ==
    IF IsProject(line) THEN line
    ELSE [money |-> 0, urgency |-> 0, leverage |-> 0, strategic |-> 0, risk |-> 0,
          score |-> 0, done |-> FALSE, action |-> TRUE, id |-> 0]

\* The finite set S as a sequence in which i stands before j only if <<i, j>> \in R.
InOrder(S, R) ==
    CHOOSE f \in [1..Cardinality(S) -> S] :
        \A k, l \in 1..Cardinality(S) : k < l => <<f[k], f[l]>> \in R

\* Places of a document or a table, from top to bottom.
Downwards(S) == InOrder(S, {e \in S \X S : e[1] < e[2]})

ComputeScore(p) == p.money + p.urgency + p.leverage + p.strategic - p.risk

\* A score of 0 is computed when a component is not 0.
Scored(p) ==
    IF p.score = 0 /\ \E x \in {p.money, p.urgency, p.leverage, p.strategic, p.risk} : x # 0
    THEN [p EXCEPT !.score = ComputeScore(p)] ELSE p

\* The places after the first header and the line below it, whatever that one is.
DataPlaces(doc) ==
    LET headers == {i \in DOMAIN doc : IsHeader(doc[i])} IN
    IF headers = {} THEN {} ELSE (Min(headers) + 2)..Len(doc)

Parse(doc) ==
    LET order == Downwards({i \in DataPlaces(doc) : IsRow(doc[i])})
    IN  [k \in DOMAIN order |-> Scored(Cells(doc[order[k]]))]

\* The sort key (score, urgency, money), descending.
Precedes(p, q) ==
    \/ p.score > q.score
    \/ p.score = q.score /\ p.urgency > q.urgency
    \/ p.score = q.score /\ p.urgency = q.urgency /\ p.money > q.money

\* list.sort with reverse=True keeps the order of rows with equal keys.
Before(rs, i, j) == Precedes(rs[i], rs[j]) \/ (~Precedes(rs[j], rs[i]) /\ i < j)
Sorted(rs, S) == InOrder(S, {e \in S \X S : Before(rs, e[1], e[2])})

Candidates(rs) == {i \in DOMAIN rs : ~rs[i].done}

Smaller(a, b) == IF a < b THEN a ELSE b
Greater(a, b) == IF a > b THEN a ELSE b

PickUnsorted(rs) ==                                 \* mutant: the first rows
    LET order == Downwards(Candidates(rs))
    IN  [k \in 1..Smaller(MaxActive, Len(order)) |-> rs[order[k]]]
PickActiveSet(rs) ==
    LET order == Sorted(rs, Candidates(rs))
        n == Greater(MinActive, Smaller(MaxActive, Len(order)))
    IN  [k \in 1..Smaller(n, Len(order)) |-> rs[order[k]]]

-------------------------------------------------------------------------------

PortfolioInit ==
    /\ lines \in Portfolios
    /\ rows = <<>> /\ active = <<>> /\ reviewing = "begun"

ParsePortfolio ==
    /\ reviewing = "begun"
    /\ rows' = Parse(lines)
    /\ reviewing' = IF rows' = <<>> THEN "BLOCKED" ELSE "parsed"
    /\ UNCHANGED <<lines, active>>

ReviewPortfolio ==
    /\ reviewing = "parsed"
    /\ active' = PickActiveSet(rows)
    /\ reviewing' = "DONE"
    /\ UNCHANGED <<lines, rows>>

\* The same document is reviewed again.
ReviewAgain ==
    /\ reviewing \in {"BLOCKED", "DONE"}
    /\ rows' = <<>> /\ active' = <<>> /\ reviewing' = "begun"
    /\ UNCHANGED lines

PortfolioNext == ParsePortfolio \/ ReviewPortfolio \/ ReviewAgain

PortfolioSpec == PortfolioInit /\ [][PortfolioNext]_portfolioVars

-------------------------------------------------------------------------------
\* Properties

PortfolioTypeOK ==
    /\ lines \in Portfolios
    /\ rows \in Seq(ProjectLine) /\ active \in Seq(ProjectLine)
    /\ reviewing \in {"begun", "parsed", "BLOCKED", "DONE"}

\* The reference definition of the active set, by counting instead of sorting: an
\* unfinished project at place i of the table is picked exactly when fewer than
\* n unfinished ones beat it, and then stands behind those that do, where n is
\* max_active, or min_active if that is more (scoring.py 113).
ActiveSetIsTop ==
    reviewing = "DONE" =>
        LET Beats(j, i) ==
                /\ ~rows[j].done
                /\ Precedes(rows[j], rows[i]) \/ (~Precedes(rows[i], rows[j]) /\ j < i)
            place(i) == Cardinality({j \in DOMAIN rows : Beats(j, i)}) + 1
            n == Greater(MinActive, MaxActive)
            picked == {i \in DOMAIN rows : ~rows[i].done /\ place(i) <= n}
        IN  /\ Len(active) = Cardinality(picked)
            /\ \A i \in picked : active[place(i)] = rows[i]
===============================================================================
