----------------------------- MODULE MCReports -----------------------------
(***************************************************************************)
(* What the event reports of its scores: the board, the audit of it and the  *)
(* organizer's metrics.  They share no state, and a behaviour is one of them. *)
(***************************************************************************)
EXTENDS MCBoard, ScoreAudit, Metrics

VARIABLE desk
reportVars == <<desk, boardVars, auditVars, metricsVars>>

Beside(scores, resets, looks, faults) ==
    [scores |-> scores, resets |-> resets, looks |-> looks, faults |-> faults]
NoBeside == Beside(0, 0, 0, 0)
MCAllowances ==
    {NoBeside, Beside(2, 0, 0, 0), Beside(1, 1, 0, 0), Beside(1, 0, 2, 0), Beside(1, 0, 0, 1)}

Nobody == Allow(0, 0, 0, 0, 0, 0, 0, 0, 0, 0)
ReportWorlds == MCWorlds \union {[QuizNight EXCEPT !.allowances = {Nobody}]}

\* Eve is spelt in two ways; the metrics' goals are a question, a challenge and a flaw.
CONSTANTS eve, Eve, kim, question, flag, flaw
MCPlayer == (eve :> eve) @@ (Eve :> eve) @@ (kim :> kim)
MCPlayerOrder == <<eve, kim>>
MCBucketWidths == <<1, 2>>
MCModuleOf == (question :> "quiz") @@ (flag :> "classic") @@ (flaw :> "sd")
Blanks(value) == [n \in Names |-> [g \in Goals |-> value]]
With(f, n, g, value) == [f EXCEPT ![n][g] = value]
Click1(faults, plays) == [clicks |-> 1, faults |-> faults, plays |-> plays]
Empty0 ==
    [rosters |-> (reds :> {}), earned |-> Blanks(NoTime), tried |-> Blanks(0), bought |-> Blanks(NoTime),
     ever |-> {}, known |-> {}, mode |-> "live"]
Busy ==
    [Empty0 EXCEPT !.rosters = (reds :> {Eve, kim}), !.ever = {Eve, kim}, !.known = {Eve, kim},
        !.earned = With(With(With(Blanks(NoTime), Eve, question, 2), eve, flaw, 1), kim, question, 9),
        !.tried = With(With(Blanks(0), Eve, question, 2), kim, flag, 1),
        !.bought = With(With(Blanks(NoTime), Eve, flaw, 1), kim, flag, 1)]
\* Kim tried, scored nothing and left; the other's team is gone.
Gone ==
    [Empty0 EXCEPT !.ever = {Eve, kim}, !.known = {Eve, kim}, !.earned = With(Blanks(NoTime), eve, flaw, 1),
        !.tried = With(Blanks(0), kim, flag, 3)]
MCBoxes ==
    {[box |-> Busy, may |-> m] : m \in {Click1(1, 1), Click1(0, 2)}}
    \union {[box |-> Gone, may |-> m] : m \in {Click1(1, 1)}}
    \union {[box |-> [Busy EXCEPT !.mode = "mock"], may |-> Click1(1, 0)],
            [box |-> Empty0, may |-> [Click1(1, 3) EXCEPT !.clicks = 2]]}
AtRest == [box |-> Empty0, may |-> Click1(0, 0)]
ReportBoxes == MCBoxes \union {[AtRest EXCEPT !.may.clicks = 0]}

ReportsInit ==
    /\ desk \in {"board", "audit", "metrics"}
    /\ Init /\ (desk = "board" <=> left # Nobody)
    /\ AuditInit /\ (desk # "audit" => beside = NoBeside /\ kept = NoMemo /\ sdLive)
    /\ MetricsInit /\ (desk = "metrics" <=> may.clicks > 0)

ReportsNext ==
    \/ desk = "board" /\ Next /\ UNCHANGED <<desk, auditVars, metricsVars>>
    \/ desk = "audit" /\ AuditNext /\ UNCHANGED <<desk, boardVars, metricsVars>>
    \/ desk = "metrics" /\ MetricsNext /\ UNCHANGED <<desk, boardVars, auditVars>>

ReportsSpec == ReportsInit /\ [][ReportsNext]_reportVars
=============================================================================
