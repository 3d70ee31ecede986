--------------------------- MODULE Reports_proofs ---------------------------
(***************************************************************************)
(* What is proved of the board's memo and of the audit of it: folds are      *)
(* shared, scores that were deleted are offered to nobody, and an audit      *)
(* compares the board of the store it read.                                  *)
(***************************************************************************)
EXTENDS ScoreAudit, Sums

(***************************************************************************)
(* ScoreAudit: the reads of an attempt, in the order of time.                *)
(***************************************************************************)
AuditFields == {"phase", "first", "board", "tries", "until", "solves", "rising"}
Parts == {"sd", "app"}

AuditShape ==
    /\ now \in Nat /\ held \in [Parts -> Nat]
    /\ DOMAIN audit = AuditFields /\ audit.until \in Int
    /\ page # NoPage => /\ DOMAIN page = {"todo", "sd"}
                        /\ page.todo \in {<<"sd", "app">>, <<"app">>} /\ page.sd \in Nat
    /\ kept # NoMemo => kept.at \in Nat /\ kept.at <= now

\* What the scorer said at some moment, so long as it has only risen since: no
\* more than it holds later, or nothing where it does not run.
SaidBySd(live, n, later) == n \in Nat /\ IF live THEN n <= later ELSE n = 0
\* A pair read of two stores that have only risen to what is held.
WasHeld(live, pair, at) ==
    pair = <<pair[1], pair[2]>> /\ SaidBySd(live, pair[1], at.sd) /\ pair[2] \in Nat /\ pair[2] <= at.app
\* A pair that was read after another one.
Since(live, first, board, at) == WasHeld(live, board, at) /\ first[1] <= board[1] /\ first[2] <= board[2]

\* While points only rise: what the attempt has read is below what is held; and
\* once the wait past the memo has begun to pass, so is what a fold reads, and
\* what the memo keeps, above what the attempt read first.
InOrderOfTime ==
    /\ audit.phase = "first totals" => SaidBySd(sdLive, audit.solves, held.sd)
    /\ audit.phase \in {"prime", "compare", "second", "second totals"} => WasHeld(sdLive, audit.first, held)
    /\ audit.phase = "compare" /\ now > audit.until - Settle =>
         /\ page # NoPage /\ page.todo = <<"app">> =>
               SaidBySd(sdLive, page.sd, held.sd) /\ audit.first[1] <= page.sd
         /\ kept # NoMemo /\ kept.at > audit.until - Settle => Since(sdLive, audit.first, kept.board, held)
    /\ audit.phase \in {"second", "second totals"} => Since(sdLive, audit.first, audit.board, held)
    /\ audit.phase = "second totals" =>
         SaidBySd(sdLive, audit.solves, held.sd) /\ audit.board[1] <= audit.solves
    /\ audit.phase = "done" => audit.board = audit.first

ReadsInOrder == audit.rising => InOrderOfTime

LEMMA ShapeStep == AuditShape /\ [AuditNext]_auditVars => AuditShape'
<1> SUFFICES ASSUME AuditShape, [AuditNext]_auditVars PROVE AuditShape'
  OBVIOUS
<1> USE DEF AuditShape
<1>0. NoPage = [todo |-> <<>>, sd |-> 0] /\ NoMemo = [at |-> 0, board |-> <<>>] BY DEF NoPage, NoMemo
<1>1. ASSUME NEW part \in Parts, NEW by \in {-1, 1}, Land(part, by) PROVE AuditShape'
  <2>1. /\ held[part] + by >= 0 /\ held' = [held EXCEPT ![part] = @ + by]
        /\ audit' = [audit EXCEPT !.rising = @ /\ by > 0] /\ UNCHANGED <<now, page, kept, sdLive>>
    BY <1>1 DEF Land
  <2>2. held' \in [Parts -> Nat] BY <2>1
  <2>3. DOMAIN audit' = AuditFields /\ audit'.until = audit.until BY <2>1 DEF AuditFields
  <2>4. QED BY <2>1, <2>2, <2>3
<1>2. ASSUME Look \/ AskPage PROVE AuditShape'
  <2>1. page' = [todo |-> <<"sd", "app">>, sd |-> 0] /\ UNCHANGED <<now, held, kept, audit>>
    BY <1>2 DEF Look, AskPage, BeginFold
  <2>2. QED BY <2>1
<1>3. ASSUME FoldReadsSd PROVE AuditShape'
  <2>1. /\ page # NoPage /\ Head(page.todo) = "sd" /\ UNCHANGED <<now, held, kept, audit>>
        /\ page' = [page EXCEPT !.sd = IF sdLive THEN held.sd ELSE 0, !.todo = Tail(@)]
    BY <1>3 DEF FoldReadsSd, Folding
  <2>2. page.todo = <<"sd", "app">> /\ DOMAIN page = {"todo", "sd"} BY <2>1
  <2>3. DOMAIN page' = {"todo", "sd"} /\ page'.todo = <<"app">> /\ page'.sd \in Nat BY <2>1, <2>2 DEF Parts
  <2>4. QED BY <2>1, <2>3
<1>4. ASSUME FoldEnds PROVE AuditShape'
  <2>1. kept' = [board |-> <<page.sd, held.app>>, at |-> now] /\ page' = NoPage /\ UNCHANGED <<now, held, audit>>
    BY <1>4 DEF FoldEnds
  <2>2. QED BY <2>1
<1>5. ASSUME FoldFails PROVE AuditShape'
  <2>1. /\ page' = NoPage /\ UNCHANGED <<now, held, kept>>
        /\ audit' = [audit EXCEPT !.phase = "failed"] \/ audit' = audit
    BY <1>5 DEF FoldFails
  <2>2. DOMAIN audit' = AuditFields /\ audit'.until = audit.until BY <2>1 DEF AuditFields
  <2>3. QED BY <2>1, <2>2
<1>6. ASSUME ReadSolves \/ ReadTotals \/ GetPage \/ Conclude PROVE AuditShape'
  <2>1. UNCHANGED <<now, held, kept, page>> BY <1>6 DEF ReadSolves, ReadTotals, GetPage, Conclude
  <2>2. DOMAIN audit' = AuditFields /\ audit'.until \in Int
    <3>1. CASE ReadSolves BY <3>1 DEF ReadSolves, AuditFields
    <3>2. CASE ReadTotals
      <4>1. audit' = [audit EXCEPT !.phase = "prime", !.first = <<audit.solves, held.app>>,
                                   !.until = IF sdLive THEN Waits(SdWait) ELSE now]
        BY <3>2 DEF ReadTotals
      <4>2. (IF sdLive THEN Waits(SdWait) ELSE now) \in Int BY AuditAssumption DEF Waits
      <4>3. QED BY <4>1, <4>2 DEF AuditFields
    <3>3. CASE GetPage BY <3>3, AuditAssumption DEF GetPage, Waits, AuditFields
    <3>4. CASE Conclude BY <3>4 DEF Conclude, AuditFields
    <3>5. QED BY <1>6, <3>1, <3>2, <3>3, <3>4
  <2>3. QED BY <2>1, <2>2
<1>7. ASSUME Pass PROVE AuditShape'
  BY <1>7 DEF Pass
<1>8. CASE UNCHANGED auditVars BY <1>8 DEF auditVars
<1>9. QED BY <1>1, <1>2, <1>3, <1>4, <1>5, <1>6, <1>7, <1>8 DEF AuditNext, Parts

\* What rose stays above what was below it.
LEMMA StillHeld ==
    ASSUME NEW live, NEW at \in [Parts -> Nat], NEW later \in [Parts -> Nat], at.sd <= later.sd, at.app <= later.app
    PROVE  /\ \A n : SaidBySd(live, n, at.sd) => SaidBySd(live, n, later.sd)
           /\ \A pair : WasHeld(live, pair, at) => WasHeld(live, pair, later)
           /\ \A first, board : Since(live, first, board, at) => Since(live, first, board, later)
<1>1. at.sd \in Nat /\ at.app \in Nat /\ later.sd \in Nat /\ later.app \in Nat BY DEF Parts
<1>2. \A n : SaidBySd(live, n, at.sd) => SaidBySd(live, n, later.sd) BY <1>1 DEF SaidBySd
<1>3. \A pair : WasHeld(live, pair, at) => WasHeld(live, pair, later) BY <1>1, <1>2 DEF WasHeld
<1>4. QED BY <1>2, <1>3 DEF Since

LEMMA OrderKept ==
    ASSUME AuditShape, InOrderOfTime, held' \in [Parts -> Nat],
           held.sd <= held'.sd, held.app <= held'.app, UNCHANGED <<now, page, kept, sdLive>>,
           audit'.phase = audit.phase, audit'.first = audit.first, audit'.until = audit.until,
           audit'.board = audit.board, audit'.solves = audit.solves
    PROVE  InOrderOfTime'
<1>1. held \in [Parts -> Nat] BY DEF AuditShape
<1>2. /\ \A n : SaidBySd(sdLive, n, held.sd) => SaidBySd(sdLive, n, held'.sd)
      /\ \A pair : WasHeld(sdLive, pair, held) => WasHeld(sdLive, pair, held')
      /\ \A first, board : Since(sdLive, first, board, held) => Since(sdLive, first, board, held')
  BY <1>1, StillHeld
<1>3. QED BY <1>2 DEF InOrderOfTime


LEMMA OrderStep ==
    ASSUME FoldTtl <= Settle
    PROVE  AuditShape /\ ReadsInOrder /\ [AuditNext]_auditVars => ReadsInOrder'
<1> SUFFICES ASSUME AuditShape, ReadsInOrder, [AuditNext]_auditVars PROVE ReadsInOrder'
  OBVIOUS
<1>0. /\ now \in Nat /\ held \in [Parts -> Nat] /\ held.sd \in Nat /\ held.app \in Nat
      /\ DOMAIN audit = AuditFields /\ audit.until \in Int /\ Settle \in Nat /\ FoldTtl \in Nat
  BY AuditAssumption DEF AuditShape, Parts
<1>1. ASSUME NEW part \in Parts, NEW by \in {-1, 1}, Land(part, by) PROVE ReadsInOrder'
  <2>1. /\ held' = [held EXCEPT ![part] = @ + by]
        /\ audit' = [audit EXCEPT !.rising = @ /\ by > 0] /\ UNCHANGED <<now, page, kept, sdLive>>
    BY <1>1 DEF Land
  <2>2. /\ audit'.phase = audit.phase /\ audit'.first = audit.first /\ audit'.until = audit.until
        /\ audit'.board = audit.board /\ audit'.solves = audit.solves
        /\ audit'.rising = (audit.rising /\ by > 0)
    <3> DEFINE rises == audit.rising /\ by > 0
    <3>1. audit' = [audit EXCEPT !.rising = rises] BY <1>0, <2>1 DEF AuditFields
    <3> HIDE DEF rises
    <3>2. /\ audit'.phase = audit.phase /\ audit'.first = audit.first /\ audit'.until = audit.until
          /\ audit'.board = audit.board /\ audit'.solves = audit.solves /\ audit'.rising = rises
      BY <1>0, <3>1 DEF AuditFields
    <3>3. QED BY <3>2 DEF rises
  <2>3. CASE by = 1 /\ audit.rising
    <3>1. held' \in [Parts -> Nat] /\ held.sd <= held'.sd /\ held.app <= held'.app
      BY <1>0, <2>1, <2>3 DEF Parts
    <3>2. InOrderOfTime' BY <2>1, <2>2, <2>3, <3>1, OrderKept DEF ReadsInOrder
    <3>3. QED BY <3>2 DEF ReadsInOrder
  <2>4. CASE ~(by = 1 /\ audit.rising)
    <3>1. by > 0 => by = 1 OBVIOUS
    <3>2. ~audit'.rising BY <2>2, <2>4, <3>1
    <3>3. QED BY <3>2 DEF ReadsInOrder
  <2>5. QED BY <2>3, <2>4
<1> SUFFICES ASSUME ~\E part \in Parts, by \in {-1, 1} : Land(part, by) PROVE ReadsInOrder'
  BY <1>1
\* The other steps leave the stores as they are, and no other ends the rise.
<1>2. ASSUME Look \/ AskPage, InOrderOfTime PROVE InOrderOfTime'
  <2>1. page' = [todo |-> <<"sd", "app">>, sd |-> 0] /\ UNCHANGED <<now, held, kept, audit, sdLive>>
    BY <1>2 DEF Look, AskPage, BeginFold
  <2>2. page'.todo # <<"app">> BY <2>1
  <2>3. QED BY <1>2, <2>1, <2>2 DEF InOrderOfTime
<1>3. ASSUME FoldReadsSd, InOrderOfTime PROVE InOrderOfTime'
  <2>1. /\ page # NoPage /\ UNCHANGED <<now, held, kept, audit, sdLive>>
        /\ page' = [page EXCEPT !.sd = IF sdLive THEN held.sd ELSE 0, !.todo = Tail(@)]
    BY <1>3 DEF FoldReadsSd, Folding
  <2>2. DOMAIN page = {"todo", "sd"} BY <2>1 DEF AuditShape
  <2>3. page'.sd = IF sdLive THEN held.sd ELSE 0 BY <2>1, <2>2
  <2>4. WasHeld(sdLive, audit.first, held) => SaidBySd(sdLive, page'.sd, held.sd) /\ audit.first[1] <= page'.sd
    BY <1>0, <2>3 DEF WasHeld, SaidBySd
  <2>5. QED BY <1>3, <2>1, <2>4 DEF InOrderOfTime
<1>4. ASSUME FoldEnds, InOrderOfTime PROVE InOrderOfTime'
  <2>1. /\ page # NoPage /\ Head(page.todo) = "app" /\ page' = NoPage
        /\ kept' = [board |-> <<page.sd, held.app>>, at |-> now] /\ UNCHANGED <<now, held, audit, sdLive>>
    BY <1>4 DEF FoldEnds, Folding
  <2>2. page.todo = <<"app">> /\ page.sd \in Nat BY <2>1 DEF AuditShape
  <2>3. kept'.at = now /\ kept'.board = <<page.sd, held.app>> BY <2>1
  <2>4. WasHeld(sdLive, audit.first, held) /\ SaidBySd(sdLive, page.sd, held.sd) /\ audit.first[1] <= page.sd
           => Since(sdLive, audit.first, kept'.board, held)
    BY <1>0, <2>2, <2>3 DEF Since, WasHeld
  <2>5. QED BY <1>4, <2>1, <2>2, <2>3, <2>4 DEF InOrderOfTime
<1>5. ASSUME FoldFails, InOrderOfTime PROVE InOrderOfTime'
  <2>1. /\ page' = NoPage /\ UNCHANGED <<now, held, kept, sdLive>>
        /\ audit' = [audit EXCEPT !.phase = "failed"] \/ audit' = audit
    BY <1>5 DEF FoldFails
  <2>2. CASE audit' = [audit EXCEPT !.phase = "failed"]
    <3>1. audit'.phase = "failed" BY <1>0, <2>2 DEF AuditFields
    <3>2. QED BY <3>1 DEF InOrderOfTime
  <2>3. CASE audit' = audit BY <1>5, <2>1, <2>3 DEF InOrderOfTime
  <2>4. QED BY <2>1, <2>2, <2>3
<1>6. ASSUME Pass, InOrderOfTime PROVE InOrderOfTime'
  <2>1. /\ page = NoPage /\ now' = now + 1 /\ UNCHANGED <<held, page, kept, audit, sdLive>>
    BY <1>6 DEF Pass, Folding
  <2>2. CASE now > audit.until - Settle BY <1>0, <1>6, <2>1, <2>2 DEF InOrderOfTime
  <2>3. CASE ~(now > audit.until - Settle)
    <3>1. kept # NoMemo => ~(kept.at > audit.until - Settle) BY <1>0, <2>3 DEF AuditShape
    <3>2. QED BY <1>6, <2>1, <3>1 DEF InOrderOfTime
  <2>4. QED BY <2>2, <2>3
<1>7. ASSUME ReadSolves, InOrderOfTime PROVE InOrderOfTime'
  <2> DEFINE next == IF audit.phase = "first" THEN "first totals" ELSE "second totals"
             said == IF sdLive THEN held.sd ELSE 0
  <2>1. /\ audit.phase \in {"first", "second"} /\ UNCHANGED <<now, held, page, kept, sdLive>>
        /\ audit' = [audit EXCEPT !.phase = next, !.solves = said]
    BY <1>0, <1>7 DEF ReadSolves, AuditFields
  <2>2. said \in Nat /\ (sdLive => said = held.sd) /\ (~sdLive => said = 0) BY <1>0
  <2> HIDE DEF said
  <2>3. SaidBySd(sdLive, said, held.sd) BY <1>0, <2>2 DEF SaidBySd
  <2>4. Since(sdLive, audit.first, audit.board, held) => audit.board[1] <= said
    <3>1. CASE sdLive BY <2>2, <3>1 DEF Since, WasHeld, SaidBySd
    <3>2. CASE ~sdLive BY <2>2, <3>2 DEF Since, WasHeld, SaidBySd
    <3>3. QED BY <3>1, <3>2
  <2>5. next = (IF audit.phase = "first" THEN "first totals" ELSE "second totals") OBVIOUS
  <2> HIDE DEF next
  <2>6. audit'.phase = next /\ audit'.solves = said /\ audit'.first = audit.first /\ audit'.board = audit.board
    BY <1>0, <2>1 DEF AuditFields
  <2>7. CASE audit.phase = "first"
    <3>1. audit'.phase = "first totals" BY <2>5, <2>6, <2>7
    <3>2. QED BY <2>1, <2>3, <2>6, <3>1 DEF InOrderOfTime
  <2>8. CASE audit.phase = "second"
    <3>1. WasHeld(sdLive, audit.first, held) /\ Since(sdLive, audit.first, audit.board, held)
      BY <1>7, <2>8 DEF InOrderOfTime
    <3>2. audit'.phase = "second totals" BY <2>5, <2>6, <2>8
    <3>3. QED BY <2>1, <2>3, <2>4, <2>6, <3>1, <3>2 DEF InOrderOfTime
  <2>9. QED BY <2>1, <2>7, <2>8
<1>8. ASSUME ReadTotals, InOrderOfTime PROVE InOrderOfTime'
  <2> DEFINE wait == IF sdLive THEN Waits(SdWait) ELSE now
             pair == <<audit.solves, held.app>>
  <2>1. /\ audit.phase = "first totals" /\ UNCHANGED <<now, held, page, kept, sdLive>>
        /\ audit' = [audit EXCEPT !.phase = "prime", !.first = pair, !.until = wait]
    BY <1>8 DEF ReadTotals
  <2>2. pair[1] = audit.solves /\ pair[2] = held.app /\ pair = <<pair[1], pair[2]>> OBVIOUS
  <2> HIDE DEF wait, pair
  <2>3. audit'.phase = "prime" /\ audit'.first = pair BY <1>0, <2>1 DEF AuditFields
  <2>4. WasHeld(sdLive, pair, held)
    <3>1. SaidBySd(sdLive, audit.solves, held.sd) BY <1>8, <2>1 DEF InOrderOfTime
    <3>2. QED BY <1>0, <2>2, <3>1 DEF WasHeld
  <2>5. QED BY <2>1, <2>3, <2>4 DEF InOrderOfTime
<1>9. ASSUME GetPage, InOrderOfTime PROVE InOrderOfTime'
  <2>1. /\ audit.phase \in {"prime", "compare"} /\ now >= audit.until /\ kept # NoMemo /\ now - kept.at < FoldTtl
        /\ page = NoPage /\ UNCHANGED <<now, held, page, kept, sdLive>>
    BY <1>9 DEF GetPage, Fetching, Remembered, Folding
  <2>2. kept.at \in Nat /\ kept.at <= now BY <2>1 DEF AuditShape
  <2>3. CASE audit.phase = "prime"
    <3>1. audit' = [audit EXCEPT !.phase = "compare", !.until = now + Settle] BY <1>9, <2>3 DEF GetPage, Waits
    <3>2. audit'.phase = "compare" /\ audit'.until = now + Settle /\ audit'.first = audit.first
      BY <1>0, <3>1 DEF AuditFields
    <3>3. ~(now' > audit'.until - Settle) BY <1>0, <2>1, <3>2
    <3>4. QED BY <1>9, <2>1, <2>3, <3>2, <3>3 DEF InOrderOfTime
  <2>4. CASE audit.phase = "compare"
    <3>1. audit' = [audit EXCEPT !.phase = "second", !.board = kept.board] BY <1>9, <2>4 DEF GetPage
    <3>2. audit'.phase = "second" /\ audit'.first = audit.first /\ audit'.board = kept.board
      BY <1>0, <3>1 DEF AuditFields
    <3>3. now > audit.until - Settle /\ kept.at > audit.until - Settle
      <4>1. CASE FoldTtl = 0 BY <1>0, <2>1, <2>2, <4>1
      <4>2. CASE FoldTtl > 0 BY <1>0, <2>1, <2>2, <4>2
      <4>3. QED BY <1>0, <4>1, <4>2
    <3>4. Since(sdLive, audit.first, kept.board, held) BY <1>9, <2>1, <2>4, <3>3 DEF InOrderOfTime
    <3>5. QED BY <1>9, <2>1, <2>4, <3>2, <3>4 DEF InOrderOfTime
  <2>5. QED BY <2>1, <2>3, <2>4
<1>10. ASSUME Conclude PROVE ReadsInOrder'
  <2>1. audit.phase = "second totals" /\ UNCHANGED <<now, held, page, kept, sdLive>> BY <1>10 DEF Conclude
  <2>2. CASE Stable
    <3>1. audit' = [audit EXCEPT !.phase = "done"] BY <1>10, <2>2 DEF Conclude
    <3>2. /\ audit'.phase = "done" /\ audit'.first = audit.first /\ audit'.board = audit.board
          /\ audit'.rising = audit.rising
      BY <1>0, <3>1 DEF AuditFields
    <3>3. ASSUME audit.rising PROVE audit.board = audit.first
      <4>1. /\ Since(sdLive, audit.first, audit.board, held) /\ audit.board[1] <= audit.solves
            /\ SaidBySd(sdLive, audit.solves, held.sd)
        BY <2>1, <3>3 DEF ReadsInOrder, InOrderOfTime
      <4>2. audit.first = <<audit.solves, held.app>> BY <2>2 DEF Stable
      <4>3. /\ audit.board = <<audit.board[1], audit.board[2]>> /\ audit.board[1] \in Nat /\ audit.board[2] \in Nat
            /\ audit.board[2] <= held.app /\ audit.solves \in Nat
            /\ audit.solves <= audit.board[1] /\ held.app <= audit.board[2]
        BY <4>1, <4>2 DEF Since, WasHeld, SaidBySd
      <4>4. audit.board[1] = audit.solves /\ audit.board[2] = held.app BY <1>0, <4>1, <4>3
      <4>5. QED BY <4>2, <4>3, <4>4
    <3>4. QED BY <3>2, <3>3 DEF ReadsInOrder, InOrderOfTime
  <2>3. CASE ~Stable
    <3>1. audit'.phase \in {"first", "unstable"} BY <1>0, <1>10, <2>3 DEF Conclude, AuditFields
    <3>2. QED BY <3>1 DEF ReadsInOrder, InOrderOfTime
  <2>4. QED BY <2>2, <2>3
<1>11. ASSUME ReadSolves \/ ReadTotals \/ GetPage \/ FoldFails PROVE audit'.rising = audit.rising
  BY <1>0, <1>11 DEF ReadSolves, ReadTotals, GetPage, FoldFails, AuditFields
<1>12. ASSUME Look \/ AskPage \/ FoldReadsSd \/ FoldEnds \/ Pass \/ UNCHANGED auditVars PROVE audit' = audit
  BY <1>12 DEF Look, AskPage, FoldReadsSd, FoldEnds, Pass, auditVars
<1>13. ASSUME UNCHANGED auditVars, InOrderOfTime PROVE InOrderOfTime'
  BY <1>13 DEF auditVars, InOrderOfTime
<1>14. QED
  BY <1>2, <1>3, <1>4, <1>5, <1>6, <1>7, <1>8, <1>9, <1>10, <1>11, <1>12, <1>13
     DEF AuditNext, Parts, ReadsInOrder

\* The board an audit compares is the board of the store it read, for every
\* number of scores that land, of others who open the board and of faults, so
\* long as no points are taken away: the wait between its two fetches is as long
\* as the memo of the page (--settle-ms, 12 s, beside the memo's 10 s).
THEOREM AuditComparesWhatItRead ==
    ASSUME FoldTtl <= Settle
    PROVE  AuditSpec => []ComparesWhatItRead
<1>1. AuditInit => AuditShape /\ ReadsInOrder
  <2> SUFFICES ASSUME AuditInit PROVE AuditShape /\ ReadsInOrder
    OBVIOUS
  <2>1. audit.phase = "first" /\ DOMAIN audit = AuditFields /\ audit.until = 0 BY DEF AuditInit, AuditFields
  <2>2. /\ page = NoPage /\ now = 1 /\ held \in [Parts -> Nat]
        /\ kept = NoMemo \/ kept.at = 1
    BY DEF AuditInit, Parts
  <2>3. QED BY <2>1, <2>2 DEF AuditShape, ReadsInOrder, InOrderOfTime
<1>2. AuditShape /\ ReadsInOrder => ComparesWhatItRead BY DEF ReadsInOrder, InOrderOfTime, ComparesWhatItRead
<1>3. QED BY <1>1, <1>2, ShapeStep, OrderStep, PTL DEF AuditSpec

(***************************************************************************)
(* Board: the memo, its generations and the folds that run.                  *)
(***************************************************************************)
MemoFields == {"gen", "cached", "inflight", "under"}
FoldFields == {"task", "fresh", "gen", "seen", "quiet", "steady", "whole", "before"}

\* A fold is of a generation its task has had; the fold a request may share is
\* of the generation it was begun under, and no other keeps its board there.
IsFold(f, s, m) ==
    /\ DOMAIN f = FoldFields /\ f.task \in Tasks /\ f.gen \in Nat /\ f.gen <= m[f.task].gen
    /\ ~f.fresh /\ f.gen = m[f.task].gen => m[f.task].inflight = s
IsPromise(f, t, m) == DOMAIN f = FoldFields /\ f.task = t /\ ~f.fresh /\ f.gen = m[t].under
IsMemo(k) ==
    /\ DOMAIN k = MemoFields /\ k.gen \in Nat /\ k.under \in Nat /\ k.under <= k.gen
    /\ k.cached # NoBoard => k.cached.gen \in Nat /\ k.cached.gen <= k.gen
Generations ==
    /\ DOMAIN memo = Tasks /\ DOMAIN folds = Slots
    /\ \A t \in Tasks : IsMemo(memo[t])
    /\ \A t \in Tasks : memo[t].inflight # NoFold =>
         memo[t].inflight \in Slots /\ IsPromise(folds[memo[t].inflight], t, memo)
    /\ \A s \in Slots : folds[s] # NoFold => IsFold(folds[s], s, memo)
Flights == Generations /\ SingleFlight

\* A new fold, and what it changes of the memo.
NewFold(t, fresh) ==
    [task |-> t, fresh |-> fresh, gen |-> memo[t].gen, seen |-> <<>>,
     quiet |-> TRUE, steady |-> TRUE, whole |-> TRUE, before |-> Here]
LEMMA FoldStarts ==
    ASSUME NEW s \in Slots, NEW t, NEW fresh, DOMAIN folds = Slots, Start(s, t, fresh)
    PROVE  /\ DOMAIN folds' = Slots /\ \A r \in Slots \ {s} : folds'[r] = folds[r]
           /\ DOMAIN folds'[s] = FoldFields /\ folds'[s].task = t /\ folds'[s].fresh = fresh
           /\ folds'[s].gen = memo[t].gen /\ folds'[s].seen = <<>>
<1>1. folds' = [folds EXCEPT ![s] = NewFold(t, fresh)] BY DEF Start, NewFold
<1>2. /\ DOMAIN NewFold(t, fresh) = FoldFields /\ NewFold(t, fresh).task = t /\ NewFold(t, fresh).fresh = fresh
      /\ NewFold(t, fresh).gen = memo[t].gen /\ NewFold(t, fresh).seen = <<>>
  BY DEF NewFold, FoldFields
<1>3. QED BY <1>1, <1>2

\* A fold whose reads go on, or that is disturbed, is of the same task and generation.
SameFold(f, g) ==
    /\ DOMAIN g = DOMAIN f
    /\ DOMAIN f = FoldFields => g.task = f.task /\ g.fresh = f.fresh /\ g.gen = f.gen

LEMMA FlightsStay ==
    ASSUME Flights, DOMAIN folds' = Slots, UNCHANGED memo,
           \A s \in Slots : folds'[s] = folds[s] \/ (folds[s] # NoFold /\ SameFold(folds[s], folds'[s]))
    PROVE  Flights'
<1>1. \A s \in Slots : SameFold(folds[s], folds'[s]) BY DEF SameFold
<1>2. \A s \in Slots : folds'[s] # NoFold => folds[s] # NoFold OBVIOUS
<1>3. Generations'
  <2>1. \A t \in Tasks : memo[t].inflight # NoFold =>
           memo[t].inflight \in Slots /\ IsPromise(folds'[memo[t].inflight], t, memo)
    BY <1>1 DEF Flights, Generations, IsPromise, SameFold
  <2>2. \A s \in Slots : folds'[s] # NoFold => IsFold(folds'[s], s, memo)
    BY <1>1, <1>2 DEF Flights, Generations, IsFold, SameFold
  <2>3. QED BY <2>1, <2>2 DEF Flights, Generations
<1>4. SingleFlight'
  <2> SUFFICES ASSUME NEW s \in Slots, NEW r \in Slots, s # r, folds'[s] # NoFold, folds'[r] # NoFold,
                      folds'[s].task = folds'[r].task, ~folds'[s].fresh, ~folds'[r].fresh
               PROVE  folds'[s].gen # folds'[r].gen
    BY DEF SingleFlight
  <2>1. \A q \in {s, r} : /\ folds'[q].task = folds[q].task /\ folds'[q].fresh = folds[q].fresh
                          /\ folds'[q].gen = folds[q].gen /\ folds[q] # NoFold
    BY <1>1, <1>2 DEF Flights, Generations, IsFold, SameFold
  <2>2. QED BY <2>1 DEF Flights, SingleFlight
<1>5. QED BY <1>3, <1>4 DEF Flights

\* A change of the store disturbs the folds and begins or ends none.
LEMMA DisturbsPasses ==
    ASSUME NEW award
    PROVE  Disturbs(award) => /\ DOMAIN folds' = Slots
                              /\ \A s \in Slots : folds'[s] = folds[s] \/ (folds[s] # NoFold /\ SameFold(folds[s], folds'[s]))
<1> SUFFICES ASSUME Disturbs(award), NEW s \in Slots, folds[s] # NoFold PROVE SameFold(folds[s], folds'[s])
  BY DEF Disturbs
<1>1. folds'[s] = [folds[s] EXCEPT !.quiet = FALSE, !.steady = @ /\ award] BY DEF Disturbs
<1>2. QED BY <1>1 DEF SameFold, FoldFields
\* Neither does a read.
LEMMA ReadPasses ==
    ASSUME DOMAIN folds = Slots, NEW s \in Slots, Read(s) \/ ReadFails(s) \/ ReplyShort(s)
    PROVE  /\ DOMAIN folds' = Slots /\ UNCHANGED memo
           /\ \A r \in Slots : folds'[r] = folds[r] \/ (folds[r] # NoFold /\ SameFold(folds[r], folds'[r]))
<1>1. CASE Read(s) \/ ReadFails(s)
  <2>1. PICK r, reply : Sees(s, r, reply) BY <1>1 DEF Read, ReadFails
  <2>2. folds[s] # NoFold /\ UNCHANGED memo BY <1>1 DEF Read, ReadFails
  <2>3. folds' = [folds EXCEPT ![s] = [folds[s] EXCEPT !.seen = Answered(folds[s].seen, r, reply)]]
    BY <2>1 DEF Sees
  <2>4. folds'[s] = [folds[s] EXCEPT !.seen = Answered(folds[s].seen, r, reply)] BY <2>3
  <2>5. SameFold(folds[s], folds'[s]) BY <2>4 DEF SameFold, FoldFields
  <2>6. QED BY <2>2, <2>3, <2>5
<1>2. CASE ReplyShort(s)
  <2>1. PICK r, reply : folds' = [folds EXCEPT ![s].seen = Answered(@, r, reply), ![s].whole = FALSE]
    BY <1>2 DEF ReplyShort
  <2>2. folds[s] # NoFold /\ UNCHANGED memo BY <1>2 DEF ReplyShort
  <2>4. /\ folds'[s] = [folds[s] EXCEPT !.seen = Answered(folds[s].seen, r, reply), !.whole = FALSE]
        /\ DOMAIN folds' = Slots /\ \A q \in Slots : q # s => folds'[q] = folds[q]
    BY <2>1
  <2>5. SameFold(folds[s], folds'[s]) BY <2>4 DEF SameFold, FoldFields
  <2>6. QED BY <2>2, <2>4, <2>5
<1>3. QED BY <1>1, <1>2

\* A generation that begins leaves the folds of the ones before unshared.
LEMMA OutdatedKeeps ==
    ASSUME Flights, NEW t, memo' = Outdated(t), UNCHANGED folds
    PROVE  Flights'
<1>1. /\ DOMAIN memo' = Tasks
      /\ \A u \in Tasks : memo'[u] = memo[u] \/ memo'[u] = [memo[u] EXCEPT !.gen = @ + 1]
  BY DEF Outdated, Flights, Generations
<1>2. ASSUME NEW u \in Tasks
      PROVE  /\ IsMemo(memo'[u]) /\ memo'[u].inflight = memo[u].inflight /\ memo'[u].under = memo[u].under
             /\ memo'[u].gen = memo[u].gen \/ memo'[u].gen = memo[u].gen + 1
  <2>1. IsMemo(memo[u]) BY DEF Flights, Generations
  <2>2. CASE memo'[u] = memo[u] BY <2>1, <2>2
  <2>3. CASE memo'[u] = [memo[u] EXCEPT !.gen = @ + 1]
    <3>1. /\ DOMAIN memo'[u] = DOMAIN memo[u] /\ memo'[u].gen = memo[u].gen + 1
          /\ memo'[u].inflight = memo[u].inflight /\ memo'[u].under = memo[u].under
          /\ memo'[u].cached = memo[u].cached
      BY <2>1, <2>3 DEF IsMemo, MemoFields
    <3>2. QED BY <2>1, <3>1 DEF IsMemo
  <2>4. QED BY <1>1, <2>2, <2>3
<1>3. ASSUME NEW u \in Tasks, memo[u].inflight # NoFold
      PROVE  memo[u].inflight \in Slots /\ IsPromise(folds[memo[u].inflight], u, memo')
  BY <1>2, <1>3 DEF Flights, Generations, IsPromise
<1>4. ASSUME NEW s \in Slots, folds[s] # NoFold PROVE IsFold(folds[s], s, memo')
  <2>1. IsFold(folds[s], s, memo) /\ folds[s].task \in Tasks /\ IsMemo(memo[folds[s].task])
    BY <1>4 DEF Flights, Generations, IsFold
  <2>2. QED BY <1>2, <2>1 DEF IsFold, IsMemo
<1>5. Generations' BY <1>1, <1>2, <1>3, <1>4 DEF Flights, Generations
<1>6. SingleFlight' BY DEF Flights, SingleFlight
<1>7. QED BY <1>5, <1>6 DEF Flights

\* A fold that ends is no promise any more.
LEMMA EndsKeeps ==
    ASSUME Flights, NEW s \in Slots, folds[s] # NoFold, NEW cached,
           cached # NoBoard => cached.gen \in Nat /\ cached.gen <= memo[folds[s].task].gen,
           folds' = [folds EXCEPT ![s] = NoFold],
           memo' = IF folds[s].fresh THEN memo
                   ELSE [memo EXCEPT ![folds[s].task] =
                           [memo[folds[s].task] EXCEPT !.cached = cached, !.inflight = Cleared(folds[s].task, s)]]
    PROVE  Flights'
<1> DEFINE t == folds[s].task
<1>0. IsFold(folds[s], s, memo) /\ t \in Tasks /\ IsMemo(memo[t]) BY DEF Flights, Generations, IsFold
<1> HIDE DEF t
<1>1. /\ DOMAIN folds' = Slots /\ folds'[s] = NoFold /\ \A r \in Slots : r # s => folds'[r] = folds[r]
  BY DEF Flights, Generations
<1>2. ASSUME NEW u \in Tasks
      PROVE  /\ IsMemo(memo'[u]) /\ memo'[u].under = memo[u].under /\ memo'[u].gen = memo[u].gen
             /\ memo'[u].inflight = memo[u].inflight \/ (memo[u].inflight = s /\ memo'[u].inflight = NoFold)
             /\ memo'[u].inflight = s => memo'[u].inflight = NoFold
  <2>1. IsMemo(memo[u]) BY DEF Flights, Generations
  <2>2. CASE folds[s].fresh \/ u # t
    <3>1. memo'[u] = memo[u] BY <2>2 DEF t, Flights, Generations
    <3>2. memo[u].inflight = s => memo[u].inflight = NoFold
      BY <2>2 DEF t, Flights, Generations, IsPromise
    <3>3. QED BY <2>1, <3>1, <3>2
  <2>3. CASE ~folds[s].fresh /\ u = t
    <3>1. memo'[u] = [memo[u] EXCEPT !.cached = cached, !.inflight = Cleared(u, s)]
      BY <2>3 DEF t, Flights, Generations
    <3>2. /\ DOMAIN memo'[u] = DOMAIN memo[u] /\ memo'[u].gen = memo[u].gen
          /\ memo'[u].inflight = Cleared(u, s) /\ memo'[u].under = memo[u].under /\ memo'[u].cached = cached
      BY <2>1, <3>1, ZenonT(40) DEF IsMemo, MemoFields
    <3>3. QED BY <2>1, <2>3, <3>2 DEF t, IsMemo, Cleared
  <2>4. QED BY <2>2, <2>3
<1>3. DOMAIN memo' = Tasks BY DEF Flights, Generations
<1>4. ASSUME NEW u \in Tasks, memo'[u].inflight # NoFold
      PROVE  memo'[u].inflight \in Slots /\ IsPromise(folds'[memo'[u].inflight], u, memo')
  <2>1. memo'[u].inflight = memo[u].inflight /\ memo'[u].inflight # s BY <1>2, <1>4
  <2>2. memo[u].inflight \in Slots /\ IsPromise(folds[memo[u].inflight], u, memo)
    BY <1>4, <2>1 DEF Flights, Generations
  <2>3. QED BY <1>1, <1>2, <2>1, <2>2 DEF IsPromise
<1>5. ASSUME NEW r \in Slots, folds'[r] # NoFold PROVE IsFold(folds'[r], r, memo')
  <2>1. r # s /\ folds'[r] = folds[r] /\ IsFold(folds[r], r, memo) /\ folds[r].task \in Tasks
    BY <1>1, <1>5 DEF Flights, Generations, IsFold
  <2>2. QED BY <1>2, <2>1 DEF IsFold
<1>6. Generations' BY <1>1, <1>2, <1>3, <1>4, <1>5 DEF Generations
<1>7. SingleFlight' BY <1>1 DEF Flights, SingleFlight
<1>8. QED BY <1>6, <1>7 DEF Flights

\* A request begins a fold for others to share only where none can be shared.
LEMMA AskKeeps ==
    ASSUME Flights, NEW s \in Slots, NEW t \in Tasks, Ask(s, t)
    PROVE  Flights'
<1>0. IsMemo(memo[t]) /\ DOMAIN folds = Slots /\ DOMAIN memo = Tasks BY DEF Flights, Generations
<1>1. /\ DOMAIN folds' = Slots /\ \A r \in Slots \ {s} : folds'[r] = folds[r]
      /\ DOMAIN folds'[s] = FoldFields /\ folds'[s].task = t /\ ~folds'[s].fresh
      /\ folds'[s].gen = memo[t].gen
  <2>1. Start(s, t, FALSE) BY DEF Ask
  <2>2. QED BY <1>0, <2>1, FoldStarts, ZenonT(40)
<1>2. /\ DOMAIN memo' = Tasks /\ \A u \in Tasks : u # t => memo'[u] = memo[u]
      /\ memo'[t] = [memo[t] EXCEPT !.inflight = s, !.under = memo[t].gen]
  BY <1>0 DEF Ask
<1>3. /\ DOMAIN memo'[t] = MemoFields /\ memo'[t].gen = memo[t].gen /\ memo'[t].cached = memo[t].cached
      /\ memo'[t].inflight = s /\ memo'[t].under = memo[t].gen
  BY <1>0, <1>2 DEF IsMemo, MemoFields
<1>4. ASSUME NEW u \in Tasks PROVE IsMemo(memo'[u]) /\ memo'[u].gen = memo[u].gen
  <2>1. IsMemo(memo[u]) BY DEF Flights, Generations
  <2>2. CASE u = t BY <1>3, <2>1, <2>2 DEF IsMemo
  <2>3. CASE u # t BY <1>2, <2>1, <2>3
  <2>4. QED BY <2>2, <2>3
<1>5. folds[s] = NoFold /\ ~Shared(t) BY DEF Ask
\* No fold of this task is of this generation: it would be shared.
<1>6. ASSUME NEW r \in Slots, r # s, folds'[r] # NoFold
      PROVE  IsFold(folds'[r], r, memo') /\ (folds[r].task = t /\ ~folds[r].fresh => folds[r].gen # memo[t].gen)
  <2>1. folds'[r] = folds[r] /\ IsFold(folds[r], r, memo) BY <1>1, <1>6 DEF Flights, Generations
  <2>2. ASSUME folds[r].task = t, ~folds[r].fresh, folds[r].gen = memo[t].gen PROVE FALSE
    <3>1. memo[t].inflight = r BY <2>1, <2>2 DEF IsFold
    <3>2. r # NoFold BY BoardAssumption
    <3>3. IsPromise(folds[r], t, memo) BY <3>1, <3>2 DEF Flights, Generations
    <3>4. QED BY <1>5, <2>2, <3>1, <3>2, <3>3 DEF Shared, IsPromise
  <2>3. QED BY <1>2, <1>3, <1>4, <2>1, <2>2 DEF IsFold
<1>7. IsFold(folds'[s], s, memo') BY <1>0, <1>1, <1>3 DEF IsFold, IsMemo
<1>8. ASSUME NEW u \in Tasks, memo'[u].inflight # NoFold
      PROVE  memo'[u].inflight \in Slots /\ IsPromise(folds'[memo'[u].inflight], u, memo')
  <2>1. CASE u = t BY <1>1, <1>3, <2>1 DEF IsPromise
  <2>2. CASE u # t
    <3>1. memo'[u] = memo[u] /\ memo[u].inflight # NoFold BY <1>2, <1>8, <2>2
    <3>2. memo[u].inflight \in Slots /\ IsPromise(folds[memo[u].inflight], u, memo)
      BY <3>1 DEF Flights, Generations
    <3>3. memo[u].inflight # s
      <4>1. DOMAIN NoFold # FoldFields BY DEF NoFold, FoldFields
      <4>2. QED BY <1>5, <3>2, <4>1 DEF IsPromise
    <3>4. QED BY <1>1, <3>1, <3>2, <3>3 DEF IsPromise
  <2>3. QED BY <2>1, <2>2
<1>9. Generations'
  <2>1. \A r \in Slots : folds'[r] # NoFold => IsFold(folds'[r], r, memo') BY <1>6, <1>7
  <2>2. QED BY <1>1, <1>2, <1>4, <1>8, <2>1 DEF Generations
<1>10. SingleFlight'
  <2> SUFFICES ASSUME NEW q \in Slots, NEW r \in Slots, q # r, folds'[q] # NoFold, folds'[r] # NoFold,
                      folds'[q].task = folds'[r].task, ~folds'[q].fresh, ~folds'[r].fresh
               PROVE  folds'[q].gen # folds'[r].gen
    BY DEF SingleFlight
  <2>1. CASE q # s /\ r # s BY <1>1, <2>1 DEF Flights, SingleFlight
  <2>2. CASE q = s BY <1>1, <1>6, <2>2
  <2>3. CASE r = s BY <1>1, <1>6, <2>3
  <2>4. QED BY <2>1, <2>2, <2>3
<1>11. QED BY <1>9, <1>10 DEF Flights

LEMMA FreshKeeps ==
    ASSUME Flights, NEW s \in Slots, NEW t \in Tasks, AskFresh(s, t)
    PROVE  Flights'
<1>0. IsMemo(memo[t]) /\ DOMAIN folds = Slots BY DEF Flights, Generations
<1>1. /\ DOMAIN folds' = Slots /\ \A r \in Slots \ {s} : folds'[r] = folds[r]
      /\ DOMAIN folds'[s] = FoldFields /\ folds'[s].task = t /\ folds'[s].fresh
      /\ folds'[s].gen = memo[t].gen
  <2>1. Start(s, t, TRUE) BY DEF AskFresh
  <2>2. QED BY <1>0, <2>1, FoldStarts
<1>2. memo' = memo /\ folds[s] = NoFold BY DEF AskFresh
<1>3. IsFold(folds'[s], s, memo) BY <1>0, <1>1 DEF IsFold, IsMemo
<1>4. ASSUME NEW u \in Tasks, memo[u].inflight # NoFold
      PROVE  memo[u].inflight \in Slots /\ IsPromise(folds'[memo[u].inflight], u, memo)
  <2>1. memo[u].inflight \in Slots /\ IsPromise(folds[memo[u].inflight], u, memo)
    BY <1>4 DEF Flights, Generations
  <2>2. memo[u].inflight # s
    <3>1. DOMAIN NoFold # FoldFields BY DEF NoFold, FoldFields
    <3>2. QED BY <1>2, <2>1, <3>1 DEF IsPromise
  <2>3. QED BY <1>1, <2>1, <2>2
<1>5. Generations'
  <2>1. \A r \in Slots : folds'[r] # NoFold => IsFold(folds'[r], r, memo)
    BY <1>1, <1>3 DEF Flights, Generations
  <2>2. QED BY <1>1, <1>2, <1>4, <2>1 DEF Flights, Generations
<1>6. SingleFlight' BY <1>1 DEF Flights, SingleFlight
<1>7. QED BY <1>5, <1>6 DEF Flights

\* A fold that ends keeps its board under the generation it began in, or not.
LEMMA FinishKeeps ==
    ASSUME Flights, NEW s \in Slots, Finish(s)
    PROVE  Flights'
<1> DEFINE t == folds[s].task
           k == Memoized(t, folds[s])
<1>1. folds[s] # NoFold /\ folds' = [folds EXCEPT ![s] = NoFold] BY DEF Finish
<1>2. IsFold(folds[s], s, memo) /\ t \in Tasks /\ IsMemo(memo[t]) /\ DOMAIN memo = Tasks
  BY <1>1 DEF Flights, Generations, IsFold
<1>3. k # NoBoard => k.gen \in Nat /\ k.gen <= memo[t].gen BY <1>2 DEF Memoized, IsFold, IsMemo
<1>4. memo' = IF folds[s].fresh THEN memo
              ELSE [memo EXCEPT ![t].cached = k, ![t].inflight = Cleared(t, s)]
  BY DEF Finish
<1> HIDE DEF k
<1>5. memo' = IF folds[s].fresh THEN memo
              ELSE [memo EXCEPT ![t] = [memo[t] EXCEPT !.cached = k, !.inflight = Cleared(t, s)]]
  BY <1>2, <1>4
<1>6. QED BY <1>1, <1>3, <1>5, EndsKeeps

\* A fold that is given up leaves the board that is kept.
LEMMA RejectKeeps ==
    ASSUME Flights, NEW s \in Slots, Reject(s)
    PROVE  Flights'
<1> DEFINE t == folds[s].task
           k == memo[t].cached
<1>1. folds[s] # NoFold /\ folds' = [folds EXCEPT ![s] = NoFold] BY DEF Reject
<1>2. IsFold(folds[s], s, memo) /\ t \in Tasks /\ IsMemo(memo[t]) /\ DOMAIN memo = Tasks
  BY <1>1 DEF Flights, Generations, IsFold
<1>3. k # NoBoard => k.gen \in Nat /\ k.gen <= memo[t].gen BY <1>2 DEF IsMemo
<1>4. memo' = IF folds[s].fresh THEN memo ELSE [memo EXCEPT ![t].inflight = Cleared(t, s)]
  BY DEF Reject
<1>5. [memo[t] EXCEPT !.inflight = Cleared(t, s)] = [memo[t] EXCEPT !.cached = k, !.inflight = Cleared(t, s)]
  BY <1>2 DEF IsMemo, MemoFields
<1>6. memo' = IF folds[s].fresh THEN memo
              ELSE [memo EXCEPT ![t] = [memo[t] EXCEPT !.cached = k, !.inflight = Cleared(t, s)]]
  BY <1>2, <1>4, <1>5
<1>7. QED BY <1>1, <1>3, <1>6, EndsKeeps

\* Every step of the leaderboard keeps the folds of a generation shared.
LEMMA FlightsStep == Flights /\ [Next]_boardVars => Flights'
<1> SUFFICES ASSUME Flights, [Next]_boardVars PROVE Flights'
  OBVIOUS
<1>0. DOMAIN folds = Slots BY DEF Flights, Generations
<1>1. ASSUME NEW s \in Slots, Finish(s) PROVE Flights' BY <1>1, FinishKeeps
<1>2. ASSUME NEW s \in Slots, NEW t \in Tasks, Ask(s, t) \/ AskFresh(s, t) PROVE Flights'
  BY <1>2, AskKeeps, FreshKeeps
<1>3. ASSUME NEW s \in Slots, Read(s) \/ ReadFails(s) \/ ReplyShort(s) PROVE Flights'
  <2>1. /\ DOMAIN folds' = Slots /\ UNCHANGED memo
        /\ \A r \in Slots : folds'[r] = folds[r] \/ (folds[r] # NoFold /\ SameFold(folds[r], folds'[r]))
    BY <1>0, <1>3, ReadPasses
  <2>2. QED BY <2>1, FlightsStay
<1>4. ASSUME NEW s \in Slots, Reject(s) PROVE Flights' BY <1>4, RejectKeeps
<1>5. ASSUME NEW award, Disturbs(award), UNCHANGED memo PROVE Flights'
  <2>1. /\ DOMAIN folds' = Slots
        /\ \A r \in Slots : folds'[r] = folds[r] \/ (folds[r] # NoFold /\ SameFold(folds[r], folds'[r]))
    BY <1>5, DisturbsPasses
  <2>2. QED BY <1>5, <2>1, FlightsStay
<1>6. ASSUME NEW mod, NEW l, NEW i, Award(mod, l, i) PROVE Flights' BY <1>5, <1>6 DEF Award
<1>7. ASSUME NEW l, NEW s, Move(l, s) PROVE Flights' BY <1>5, <1>7 DEF Move
<1>8. ASSUME NEW l, Buy(l) PROVE Flights' BY <1>5, <1>8 DEF Buy
<1>9. ASSUME NEW s, NEW points, Adjust(s, points) PROVE Flights' BY <1>5, <1>9 DEF Adjust
<1>10. ASSUME ResetModule PROVE Flights' BY <1>5, <1>10 DEF ResetModule
<1>11. ASSUME NEW t, NEW l, BeginReset(t, l) PROVE Flights' BY <1>11, OutdatedKeeps DEF BeginReset
<1>12. ASSUME EndReset PROVE Flights' BY <1>12, OutdatedKeeps DEF EndReset
<1>13. ASSUME UNCHANGED <<folds, memo>> PROVE Flights'
  BY <1>13 DEF Flights, Generations, SingleFlight, IsMemo, IsFold, IsPromise
<1>14. ASSUME Tick \/ UNCHANGED boardVars PROVE Flights' BY <1>13, <1>14 DEF Tick, boardVars
<1>15. QED
  BY <1>1, <1>2, <1>3, <1>4, <1>6, <1>7, <1>8, <1>9, <1>10, <1>11, <1>12, <1>14 DEF Next

LEMMA FlightsInit == Init => Flights
<1> SUFFICES ASSUME Init PROVE Flights
  OBVIOUS
<1>1. /\ DOMAIN folds = Slots /\ DOMAIN memo = Tasks /\ \A s \in Slots : folds[s] = NoFold BY DEF Init
<1>2. ASSUME NEW t \in Tasks PROVE IsMemo(memo[t]) /\ memo[t].inflight = NoFold
  BY <1>2 DEF Init, IsMemo, MemoFields
<1>3. QED BY <1>1, <1>2 DEF Flights, Generations, SingleFlight

\* A room that lands in one second is one fold: whatever fails, however the
\* folds of several tasks interleave with resets that raise the generation, two
\* folds of one task that are not fresh are of different generations
\* (getFoldedLeaderboard, the inflight promise and inflightGen).
THEOREM FoldsShared == BoardSpec => []SingleFlight
<1>1. Flights => SingleFlight BY DEF Flights
<1>2. QED BY <1>1, FlightsInit, FlightsStep, PTL DEF BoardSpec

(***************************************************************************)
(* Board: the scores a reset deleted.                                        *)
(***************************************************************************)
Stores == {"sd", "quiz", "classic", "ai"}
ResetFields == {"phase", "task", "login", "todo"}

\* The rows are of their types, an event's players are logins, and a reset is
\* of a task and a login.
RowsFine ==
    /\ clock \in Nat /\ world.live \subseteq Stores /\ world.players \subseteq Logins
    /\ rows \in [Stores -> [Logins -> [Items -> StoredRow \union {NoRow}]]]
    /\ reset.phase \in {"open", "over"} =>
         DOMAIN reset = ResetFields /\ reset.task \in Tasks /\ reset.login \in Logins

\* What one login's rows in a module are worth.
HeldItems(got) == {i \in Items : got[i] # NoRow}
Worth(got) == SumFunction([i \in HeldItems(got) |-> got[i].points])

LEMMA WorthNat ==
    ASSUME NEW got \in [Items -> StoredRow \union {NoRow}]
    PROVE  Worth(got) \in Nat
<1> DEFINE S == HeldItems(got)
           f == [i \in S |-> got[i].points]
<1>1. S \subseteq Items BY DEF HeldItems
<1>2. IsFiniteSet(S) BY <1>1, BoardAssumption, FS_Subset
<1>3. \A i \in S : got[i].points \in Nat BY DEF HeldItems, StoredRow
<1>4. f \in [S -> Nat] BY <1>3
<1> HIDE DEF S, f
<1>5. SumFunction(f) \in Nat BY <1>2, <1>4, SumNat
<1>6. QED BY <1>5 DEF Worth, f, S

\* An award makes its rows worth more.
LEMMA WorthRises ==
    ASSUME NEW got \in [Items -> StoredRow \union {NoRow}], NEW i \in Items, got[i] = NoRow,
           NEW row \in StoredRow, NEW after, after = [got EXCEPT ![i] = row]
    PROVE  Worth(got) <= Worth(after)
<1> DEFINE S == HeldItems(got)
           f == [j \in S |-> got[j].points]
           g == [j \in S \union {i} |-> after[j].points]
<1>0. row # NoRow /\ after \in [Items -> StoredRow \union {NoRow}] BY BoardAssumption
<1>1. HeldItems(after) = S \union {i} /\ i \notin S BY <1>0 DEF HeldItems
<1>2. IsFiniteSet(S) /\ S \subseteq Items BY BoardAssumption, FS_Subset DEF HeldItems
<1>3. \A j \in S : j # i /\ after[j] = got[j] /\ got[j].points \in Nat BY <1>1, <1>2 DEF HeldItems, StoredRow
<1>4. after[i].points \in Nat BY DEF StoredRow
<1>5. f \in [S -> Nat] /\ g \in [S \union {i} -> Nat] /\ \A j \in S : g[j] = f[j] BY <1>3, <1>4
<1>6. g[i] \in Nat BY <1>5
<1>7. Worth(got) = SumFunction(f) /\ Worth(after) = SumFunction(g) BY <1>1 DEF Worth
<1> HIDE DEF S, f, g
<1>8. SumFunction(g) = SumFunction(f) + g[i] BY <1>1, <1>2, <1>5, SumGrows
<1>9. SumFunction(f) \in Nat BY <1>2, <1>5, SumNat
<1>10. QED BY <1>6, <1>7, <1>8, <1>9

\* The running totals of a module hold, for each login, the worth of its rows.
LEMMA TotalsAreWorth ==
    ASSUME RowsFine, NEW mod \in Stores, NEW l \in Logins
    PROVE  Totals(mod)[l].points = Worth(rows[mod][l])
<1> DEFINE got == rows[mod]
           own == [i \in HeldItems(got[l]) |-> got[l][i]]
<1>0. got[l] \in [Items -> StoredRow \union {NoRow}] BY DEF RowsFine
<1>1. Union(got, {l}) = own
  <2> DEFINE holders(i) == {m \in {l} : got[m][i] # NoRow}
             first(i) == CHOOSE m \in holders(i) : \A n \in holders(i) : got[m][i].at <= got[n][i].at
  <2>1. Union(got, {l}) = [i \in {j \in Items : holders(j) # {}} |-> got[first(i)][i]] BY DEF Union
  <2>2. {j \in Items : holders(j) # {}} = HeldItems(got[l]) BY DEF HeldItems
  <2>3. ASSUME NEW i \in HeldItems(got[l]) PROVE first(i) = l
    <3>1. holders(i) = {l} /\ got[l][i] \in StoredRow BY <1>0, <2>3 DEF HeldItems
    <3>2. got[l][i].at <= got[l][i].at BY <3>1 DEF StoredRow
    <3> HIDE DEF holders, got
    <3>3. QED BY <3>1, <3>2
  <2> HIDE DEF holders, first, got
  <2>4. QED BY <2>1, <2>2, <2>3
<1>2. Totals(mod)[l] = Tally(own) BY <1>1 DEF Totals
<1>3. DOMAIN own = HeldItems(got[l]) /\ \A i \in HeldItems(got[l]) : own[i] = got[l][i] OBVIOUS
<1>4. Tally(own).points = SumFunction([i \in DOMAIN own |-> own[i].points]) BY DEF Tally
<1> HIDE DEF own, got
<1>5. [i \in DOMAIN own |-> own[i].points] = [i \in HeldItems(got[l]) |-> got[l][i].points] BY <1>3
<1>6. QED BY <1>2, <1>4, <1>5 DEF Worth, got

\* What a fold has read of a login is no more than the rows are worth.
NoMore(seen, login, got) ==
    \A r \in DOMAIN seen : r[1] = "totals" /\ seen[r].totals # Failed =>
        /\ r[2] \in Apps /\ seen[r].totals[login].points \in Nat
        /\ seen[r].totals[login].points <= Worth(got[r[2]][login])

\* Once a reset is over: nothing that its task may still offer holds more.
Lowered ==
    reset.phase = "over" =>
        LET t == reset.task
        IN  /\ (memo[t].cached # NoBoard /\ memo[t].cached.gen = memo[t].gen) =>
                  NoMore(memo[t].cached.seen, reset.login, rows)
            /\ \A s \in Slots : (folds[s] # NoFold /\ folds[s].task = t /\ folds[s].gen = memo[t].gen) =>
                  NoMore(folds[s].seen, reset.login, rows)

\* Of the round trips of a fold, those of the totals are of the app's modules.
LEMMA PlannedTotals ==
    ASSUME NEW r \in Plan, r[1] = "totals"
    PROVE  r[2] \in Apps /\ r # Source
<1>1. r # Source BY DEF Source
<1>2. ASSUME r \in ToSet(Line) PROVE FALSE
  <2>1. PICK i \in DOMAIN Line : r = Line[i] BY <1>2 DEF ToSet
  <2>2. DOMAIN Line = 1..8 BY DEF Line
  <2>3. i = 1 \/ i = 2 \/ i = 3 \/ i = 4 \/ i = 5 \/ i = 6 \/ i = 7 \/ i = 8 BY <2>1, <2>2
  <2>4. /\ Line[1] = <<"rosters">> /\ Line[2] = Teams("quiz") /\ Line[3] = Teams("classic") /\ Line[4] = Opening
        /\ Line[5] = Teams("ai") /\ Line[6] = <<"spent">> /\ Line[7] = <<"adjust">> /\ Line[8] = <<"series">>
    BY DEF Line
  <2>5. r[1] \in {"rosters", "teams", "spent", "adjust", "series"} BY <2>1, <2>3, <2>4 DEF Teams, Opening
  <2>6. QED BY <2>5
<1>3. r \notin {ReachTeams, ReachRows, ReachOpen, Opening}
  BY DEF ReachTeams, ReachRows, ReachOpen, Opening
<1>4. PICK mod \in Apps \intersect world.live : r = Own(mod) BY <1>1, <1>2, <1>3 DEF Plan
<1>5. QED BY <1>1, <1>4 DEF Own

LEMMA RepliesOfTotals ==
    ASSUME NEW r \in Plan, r[1] = "totals", NEW reply,
           reply = Reply(r) \/ reply \in Degraded(r) \/ reply \in Shortened(r), reply.totals # Failed
    PROVE  r[2] \in Apps /\ reply.totals = Totals(r[2])
<1>1. r[2] \in Apps /\ r # Source BY PlannedTotals
<1>2. Reply(r) = [totals |-> Totals(r[2]), list |-> world.catalogue[r[2]]]
  <2>1. r \notin {ReachTeams, ReachRows, ReachOpen, Opening}
    BY DEF ReachTeams, ReachRows, ReachOpen, Opening
  <2>2. QED BY <1>1, <2>1 DEF Reply
<1>3. reply \notin Shortened(r) BY DEF Shortened, Opening
<1>4. Degraded(r) = {[Reply(r) EXCEPT !.totals = Failed], [Reply(r) EXCEPT !.list = Failed]} BY <1>1 DEF Degraded
<1>5. QED BY <1>1, <1>2, <1>3, <1>4

LEMMA AppsAre == Apps = {"quiz", "classic", "ai"}
<1>1. DOMAIN Mods = {1, 2, 3} /\ Mods[1] = "quiz" /\ Mods[2] = "classic" /\ Mods[3] = "ai" BY DEF Mods
<1>2. QED BY <1>1 DEF Apps, Range

\* A read adds what the totals are now.
LEMMA ReadsNoMore ==
    ASSUME RowsFine, NEW login \in Logins, NEW seen, NoMore(seen, login, rows),
           NEW r \in Plan, r \notin DOMAIN seen, NEW reply,
           reply = Reply(r) \/ reply \in Degraded(r) \/ reply \in Shortened(r)
    PROVE  NoMore(Answered(seen, r, reply), login, rows)
<1> DEFINE all == Answered(seen, r, reply)
<1>1. DOMAIN all = DOMAIN seen \union {r} /\ all[r] = reply /\ \A q \in DOMAIN seen : all[q] = seen[q]
  BY DEF Answered
<1> HIDE DEF all
<1>2. ASSUME r[1] = "totals", reply.totals # Failed
      PROVE  /\ r[2] \in Apps /\ reply.totals[login].points \in Nat
             /\ reply.totals[login].points <= Worth(rows[r[2]][login])
  <2>1. r[2] \in Apps /\ reply.totals = Totals(r[2]) BY <1>2, RepliesOfTotals
  <2>2. r[2] \in Stores BY <2>1, AppsAre DEF Stores
  <2>3. reply.totals[login].points = Worth(rows[r[2]][login]) BY <2>1, <2>2, TotalsAreWorth
  <2>4. rows[r[2]][login] \in [Items -> StoredRow \union {NoRow}] BY <2>2 DEF RowsFine
  <2>5. Worth(rows[r[2]][login]) \in Nat BY <2>4, WorthNat
  <2>6. QED BY <2>1, <2>3, <2>5
<1>3. NoMore(all, login, rows)
  <2> SUFFICES ASSUME NEW q \in DOMAIN all, q[1] = "totals", all[q].totals # Failed
               PROVE  /\ q[2] \in Apps /\ all[q].totals[login].points \in Nat
                      /\ all[q].totals[login].points <= Worth(rows[q[2]][login])
    BY DEF NoMore
  <2>1. CASE q = r BY <1>1, <1>2, <2>1
  <2>2. CASE q # r BY <1>1, <2>2 DEF NoMore
  <2>3. QED BY <2>1, <2>2
<1>4. QED BY <1>3 DEF all

\* The rows of a login are worth no less after an award.
Rises(login) == \A mod \in Apps : Worth(rows[mod][login]) <= Worth(rows'[mod][login])
LEMMA NoMoreRises ==
    ASSUME RowsFine, RowsFine', NEW login \in Logins, Rises(login), NEW seen, NoMore(seen, login, rows)
    PROVE  NoMore(seen, login, rows')
<1> SUFFICES ASSUME NEW r \in DOMAIN seen, r[1] = "totals", seen[r].totals # Failed
             PROVE  /\ r[2] \in Apps /\ seen[r].totals[login].points \in Nat
                    /\ seen[r].totals[login].points <= Worth(rows'[r[2]][login])
  BY DEF NoMore
<1>1. /\ r[2] \in Apps /\ seen[r].totals[login].points \in Nat
      /\ seen[r].totals[login].points <= Worth(rows[r[2]][login])
  BY DEF NoMore
<1>2. rows[r[2]][login] \in [Items -> StoredRow \union {NoRow}] /\ rows'[r[2]][login] \in [Items -> StoredRow \union {NoRow}]
  BY <1>1, AppsAre DEF RowsFine, Stores
<1>3. Worth(rows[r[2]][login]) \in Nat /\ Worth(rows'[r[2]][login]) \in Nat BY <1>2, WorthNat
<1>4. Worth(rows[r[2]][login]) <= Worth(rows'[r[2]][login]) BY <1>1 DEF Rises
<1>5. QED BY <1>1, <1>3, <1>4

\* A reset writes no rows over, an award writes one.
LEMMA RowsStep == RowsFine /\ [Next]_boardVars => RowsFine'
<1> SUFFICES ASSUME RowsFine, [Next]_boardVars PROVE RowsFine'
  OBVIOUS
<1>1. ASSUME UNCHANGED <<world, clock, rows, reset>> PROVE RowsFine' BY <1>1 DEF RowsFine
<1>2. ASSUME NEW mod, NEW l \in world.players, NEW i \in Items, Award(mod, l, i) PROVE RowsFine'
  <2> DEFINE row == [points |-> 1, at |-> clock]
  <2>1. rows' = [rows EXCEPT ![mod][l][i] = row] /\ UNCHANGED <<world, clock, reset>> BY <1>2 DEF Award
  <2>2. row \in StoredRow BY DEF RowsFine, StoredRow
  <2> HIDE DEF row
  <2>3. rows' \in [Stores -> [Logins -> [Items -> StoredRow \union {NoRow}]]]
    BY <2>1, <2>2 DEF RowsFine
  <2>4. QED BY <2>1, <2>3 DEF RowsFine
<1>3. ASSUME ResetModule PROVE RowsFine'
  <2> DEFINE none == [i \in Items |-> NoRow]
             mod == Head(reset.todo)
  <2>1. rows' = [rows EXCEPT ![mod][reset.login] = none] /\ UNCHANGED <<world, clock>> BY <1>3 DEF ResetModule
  <2>2. none \in [Items -> StoredRow \union {NoRow}] OBVIOUS
  <2> HIDE DEF none, mod
  <2>3. rows' \in [Stores -> [Logins -> [Items -> StoredRow \union {NoRow}]]]
    BY <2>1, <2>2 DEF RowsFine
  <2>4. reset.phase = "open" /\ reset' = [reset EXCEPT !.todo = Tail(@)] BY <1>3 DEF ResetModule
  <2>5. /\ DOMAIN reset' = ResetFields /\ reset'.phase = "open" /\ reset'.task \in Tasks /\ reset'.login \in Logins
    BY <2>4 DEF RowsFine, ResetFields
  <2>6. QED BY <2>1, <2>3, <2>5 DEF RowsFine
<1>4. ASSUME NEW t \in Tasks, NEW l \in world.players, BeginReset(t, l) PROVE RowsFine'
  <2>1. reset' = [phase |-> "open", task |-> t, login |-> l, todo |-> <<"classic", "ai", "quiz">>]
    BY <1>4 DEF BeginReset
  <2>2. /\ DOMAIN reset' = ResetFields /\ reset'.task \in Tasks /\ reset'.login \in Logins
    BY <2>1 DEF RowsFine, ResetFields
  <2>3. QED BY <1>4, <2>2 DEF BeginReset, RowsFine, store
<1>5. ASSUME EndReset PROVE RowsFine'
  <2>1. reset.phase = "open" /\ reset' = [reset EXCEPT !.phase = "over"] BY <1>5 DEF EndReset
  <2>2. DOMAIN reset' = ResetFields /\ reset'.task \in Tasks /\ reset'.login \in Logins
    BY <2>1 DEF RowsFine, ResetFields
  <2>3. QED BY <1>5, <2>2 DEF EndReset, RowsFine, store
<1>6. ASSUME Tick PROVE RowsFine' BY <1>6 DEF Tick, RowsFine, store
<1>7. ASSUME NEW s \in Slots, Finish(s) \/ Read(s) \/ ReadFails(s) \/ ReplyShort(s) \/ Reject(s)
      PROVE  UNCHANGED <<world, clock, rows, reset>>
  BY <1>7 DEF Finish, Read, ReadFails, ReplyShort, Reject, store
<1>8. ASSUME NEW s \in Slots, NEW t \in Tasks, Ask(s, t) \/ AskFresh(s, t)
      PROVE  UNCHANGED <<world, clock, rows, reset>>
  BY <1>8 DEF Ask, AskFresh, store
<1>9. ASSUME NEW l, NEW s, NEW points, Move(l, s) \/ Buy(l) \/ Adjust(s, points)
      PROVE  UNCHANGED <<world, clock, rows, reset>>
  BY <1>9 DEF Move, Buy, Adjust
<1>10. ASSUME UNCHANGED boardVars PROVE UNCHANGED <<world, clock, rows, reset>> BY <1>10 DEF boardVars, store
<1>11. QED BY <1>1, <1>2, <1>3, <1>4, <1>5, <1>6, <1>7, <1>8, <1>9, <1>10 DEF Next

\* The folds hold what they held, and the rows of whoever was reset are worth
\* no less: nothing more is offered.
LEMMA LoweredStays ==
    ASSUME Flights, RowsFine, RowsFine', Lowered, UNCHANGED <<memo, reset>>,
           reset.phase = "over" => Rises(reset.login),
           \A s \in Slots : folds'[s] # NoFold =>
              /\ folds[s] # NoFold /\ folds'[s].task = folds[s].task /\ folds'[s].gen = folds[s].gen
              /\ folds'[s].seen = folds[s].seen
    PROVE  Lowered'
<1> SUFFICES ASSUME reset.phase = "over" PROVE Lowered'
  BY DEF Lowered
<1> DEFINE t == reset.task
           l == reset.login
<1>1. l \in Logins /\ Rises(l) BY DEF RowsFine
<1>2. ASSUME NEW seen, NoMore(seen, l, rows) PROVE NoMore(seen, l, rows') BY <1>1, <1>2, NoMoreRises
<1>3. ASSUME memo[t].cached # NoBoard, memo[t].cached.gen = memo[t].gen PROVE NoMore(memo[t].cached.seen, l, rows')
  BY <1>2, <1>3 DEF Lowered
<1>4. ASSUME NEW s \in Slots, folds'[s] # NoFold, folds'[s].task = t, folds'[s].gen = memo[t].gen
      PROVE  NoMore(folds'[s].seen, l, rows')
  BY <1>2, <1>4 DEF Lowered
<1>5. QED BY <1>3, <1>4 DEF Lowered

LEMMA DisturbsHolds ==
    ASSUME Flights, NEW award, Disturbs(award)
    PROVE  \A s \in Slots : folds'[s] # NoFold =>
              /\ folds[s] # NoFold /\ folds'[s].task = folds[s].task /\ folds'[s].gen = folds[s].gen
              /\ folds'[s].seen = folds[s].seen
<1> SUFFICES ASSUME NEW s \in Slots, folds'[s] # NoFold
             PROVE  /\ folds[s] # NoFold /\ folds'[s].task = folds[s].task /\ folds'[s].gen = folds[s].gen
                    /\ folds'[s].seen = folds[s].seen
  OBVIOUS
<1>1. folds[s] # NoFold /\ folds'[s] = [folds[s] EXCEPT !.quiet = FALSE, !.steady = @ /\ award] BY DEF Disturbs
<1>2. DOMAIN folds[s] = FoldFields BY <1>1 DEF Flights, Generations, IsFold
<1>3. QED BY <1>1, <1>2 DEF FoldFields

\* The rows of everyone are worth no less after an award.
LEMMA AwardRises ==
    ASSUME RowsFine, NEW login \in Logins, NEW mod, NEW l, NEW i \in Items, Award(mod, l, i)
    PROVE  Rises(login)
<1> SUFFICES ASSUME NEW m \in Apps PROVE Worth(rows[m][login]) <= Worth(rows'[m][login])
  BY DEF Rises
<1> DEFINE row == [points |-> 1, at |-> clock]
<1>1. rows' = [rows EXCEPT ![mod][l][i] = row] /\ rows[mod][l][i] = NoRow BY DEF Award
<1>2. row \in StoredRow BY DEF RowsFine, StoredRow
<1> HIDE DEF row
<1>3. m \in Stores /\ rows[m][login] \in [Items -> StoredRow \union {NoRow}] BY AppsAre DEF RowsFine, Stores
<1>4. Worth(rows[m][login]) \in Nat BY <1>3, WorthNat
<1>5. CASE m = mod /\ login = l
  <2>1. rows'[m][login] = [rows[m][login] EXCEPT ![i] = row] BY <1>1, <1>3, <1>5 DEF RowsFine
  <2>2. QED BY <1>1, <1>2, <1>3, <1>5, <2>1, WorthRises
<1>6. CASE ~(m = mod /\ login = l)
  <2>1. rows'[m][login] = rows[m][login] BY <1>1, <1>3, <1>6 DEF RowsFine
  <2>2. QED BY <1>4, <2>1
<1>7. QED BY <1>5, <1>6

LEMMA RowsSameRises == ASSUME RowsFine, NEW login \in Logins, UNCHANGED rows PROVE Rises(login)
<1> SUFFICES ASSUME NEW m \in Apps PROVE Worth(rows[m][login]) <= Worth(rows[m][login])
  BY DEF Rises
<1>1. rows[m][login] \in [Items -> StoredRow \union {NoRow}] BY AppsAre DEF RowsFine, Stores
<1>2. Worth(rows[m][login]) \in Nat BY <1>1, WorthNat
<1>3. QED BY <1>2

\* A read of a fold that began after the reset holds what the rows are worth.
LEMMA LoweredReads ==
    ASSUME Flights, RowsFine, Lowered, NEW s \in Slots, Read(s) \/ ReadFails(s) \/ ReplyShort(s)
    PROVE  Lowered'
<1>0. /\ folds[s] # NoFold /\ DOMAIN folds[s] = FoldFields /\ UNCHANGED <<memo, reset, rows>>
      /\ DOMAIN folds = Slots
  BY DEF Read, ReadFails, ReplyShort, store, Flights, Generations, IsFold
<1>1. PICK r, reply :
         /\ r \in Due(s)
         /\ reply = Reply(r) \/ reply \in Degraded(r) \/ reply \in Shortened(r)
         /\ \/ folds' = [folds EXCEPT ![s].seen = Answered(@, r, reply)]
            \/ folds' = [folds EXCEPT ![s].seen = Answered(@, r, reply), ![s].whole = FALSE]
  BY DEF Read, ReadFails, ReplyShort, Sees
<1> DEFINE seen == Answered(folds[s].seen, r, reply)
<1>2. /\ folds'[s] = [folds[s] EXCEPT !.seen = seen] \/ folds'[s] = [folds[s] EXCEPT !.seen = seen, !.whole = FALSE]
      /\ \A q \in Slots : q # s => folds'[q] = folds[q]
  BY <1>0, <1>1
<1> HIDE DEF seen
<1>3. folds'[s].task = folds[s].task /\ folds'[s].gen = folds[s].gen /\ folds'[s].seen = seen
  BY <1>0, <1>2 DEF FoldFields
<1> SUFFICES ASSUME reset.phase = "over" PROVE Lowered'
  BY <1>0 DEF Lowered
<1>4. reset.login \in Logins BY DEF RowsFine
<1>5. ASSUME folds[s].task = reset.task, folds[s].gen = memo[reset.task].gen
      PROVE  NoMore(seen, reset.login, rows)
  <2>1. NoMore(folds[s].seen, reset.login, rows) BY <1>0, <1>5 DEF Lowered
  <2>2. r \in Plan /\ r \notin DOMAIN folds[s].seen BY <1>1 DEF Due
  <2>3. QED BY <1>1, <1>4, <2>1, <2>2, ReadsNoMore DEF seen
<1>6. \A q \in Slots : (folds'[q] # NoFold /\ folds'[q].task = reset.task /\ folds'[q].gen = memo[reset.task].gen) =>
         NoMore(folds'[q].seen, reset.login, rows)
  <2> SUFFICES ASSUME NEW q \in Slots, folds'[q] # NoFold, folds'[q].task = reset.task,
                      folds'[q].gen = memo[reset.task].gen
               PROVE  NoMore(folds'[q].seen, reset.login, rows)
    OBVIOUS
  <2>1. CASE q = s BY <1>3, <1>5, <2>1
  <2>2. CASE q # s BY <1>2, <2>2 DEF Lowered
  <2>3. QED BY <2>1, <2>2
<1>7. QED BY <1>0, <1>6 DEF Lowered

\* A fold that begins has read nothing.
LEMMA LoweredStarts ==
    ASSUME Flights, RowsFine, Lowered, NEW s \in Slots, NEW t \in Tasks, Ask(s, t) \/ AskFresh(s, t)
    PROVE  Lowered'
<1>0. /\ DOMAIN folds = Slots /\ DOMAIN memo = Tasks /\ UNCHANGED <<reset, rows>>
      /\ memo' = memo \/ memo' = [memo EXCEPT ![t].inflight = s, ![t].under = memo[t].gen]
      /\ \E fresh : Start(s, t, fresh)
  BY DEF Flights, Generations, Ask, AskFresh, store
<1>1. (\A r \in Slots \ {s} : folds'[r] = folds[r]) /\ folds'[s].seen = <<>> BY <1>0, FoldStarts
<1>2. \A u \in Tasks : memo'[u].gen = memo[u].gen /\ memo'[u].cached = memo[u].cached
  <2> SUFFICES ASSUME NEW u \in Tasks PROVE memo'[u].gen = memo[u].gen /\ memo'[u].cached = memo[u].cached
    OBVIOUS
  <2>1. memo'[u] = memo[u] \/ memo'[u] = [memo[u] EXCEPT !.inflight = s, !.under = memo[t].gen] BY <1>0
  <2>2. DOMAIN memo[u] = MemoFields BY DEF Flights, Generations, IsMemo
  <2>3. QED BY <2>1, <2>2 DEF MemoFields
<1>3. NoMore(<<>>, reset.login, rows) BY DEF NoMore
<1> SUFFICES ASSUME reset.phase = "over" PROVE Lowered'
  BY <1>0 DEF Lowered
<1>4. reset.task \in Tasks BY DEF RowsFine
<1>5. /\ memo'[reset.task].gen = memo[reset.task].gen /\ memo'[reset.task].cached = memo[reset.task].cached
      /\ reset' = reset /\ rows' = rows
  BY <1>0, <1>2, <1>4
<1>6. \A q \in Slots : (folds'[q] # NoFold /\ folds'[q].task = reset.task /\ folds'[q].gen = memo[reset.task].gen) =>
         NoMore(folds'[q].seen, reset.login, rows)
  <2> SUFFICES ASSUME NEW q \in Slots, folds'[q] # NoFold, folds'[q].task = reset.task,
                      folds'[q].gen = memo[reset.task].gen
               PROVE  NoMore(folds'[q].seen, reset.login, rows)
    OBVIOUS
  <2>1. CASE q = s BY <1>1, <1>3, <2>1
  <2>2. CASE q # s BY <1>1, <2>2 DEF Lowered
  <2>3. QED BY <2>1, <2>2
<1>7. QED BY <1>5, <1>6 DEF Lowered

\* A fold that ends is kept for a generation only if it is of that one.
LEMMA LoweredEnds ==
    ASSUME Flights, RowsFine, Lowered, NEW s \in Slots, Finish(s) \/ Reject(s)
    PROVE  Lowered'
<1> DEFINE t == folds[s].task
<1>0. /\ DOMAIN folds = Slots /\ DOMAIN memo = Tasks /\ UNCHANGED <<reset, rows>> /\ folds[s] # NoFold
      /\ folds' = [folds EXCEPT ![s] = NoFold] /\ t \in Tasks
  BY DEF Flights, Generations, IsFold, Finish, Reject, store
<1>1. PICK k :
         /\ k = memo[t].cached \/ k = Memoized(t, folds[s])
         /\ \/ memo' = memo \/ memo' = [memo EXCEPT ![t].inflight = Cleared(t, s)]
            \/ memo' = [memo EXCEPT ![t].cached = k, ![t].inflight = Cleared(t, s)]
  BY DEF Finish, Reject
<1>2. ASSUME NEW u \in Tasks
      PROVE  /\ memo'[u].gen = memo[u].gen
             /\ memo'[u].cached = memo[u].cached \/ (u = t /\ memo'[u].cached = k)
  <2>1. DOMAIN memo[u] = MemoFields BY DEF Flights, Generations, IsMemo
  <2>2. CASE u # t BY <1>0, <1>1, <2>2
  <2>3. CASE u = t BY <1>0, <1>1, <2>1, <2>3 DEF MemoFields
  <2>4. QED BY <2>2, <2>3
<1>3. \A q \in Slots : folds'[q] # NoFold => q # s /\ folds'[q] = folds[q] BY <1>0
<1> SUFFICES ASSUME reset.phase = "over" PROVE Lowered'
  BY <1>0 DEF Lowered
<1>4. reset.task \in Tasks BY DEF RowsFine
<1>5. ASSUME memo'[reset.task].cached # NoBoard, memo'[reset.task].cached.gen = memo[reset.task].gen
      PROVE  NoMore(memo'[reset.task].cached.seen, reset.login, rows)
  <2>1. CASE memo'[reset.task].cached = memo[reset.task].cached BY <1>5, <2>1 DEF Lowered
  <2>2. CASE reset.task = t /\ memo'[t].cached = Memoized(t, folds[s])
    <3>1. CASE folds[s].gen = memo[t].gen
      <4>1. Memoized(t, folds[s]).seen = folds[s].seen BY <3>1 DEF Memoized
      <4>2. NoMore(folds[s].seen, reset.login, rows) BY <1>0, <2>2, <3>1 DEF Lowered
      <4>3. QED BY <2>2, <4>1, <4>2
    <3>2. CASE folds[s].gen # memo[t].gen
      <4>1. Memoized(t, folds[s]) = memo[t].cached BY <3>2 DEF Memoized
      <4>2. QED BY <1>5, <2>2, <4>1 DEF Lowered
    <3>3. QED BY <3>1, <3>2
  <2>3. QED BY <1>1, <1>2, <1>4, <2>1, <2>2
<1>6. \A q \in Slots : (folds'[q] # NoFold /\ folds'[q].task = reset.task /\ folds'[q].gen = memo[reset.task].gen) =>
         NoMore(folds'[q].seen, reset.login, rows)
  BY <1>3 DEF Lowered
<1>7. reset' = reset /\ rows' = rows /\ memo'[reset.task].gen = memo[reset.task].gen BY <1>0, <1>2, <1>4
<1>8. QED BY <1>5, <1>6, <1>7 DEF Lowered

\* A reset that is over is of a generation of its own: no fold is of it yet.
LEMMA LoweredOpens ==
    ASSUME Flights, RowsFine, EndReset
    PROVE  Lowered'
<1> DEFINE t == reset.task
<1>0. /\ reset.phase = "open" /\ memo' = Outdated(t) /\ folds' = folds
      /\ reset' = [reset EXCEPT !.phase = "over"]
  BY DEF EndReset
<1>1. DOMAIN reset = ResetFields /\ t \in Tasks BY <1>0 DEF RowsFine
<1>2. reset'.task = t BY <1>0, <1>1 DEF ResetFields
<1>3. IsMemo(memo[t]) /\ DOMAIN memo = Tasks BY <1>1 DEF Flights, Generations
<1>4. memo'[t] = [memo[t] EXCEPT !.gen = @ + 1] BY <1>0, <1>1, <1>3 DEF Outdated
<1>5. memo'[t].gen = memo[t].gen + 1 /\ memo'[t].cached = memo[t].cached BY <1>3, <1>4 DEF IsMemo, MemoFields
<1>6. memo'[t].cached # NoBoard => memo'[t].cached.gen # memo'[t].gen BY <1>3, <1>5 DEF IsMemo
<1>7. ASSUME NEW s \in Slots, folds[s] # NoFold, folds[s].task = t PROVE folds[s].gen # memo'[t].gen
  <2>1. IsFold(folds[s], s, memo) BY <1>7 DEF Flights, Generations
  <2>2. QED BY <1>3, <1>5, <1>7, <2>1 DEF IsFold, IsMemo
<1>8. QED BY <1>0, <1>2, <1>6, <1>7 DEF Lowered

LEMMA LoweredStep == Flights /\ RowsFine /\ RowsFine' /\ Lowered /\ [Next]_boardVars => Lowered'
<1> SUFFICES ASSUME Flights, RowsFine, RowsFine', Lowered, [Next]_boardVars PROVE Lowered'
  OBVIOUS
<1>1. reset.phase = "over" => reset.login \in Logins BY DEF RowsFine
<1>2. ASSUME NEW s \in Slots, Finish(s) \/ Reject(s) PROVE Lowered' BY <1>2, LoweredEnds
<1>3. ASSUME NEW s \in Slots, NEW t \in Tasks, Ask(s, t) \/ AskFresh(s, t) PROVE Lowered'
  BY <1>3, LoweredStarts
<1>4. ASSUME NEW s \in Slots, Read(s) \/ ReadFails(s) \/ ReplyShort(s) PROVE Lowered' BY <1>4, LoweredReads
<1>5. ASSUME NEW mod, NEW l, NEW i \in Items, Award(mod, l, i) PROVE Lowered'
  <2>1. Disturbs(TRUE) /\ UNCHANGED <<memo, reset>> BY <1>5 DEF Award
  <2>2. reset.phase = "over" => Rises(reset.login) BY <1>1, <1>5, AwardRises
  <2>3. QED BY <2>1, <2>2, DisturbsHolds, LoweredStays
<1>6. ASSUME NEW l, NEW s, NEW points, Move(l, s) \/ Buy(l) \/ Adjust(s, points) PROVE Lowered'
  <2>1. Disturbs(FALSE) /\ UNCHANGED <<memo, reset, rows>> BY <1>6 DEF Move, Buy, Adjust
  <2>2. reset.phase = "over" => Rises(reset.login) BY <1>1, <2>1, RowsSameRises
  <2>3. QED BY <2>1, <2>2, DisturbsHolds, LoweredStays
<1>7. ASSUME NEW t, NEW l, BeginReset(t, l) PROVE Lowered'
  <2>1. reset'.phase = "open" BY <1>7 DEF BeginReset
  <2>2. QED BY <2>1 DEF Lowered
<1>8. ASSUME ResetModule PROVE Lowered'
  <2>1. reset.phase = "open" /\ reset' = [reset EXCEPT !.todo = Tail(@)] BY <1>8 DEF ResetModule
  <2>2. reset'.phase = "open" BY <2>1 DEF RowsFine, ResetFields
  <2>3. QED BY <2>2 DEF Lowered
<1>9. ASSUME EndReset PROVE Lowered' BY <1>9, LoweredOpens
<1>10. ASSUME Tick \/ UNCHANGED boardVars PROVE Lowered'
  <2>1. UNCHANGED <<memo, reset, rows, folds>> BY <1>10 DEF Tick, boardVars, store
  <2>2. QED BY <2>1 DEF Lowered
<1>11. QED BY <1>2, <1>3, <1>4, <1>5, <1>6, <1>7, <1>8, <1>9, <1>10 DEF Next

\* Scores a reset deleted are offered to nobody by the task that deleted them,
\* though folds that read them are still running and end later, requests share
\* what others began, reads fail and contestants score again meanwhile
\* (beginScoreLowering, endScoreLowering, issue 553).
THEOREM LoweredScoresAreGone == BoardSpec => []LoweredScoresGone
<1>1. Init => RowsFine /\ Lowered
  <2> SUFFICES ASSUME Init PROVE RowsFine /\ Lowered
    OBVIOUS
  <2>1. PICK w \in Worlds : w.event = world /\ rows = w.rows BY DEF Init
  <2>2. /\ world.live \subseteq Stores /\ world.players \subseteq Logins
        /\ rows \in [Stores -> [Logins -> [Items -> StoredRow \union {NoRow}]]]
    BY <2>1, BoardAssumption DEF Stores
  <2>3. clock = 1 /\ reset = [phase |-> "none"] BY DEF Init
  <2>4. QED BY <2>2, <2>3 DEF RowsFine, Lowered
<1>2. Flights /\ RowsFine /\ Lowered => LoweredScoresGone
  <2> SUFFICES ASSUME Flights, RowsFine, Lowered, reset.phase = "over" PROVE LoweredScoresGone
    BY DEF LoweredScoresGone
  <2> DEFINE t == reset.task
             promise == folds[memo[t].inflight]
  <2>1. t \in Tasks /\ reset.login \in Logins BY DEF RowsFine
  <2>2. Valid(t) => NoMore(memo[t].cached.seen, reset.login, rows) BY DEF Valid, Lowered
  <2>3. ASSUME Shared(t) PROVE NoMore(promise.seen, reset.login, rows)
    <3>1. memo[t].inflight \in Slots /\ IsPromise(promise, t, memo) /\ memo[t].under = memo[t].gen
      BY <2>1, <2>3 DEF Shared, Flights, Generations
    <3>2. promise # NoFold
      <4>1. DOMAIN NoFold # FoldFields BY DEF NoFold, FoldFields
      <4>2. QED BY <3>1, <4>1 DEF IsPromise
    <3>3. QED BY <3>1, <3>2 DEF IsPromise, Lowered
  <2>4. ASSUME NEW seen, NoMore(seen, reset.login, rows), NEW r \in DOMAIN seen, r[1] = "totals", seen[r].totals # Failed
        PROVE  seen[r].totals[reset.login].points <= Totals(r[2])[reset.login].points
    <3>1. /\ r[2] \in Apps /\ seen[r].totals[reset.login].points <= Worth(rows[r[2]][reset.login])
      BY <2>4 DEF NoMore
    <3>2. r[2] \in Stores BY <3>1, AppsAre DEF Stores
    <3>3. QED BY <2>1, <3>1, <3>2, TotalsAreWorth
  <2>5. QED BY <2>2, <2>3, <2>4 DEF LoweredScoresGone
<1>3. QED BY <1>1, <1>2, FlightsInit, FlightsStep, RowsStep, LoweredStep, PTL DEF BoardSpec
=============================================================================
