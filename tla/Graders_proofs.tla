--------------------------- MODULE Graders_proofs ---------------------------
(***************************************************************************)
(* Proofs about the graders (Graders): for any contestants, items, answers, *)
(* records and settings, and any number of requests in flight.              *)
(***************************************************************************)
EXTENDS Graders, Archive, Sums

\* The commands an organizer's edit and a reset queue up.
Edits  == [do : {"record"}, item : Items, to : Records \union {NoRecord}]
          \union [do : {"answer"}, item : Items, to : Forms \union {NoAnswer}]
Resets == [do : {"users", "rows", "attempts", "points", "solved", "solvecount", "lastAt", "freeze"},
           of : SUBSET Logins]

\* The totals of the module's contestants and items.
Summed == {"points", "solved", "lastAt"} \union (IF mod = "quiz" THEN {} ELSE {"solvecount"})

\* A reset is of the same contestants throughout, and takes the rows before
\* any total, and every total after the rows.
InOrder(q) ==
    /\ q \in Seq(Resets)
    /\ \A k \in DOMAIN q : q[k].of = q[1].of
    /\ \A k \in DOMAIN q : q[k].do = "rows" =>
          /\ \A j \in DOMAIN q : j < k => q[j].do \notin Summed
          /\ \A what \in Summed : \E n \in DOMAIN q : k < n /\ q[n].do = what

\* A request carries limits of settings there were; the attempts of a signed
\* event are not metered.
Limited(r) ==
    /\ mod = "quiz" => \E s \in Limits : r.cap = s.cap
    /\ ~r.event => \E s \in Limits : r.cooldown = s.cooldown
    /\ r.event => mod = "ai"

Shapes ==
    /\ "subs" \in DOMAIN left /\ left["subs"] \subseteq Submissions
    /\ authoring \in Seq(Edits)
    /\ InOrder(wiping) /\ InOrder(clearing)
    /\ \A k \in DOMAIN wiping : wiping[k].of = Logins
    /\ mod # "quiz" => clearing = <<>>
    /\ \E s \in Limits : setting.cap = s.cap /\ setting.cooldown = s.cooldown
    /\ \A s \in Slots : req[s] # Nothing => Limited(req[s])
    /\ \A l \in Logins, i \in Items : attempts[l][i] # NoRow => attempts[l][i].n > 0

TypesInv == GraderTypeOK /\ Shapes

-----------------------------------------------------------------------------
(***************************************************************************)
(* Helpers: the scripts, the story and the commands.                        *)
(***************************************************************************)
LEMMA LimitFacts ==
    /\ IsFiniteSet(Limits) /\ Limits # {}
    /\ \A s \in Limits : /\ s \in [open : BOOLEAN, cooldown : Nat, cap : Nat]
                         /\ s.cap \in Nat /\ s.cooldown \in Nat /\ s.open \in BOOLEAN
    /\ Launch \in Limits /\ BakedSettings \in Limits /\ Settings \subseteq Limits
<1>1. IsFiniteSet({Launch}) /\ IsFiniteSet({Launch, BakedSettings})
  <2>1. IsFiniteSet({Launch}) BY FS_Singleton
  <2>2. IsFiniteSet({Launch} \union {BakedSettings}) BY <2>1, FS_AddElement
  <2>3. {Launch} \union {BakedSettings} = {Launch, BakedSettings} OBVIOUS
  <2>4. QED BY <2>1, <2>2, <2>3
<1>2. IsFiniteSet(Limits) BY <1>1, GraderAssumption, FS_Union DEF Limits
<1>3. Limits \subseteq [open : BOOLEAN, cooldown : Nat, cap : Nat] BY GraderAssumption
<1>4. QED BY <1>2, <1>3 DEF Limits

\* The step an item waits on is a step of the story.
LEMMA StepFacts == \A i \in Items : StepBefore(i) \in Items \union {NoRow}
<1> SUFFICES ASSUME NEW i \in Items, Earlier(i) # {} PROVE StepBefore(i) \in Items
  BY DEF StepBefore
<1>1. Chain \in Seq(Items) BY GraderAssumption
<1>2. DOMAIN Chain = 1..Len(Chain) /\ Len(Chain) \in Nat BY <1>1
<1>3. Earlier(i) \subseteq 1..Len(Chain) BY <1>2 DEF Earlier
<1>4. IsFiniteSet(1..Len(Chain)) BY <1>2, FS_Interval
<1>5. IsFiniteSet(Earlier(i)) /\ \A k \in Earlier(i) : k \in Int BY <1>2, <1>3, <1>4, FS_Subset
<1>6. \E k \in Earlier(i) : \A n \in Earlier(i) : n <= k BY <1>5, Largest
<1> DEFINE last == CHOOSE k \in Earlier(i) : \A n \in Earlier(i) : n <= k
<1>7. last \in Earlier(i) BY <1>6
<1>8. StepBefore(i) = Chain[last] BY DEF StepBefore
<1> HIDE DEF last
<1>9. Chain[last] \in Items BY <1>1, <1>2, <1>3, <1>7
<1>10. QED BY <1>8, <1>9

\* The first command of a reset, and what is left after it.
LEMMA TailFacts ==
    ASSUME NEW q, InOrder(q), q # <<>>
    PROVE  /\ Head(q) \in Resets /\ Head(q) = q[1] /\ 1 \in DOMAIN q
           /\ InOrder(Tail(q))
           /\ \A k \in DOMAIN Tail(q) : k + 1 \in DOMAIN q /\ Tail(q)[k] = q[k + 1]
           /\ \A k \in DOMAIN q : k = 1 \/ (k - 1 \in DOMAIN Tail(q) /\ Tail(q)[k - 1] = q[k])
<1>1. q \in Seq(Resets) BY DEF InOrder
<1>2. Head(q) \in Resets /\ Tail(q) \in Seq(Resets) /\ Len(q) \in Nat /\ Len(q) > 0
      /\ Len(Tail(q)) = Len(q) - 1 /\ Head(q) = q[1]
  BY <1>1
<1>3. DOMAIN q = 1..Len(q) /\ DOMAIN Tail(q) = 1..(Len(q) - 1) BY <1>1, <1>2
<1>4. \A k \in 1..(Len(q) - 1) : Tail(q)[k] = q[k + 1] BY <1>1, <1>2
<1>5. \A k \in DOMAIN Tail(q) : k \in Int /\ k + 1 \in DOMAIN q /\ Tail(q)[k] = q[k + 1]
  BY <1>2, <1>3, <1>4
<1>6. \A k \in DOMAIN q : k \in Int /\ (k = 1 \/ (k - 1 \in DOMAIN Tail(q) /\ Tail(q)[k - 1] = q[k]))
  BY <1>2, <1>3, <1>4
<1>7. 1 \in DOMAIN q BY <1>2, <1>3
<1>8. ASSUME NEW k \in DOMAIN Tail(q) PROVE Tail(q)[k].of = Tail(q)[1].of
  <2>1. 1 \in DOMAIN Tail(q) BY <1>2, <1>3
  <2>2. Tail(q)[1].of = q[1].of /\ Tail(q)[k].of = q[1].of BY <1>5, <2>1 DEF InOrder
  <2>3. QED BY <2>2
<1>9. ASSUME NEW k \in DOMAIN Tail(q), Tail(q)[k].do = "rows"
      PROVE  /\ \A j \in DOMAIN Tail(q) : j < k => Tail(q)[j].do \notin Summed
             /\ \A what \in Summed : \E n \in DOMAIN Tail(q) : k < n /\ Tail(q)[n].do = what
  <2>1. k + 1 \in DOMAIN q /\ q[k + 1].do = "rows" /\ k \in Int BY <1>5, <1>9
  <2>2. /\ \A j \in DOMAIN q : j < k + 1 => q[j].do \notin Summed
        /\ \A what \in Summed : \E n \in DOMAIN q : k + 1 < n /\ q[n].do = what
    BY <2>1 DEF InOrder
  <2>3. ASSUME NEW j \in DOMAIN Tail(q), j < k PROVE Tail(q)[j].do \notin Summed
    <3>1. j + 1 \in DOMAIN q /\ Tail(q)[j] = q[j + 1] /\ j \in Int /\ j + 1 < k + 1 BY <1>5, <2>1, <2>3
    <3>2. QED BY <2>2, <3>1
  <2>4. ASSUME NEW what \in Summed PROVE \E n \in DOMAIN Tail(q) : k < n /\ Tail(q)[n].do = what
    <3>1. PICK n \in DOMAIN q : k + 1 < n /\ q[n].do = what BY <2>2
    <3>2. n \in Int /\ k \in 1..(Len(q) - 1) BY <1>3, <1>6
    <3>3. n - 1 \in DOMAIN Tail(q) /\ Tail(q)[n - 1] = q[n] /\ k < n - 1 BY <1>2, <1>6, <3>1, <3>2
    <3>4. QED BY <3>1, <3>3
  <2>5. QED BY <2>3, <2>4
<1>10. InOrder(Tail(q)) BY <1>2, <1>8, <1>9 DEF InOrder
<1>11. QED BY <1>2, <1>5, <1>6, <1>7, <1>10

\* The commands of a wipe, spelled out.
LEMMA WipeFacts ==
    /\ mod = "quiz" =>
         /\ DOMAIN WipeOrder = 1..7
         /\ WipeOrder[1] = "users" /\ WipeOrder[2] = "rows" /\ WipeOrder[3] = "attempts"
         /\ WipeOrder[4] = "points" /\ WipeOrder[5] = "solved"
         /\ WipeOrder[6] = "lastAt" /\ WipeOrder[7] = "freeze"
    /\ mod # "quiz" =>
         /\ DOMAIN WipeOrder = 1..8
         /\ WipeOrder[1] = "users" /\ WipeOrder[2] = "rows" /\ WipeOrder[3] = "attempts"
         /\ WipeOrder[4] = "points" /\ WipeOrder[5] = "solved" /\ WipeOrder[6] = "solvecount"
         /\ WipeOrder[7] = "lastAt" /\ WipeOrder[8] = "freeze"
<1> DEFINE Names == {"users", "rows", "attempts", "points", "solved", "solvecount", "lastAt", "freeze"}
           start == <<"users", "rows", "attempts", "points", "solved">>
           end == <<"lastAt", "freeze">>
           counted == IF mod = "quiz" THEN <<>> ELSE <<"solvecount">>
<1>1. WipeOrder = (start \o counted) \o end BY DEF WipeOrder
<1>2. start \in Seq(Names) /\ end \in Seq(Names) /\ counted \in Seq(Names)
  <2>1. start \in Seq(Names) /\ end \in Seq(Names) OBVIOUS
  <2>2. <<>> \in Seq(Names) /\ <<"solvecount">> \in Seq(Names) OBVIOUS
  <2>3. QED BY <2>1, <2>2
<1>3. Len(start) = 5 /\ Len(end) = 2 /\ Len(counted) = IF mod = "quiz" THEN 0 ELSE 1 OBVIOUS
<1>4. /\ start[1] = "users" /\ start[2] = "rows" /\ start[3] = "attempts"
      /\ start[4] = "points" /\ start[5] = "solved"
      /\ end[1] = "lastAt" /\ end[2] = "freeze"
      /\ mod # "quiz" => counted[1] = "solvecount"
  OBVIOUS
<1> HIDE DEF start, end, counted
<1> DEFINE front == start \o counted
<1>5. front \in Seq(Names) /\ Len(front) = Len(start) + Len(counted) BY <1>2
<1>6. \A k \in 1..Len(front) : front[k] = IF k <= Len(start) THEN start[k] ELSE counted[k - Len(start)]
  BY <1>2
<1> HIDE DEF front
<1>7. WipeOrder \in Seq(Names) /\ Len(WipeOrder) = Len(front) + Len(end)
      /\ DOMAIN WipeOrder = 1..Len(WipeOrder)
  BY <1>1, <1>2, <1>5 DEF front
<1>8. \A k \in 1..Len(WipeOrder) :
         WipeOrder[k] = IF k <= Len(front) THEN front[k] ELSE end[k - Len(front)]
  BY <1>1, <1>2, <1>5 DEF front
<1>9. CASE mod = "quiz"
  <2>1. Len(WipeOrder) = 7 /\ Len(front) = 5 BY <1>3, <1>5, <1>7, <1>9
  <2>2. QED BY <1>3, <1>4, <1>6, <1>7, <1>8, <1>9, <2>1
<1>10. CASE mod # "quiz"
  <2>1. Len(WipeOrder) = 8 /\ Len(front) = 6 BY <1>3, <1>5, <1>7, <1>10
  <2>2. QED BY <1>3, <1>4, <1>6, <1>7, <1>8, <1>10, <2>1
<1>11. QED BY <1>9, <1>10

\* The resets as they start: nothing has run, and every total is to come.
LEMMA WipeStarts ==
    /\ InOrder([k \in DOMAIN WipeOrder |-> [do |-> WipeOrder[k], of |-> Logins]])
    /\ \A what \in Summed \union {"rows"} : \E k \in DOMAIN WipeOrder : WipeOrder[k] = what
<1> DEFINE q == [k \in DOMAIN WipeOrder |-> [do |-> WipeOrder[k], of |-> Logins]]
<1>1. \A what \in {"users", "rows", "attempts", "points", "solved", "solvecount", "lastAt", "freeze"} :
         [do |-> what, of |-> Logins] \in Resets
  BY DEF Resets
<1>2. CASE mod = "quiz"
  <2>1. DOMAIN q = 1..7 /\ \A k \in 1..7 : q[k] \in Resets BY <1>1, <1>2, WipeFacts
  <2>2. q = [k \in 1..7 |-> q[k]] BY <1>2, WipeFacts
  <2>3. \A k \in 1..7 : q[k].do = WipeOrder[k] /\ q[k].of = Logins BY <1>2, WipeFacts
  <2> HIDE DEF q
  <2>4. q \in Seq(Resets) BY <2>1, <2>2
  <2>5. Summed = {"points", "solved", "lastAt"} BY <1>2 DEF Summed
  <2>6. InOrder(q) BY <1>2, <2>1, <2>3, <2>4, <2>5, WipeFacts DEF InOrder
  <2>7. QED BY <1>2, <2>5, <2>6, WipeFacts DEF q
<1>3. CASE mod # "quiz"
  <2>1. DOMAIN q = 1..8 /\ \A k \in 1..8 : q[k] \in Resets BY <1>1, <1>3, WipeFacts
  <2>2. q = [k \in 1..8 |-> q[k]] BY <1>3, WipeFacts
  <2>3. \A k \in 1..8 : q[k].do = WipeOrder[k] /\ q[k].of = Logins BY <1>3, WipeFacts
  <2> HIDE DEF q
  <2>4. q \in Seq(Resets) BY <2>1, <2>2
  <2>5. Summed = {"points", "solved", "lastAt", "solvecount"} BY <1>3 DEF Summed
  <2>6. InOrder(q) BY <1>3, <2>1, <2>3, <2>4, <2>5, WipeFacts DEF InOrder
  <2>7. QED BY <1>3, <2>5, <2>6, WipeFacts DEF q
<1>4. QED BY <1>2, <1>3

LEMMA ClearStarts ==
    ASSUME NEW l \in Logins, mod = "quiz"
    PROVE  /\ InOrder([k \in DOMAIN QuizClear |-> [do |-> QuizClear[k], of |-> {l}]])
           /\ \A what \in Summed \union {"rows"} : \E k \in DOMAIN QuizClear : QuizClear[k] = what
<1> DEFINE q == [k \in DOMAIN QuizClear |-> [do |-> QuizClear[k], of |-> {l}]]
<1>1. QuizClear = <<"rows", "attempts", "points", "solved", "lastAt">> BY DEF QuizClear
<1>2. DOMAIN QuizClear = 1..5 /\ Len(QuizClear) = 5 BY <1>1
<1>3. q = <<[do |-> "rows", of |-> {l}], [do |-> "attempts", of |-> {l}], [do |-> "points", of |-> {l}],
            [do |-> "solved", of |-> {l}], [do |-> "lastAt", of |-> {l}]>>
  BY <1>1
<1> HIDE DEF q
<1>4. q \in Seq(Resets)
  <2>1. \A what \in {"rows", "attempts", "points", "solved", "lastAt"} : [do |-> what, of |-> {l}] \in Resets
    BY DEF Resets
  <2>2. QED BY <1>3, <2>1
<1>5. Summed = {"points", "solved", "lastAt"} BY DEF Summed
<1>6. QED BY <1>1, <1>3, <1>4, <1>5, SMTT(60) DEF InOrder, q
-----------------------------------------------------------------------------
(***************************************************************************)
(* The inductive invariants.                                                *)
(***************************************************************************)
\* A command that a reset has still to run, for whom.
Left(q, what)   == \E k \in DOMAIN q : q[k].do = what
Due(q, what, l) == \E k \in DOMAIN q : q[k].do = what /\ l \in q[k].of
DueTo(what, l)  == Due(wiping, what, l) \/ Due(clearing, what, l)

\* A total is backed by rows, or a reset under way is yet to delete it.
Backed ==
    /\ \A l \in Logins : points[l] <= Earned(l) \/ DueTo("points", l)
    /\ \A l \in Logins : solved[l] <= Cardinality(Banked(l)) \/ DueTo("solved", l)
    /\ \A i \in Items : solvecount[i] <= Cardinality(Solvers(i)) \/ Left(wiping, "solvecount")

LastOf(l) ==
    IF Banked(l) = {} THEN lastAt[l] = NoRow
    ELSE /\ \E i \in Banked(l) : lastAt[l] = solves[l][i].at
         /\ \A i \in Banked(l) : solves[l][i].at <= lastAt[l]

\* While no award fell amid a reset, it is exact, or yet to be deleted.
Exact ==
    ~torn =>
       /\ \A l \in Logins : points[l] = Earned(l) \/ DueTo("points", l)
       /\ \A l \in Logins : solved[l] = Cardinality(Banked(l)) \/ DueTo("solved", l)
       /\ \A l \in Logins : LastOf(l) \/ DueTo("lastAt", l)
       /\ mod # "quiz" =>
             \A i \in Items : solvecount[i] = Cardinality(Solvers(i)) \/ Left(wiping, "solvecount")

\* And a reset past the rows has left none behind.
EmptiedBy(q) == q # <<>> /\ ~Left(q, "rows") => \A l \in q[1].of : Banked(l) = {}
Emptied == ~torn => EmptiedBy(wiping) /\ EmptiedBy(clearing)

NoQuizCount == mod = "quiz" => \A i \in Items : solvecount[i] = 0

TotalsInv == Backed /\ Exact /\ Emptied /\ NoQuizCount

\* The story a request carries to its script is that of the roster and the
\* catalogue as they stand, while neither has changed.
StoryRead ==
    mod = "classic" /\ ~shifted =>
       \A s \in Slots : req[s] # Nothing =>
          (req[s].phase = "script" =>
             /\ req[s].prereq = StepBefore(req[s].item)
             /\ req[s].prereq # NoRow => /\ req[s].crew = team[req[s].login].slug
                                         /\ req[s].mates = Mates(req[s].login))
-----------------------------------------------------------------------------
(***************************************************************************)
(* Types, and the shapes of the queues.                                     *)
(***************************************************************************)
LEMMA AnswerFacts ==
    ASSUME NEW rec \in Records \union {NoRecord}, NEW form \in Forms
    PROVE  AnswerOf(rec, form) \in Forms \union {NoAnswer}
BY DEF AnswerOf

LEMMA GraderInitTypes == GraderInit => TypesInv
<1> SUFFICES ASSUME GraderInit PROVE TypesInv OBVIOUS
<1>1. record \in [Items -> Records \union {NoRecord}] BY GraderAssumption DEF GraderInit
<1>2. answer \in [Items -> Forms \union {NoAnswer}]
  <2>1. \A i \in Items : AnswerOf(record[i], Key) \in Forms \union {NoAnswer}
    BY <1>1, GraderAssumption, AnswerFacts
  <2>2. QED BY <2>1 DEF GraderInit
<1>3. setting \in [open : BOOLEAN, cooldown : Nat, cap : Nat] BY LimitFacts DEF GraderInit
<1>4. team \in [Logins -> [slug : Teams, since : Nat]] BY GraderAssumption DEF GraderInit
<1>5. clock \in 0..MaxTime BY GraderAssumption DEF GraderInit
<1>6. GraderTypeOK
  <2>1. torn \in BOOLEAN /\ shifted \in BOOLEAN BY DEF GraderInit
  <2>2. /\ solves \in [Logins -> [Items -> Rows \union {NoRow}]]
        /\ attempts \in [Logins -> [Items -> Spent \union {NoRow}]]
        /\ points \in [Logins -> Nat] /\ solved \in [Logins -> Nat] /\ solvecount \in [Items -> Int]
        /\ lastAt \in [Logins -> Nat \union {NoRow}]
    BY DEF GraderInit
  <2>3. mod \in Modules /\ req \in [Slots -> Requests \union {Nothing}] BY DEF GraderInit
  <2>4. QED BY <1>1, <1>2, <1>3, <1>4, <1>5, <2>1, <2>2, <2>3 DEF GraderTypeOK
<1>7. "subs" \in DOMAIN left /\ left["subs"] \subseteq Submissions BY GraderAssumption DEF GraderInit
<1>8. authoring \in Seq(Edits) /\ wiping = <<>> /\ clearing = <<>> BY DEF GraderInit
<1>9. InOrder(wiping) /\ InOrder(clearing) /\ \A k \in DOMAIN wiping : wiping[k].of = Logins
  BY <1>8 DEF InOrder
<1>10. \E s \in Limits : setting.cap = s.cap /\ setting.cooldown = s.cooldown BY LimitFacts DEF GraderInit
<1>11. \A s \in Slots : req[s] = Nothing BY DEF GraderInit
<1>12. \A l \in Logins, i \in Items : attempts[l][i] = NoRow BY DEF GraderInit
<1>13. Shapes BY <1>7, <1>8, <1>9, <1>10, <1>11, <1>12 DEF Shapes
<1>14. QED BY <1>6, <1>13 DEF TypesInv

\* An allowance spent leaves the submissions as they were.
LEMMA SpendsFacts ==
    ASSUME Shapes, NEW kind, kind # "subs", Spends(kind)
    PROVE  "subs" \in DOMAIN left' /\ left'["subs"] \subseteq Submissions
BY DEF Shapes, Spends

\* A step of one request.
LEMMA RequestTypes ==
    ASSUME TypesInv, NEW s \in Slots,
           req' \in [Slots -> Requests \union {Nothing}],
           \A t \in Slots : t # s => req'[t] = req[t],
           req'[s] # Nothing => Limited(req'[s]),
           UNCHANGED <<event, board, store, team, jobs, torn, shifted>>,
           "subs" \in DOMAIN left' /\ left'["subs"] \subseteq Submissions
    PROVE  TypesInv'
<1>1. GraderTypeOK' BY DEF TypesInv, GraderTypeOK, event, board, store, rows, sums, jobs
<1>2. Shapes'
  <2>1. mod' = mod /\ wiping' = wiping /\ clearing' = clearing /\ authoring' = authoring
        /\ setting' = setting /\ attempts' = attempts
    BY DEF event, store, rows, jobs
  <2>2. (\A t \in Slots : req[t] # Nothing => Limited(req[t]))' BY <2>1 DEF TypesInv, Shapes, Limited
  <2>3. InOrder(wiping)' /\ InOrder(clearing)' BY <2>1 DEF TypesInv, Shapes, InOrder, Summed
  <2>4. QED BY <2>1, <2>2, <2>3 DEF TypesInv, Shapes
<1>3. QED BY <1>1, <1>2 DEF TypesInv

LEMMA ArriveTypes ==
    ASSUME TypesInv, NEW s \in Slots, NEW sub \in left.subs, Arrive(s, sub)
    PROVE  TypesInv'
<1>1. PICK read \in {setting, BakedSettings} :
         /\ sub.dry \/ read.open
         /\ req' = [req EXCEPT ![s] =
                [phase |-> "gate", login |-> sub.login, item |-> sub.item, form |-> sub.form,
                 dry |-> sub.dry, event |-> sub.event,
                 cooldown |-> IF sub.event THEN 0 ELSE read.cooldown,
                 cap |-> IF mod = "quiz" THEN read.cap ELSE 0,
                 now |-> 0, cooling |-> FALSE, done |-> FALSE,
                 prereq |-> NoRow, crew |-> NoTeam, mates |-> {}]]
  BY DEF Arrive
<1>2. sub \in Submissions BY DEF TypesInv, Shapes
<1>3. read.cooldown \in Nat /\ read.cap \in Nat
      /\ \E x \in Limits : read.cap = x.cap /\ read.cooldown = x.cooldown
  BY LimitFacts DEF TypesInv, GraderTypeOK, Shapes
<1>4. req'[s] \in Requests /\ Limited(req'[s])
  BY <1>1, <1>2, <1>3, GraderAssumption DEF TypesInv, GraderTypeOK, Requests, Submissions, Limited, Arrive
<1>5. req' \in [Slots -> Requests \union {Nothing}] /\ \A t \in Slots : t # s => req'[t] = req[t]
  BY <1>1, <1>4 DEF TypesInv, GraderTypeOK
<1>6. UNCHANGED <<event, board, store, team, jobs, torn, shifted>> /\ Spends("requests") BY DEF Arrive
<1>7. "subs" \in DOMAIN left' /\ left'["subs"] \subseteq Submissions
  BY <1>6, SpendsFacts DEF TypesInv
<1>8. QED BY <1>4, <1>5, <1>6, <1>7, RequestTypes

\* A request that ends, and one that goes on to its script.
LEMMA RefuseTypes ==
    ASSUME TypesInv, NEW s \in Slots, Refuse(s)
    PROVE  /\ req' \in [Slots -> Requests \union {Nothing}]
           /\ \A t \in Slots : t # s => req'[t] = req[t]
           /\ req'[s] = Nothing
BY DEF TypesInv, GraderTypeOK, Refuse

\* What a gate and the story write into a request leaves it one.
LEMMA StoryRequests ==
    ASSUME NEW r \in Requests, NEW d \in BOOLEAN, NEW c \in BOOLEAN
    PROVE  LET n == [r EXCEPT !.phase = "story", !.done = d, !.cooling = c]
           IN  n \in Requests /\ (Limited(r) => Limited(n))
<1> DEFINE n == [r EXCEPT !.phase = "story", !.done = d, !.cooling = c]
<1>1. n \in Requests BY ZenonT(30) DEF Requests
<1>2. n.cap = r.cap /\ n.cooldown = r.cooldown /\ n.event = r.event BY DEF Requests
<1> HIDE DEF n
<1>3. Limited(r) => Limited(n) BY <1>2 DEF Limited
<1>4. QED BY <1>1, <1>3 DEF n

LEMMA TimedRequests ==
    ASSUME NEW r \in Requests, NEW t \in Nat
    PROVE  LET n == [r EXCEPT !.phase = "script", !.now = t]
           IN  n \in Requests /\ (Limited(r) => Limited(n))
<1> DEFINE n == [r EXCEPT !.phase = "script", !.now = t]
<1>1. n \in Requests BY ZenonT(30) DEF Requests
<1>2. n.cap = r.cap /\ n.cooldown = r.cooldown /\ n.event = r.event BY DEF Requests
<1> HIDE DEF n
<1>3. Limited(r) => Limited(n) BY <1>2 DEF Limited
<1>4. QED BY <1>1, <1>3 DEF n

LEMMA ScriptRequests ==
    ASSUME NEW r \in Requests, NEW t \in Nat, NEW p \in Items \union {NoRow}, NEW c \in Teams,
           NEW m \in SUBSET Logins
    PROVE  [r EXCEPT !.phase = "script", !.now = t, !.prereq = p, !.crew = c, !.mates = m] \in Requests
BY ZenonT(30) DEF Requests

LEMMA GateTypes ==
    ASSUME TypesInv, NEW s \in Slots, Gate(s)
    PROVE  TypesInv'
<1>1. req[s] \in Requests /\ Limited(req[s]) /\ clock \in Nat
  BY GraderAssumption DEF TypesInv, GraderTypeOK, Shapes, Gate
<1>2. CASE Refuse(s)
  <2>1. "subs" \in DOMAIN left' /\ left'["subs"] \subseteq Submissions BY DEF TypesInv, Shapes, Gate
  <2>2. QED BY <1>2, <2>1, RefuseTypes, RequestTypes DEF Gate
<1>3. CASE ~Refuse(s)
  <2>1. /\ req' = [req EXCEPT ![s] = req'[s]]
        /\ \/ \E d, c \in BOOLEAN : req'[s] = [req[s] EXCEPT !.phase = "story", !.done = d, !.cooling = c]
           \/ req'[s] = [req[s] EXCEPT !.phase = "script", !.now = clock]
    <3>1. CASE ClassicGate(s)
      <4>1. Solved(req[s]) \in BOOLEAN
            /\ (~req[s].dry /\ ~Solved(req[s]) /\ Cooling(req[s], clock)) \in BOOLEAN
        BY DEF Solved
      <4>2. QED BY <3>1, <4>1 DEF ClassicGate, TypesInv, GraderTypeOK
    <3>2. CASE QuizGate(s)
      <4>1. Enter(s, "script", clock) BY <1>3, <3>2 DEF QuizGate
      <4>2. QED BY <4>1 DEF Enter, TypesInv, GraderTypeOK
    <3>3. CASE AiGate(s)
      <4>1. Enter(s, "script", clock) BY <1>3, <3>3 DEF AiGate
      <4>2. QED BY <4>1 DEF Enter, TypesInv, GraderTypeOK
    <3>4. QED BY <3>1, <3>2, <3>3 DEF Gate
  <2> DEFINE r == req[s]
  <2>r. r \in Requests /\ Limited(r) BY <1>1
  <2>2. req'[s] \in Requests /\ Limited(req'[s])
    <3>1. ASSUME NEW d \in BOOLEAN, NEW c \in BOOLEAN,
                 req'[s] = [r EXCEPT !.phase = "story", !.done = d, !.cooling = c]
          PROVE  req'[s] \in Requests /\ Limited(req'[s])
      <4> HIDE DEF r
      <4>1. /\ [r EXCEPT !.phase = "story", !.done = d, !.cooling = c] \in Requests
            /\ Limited(r) => Limited([r EXCEPT !.phase = "story", !.done = d, !.cooling = c])
        BY <2>r, StoryRequests
      <4>2. QED BY <2>r, <3>1, <4>1
    <3>2. ASSUME req'[s] = [r EXCEPT !.phase = "script", !.now = clock]
          PROVE  req'[s] \in Requests /\ Limited(req'[s])
      <4> HIDE DEF r
      <4>1. QED BY <1>1, <2>r, <3>2, TimedRequests, Zenon
    <3>3. QED BY <2>1, <3>1, <3>2
  <2>3. Limited(req'[s]) BY <2>2
  <2>4. req' \in [Slots -> Requests \union {Nothing}] /\ \A t \in Slots : t # s => req'[t] = req[t]
    BY <2>1, <2>2 DEF TypesInv, GraderTypeOK
  <2>5. "subs" \in DOMAIN left' /\ left'["subs"] \subseteq Submissions BY DEF TypesInv, Shapes, Gate
  <2>6. QED BY <2>3, <2>4, <2>5, RequestTypes DEF Gate
<1>4. QED BY <1>2, <1>3

LEMMA StoryTypes ==
    ASSUME TypesInv, NEW s \in Slots, Story(s)
    PROVE  TypesInv'
<1>1. req[s] \in Requests /\ Limited(req[s]) /\ clock \in Nat
  BY GraderAssumption DEF TypesInv, GraderTypeOK, Shapes, Story
<1>2. "subs" \in DOMAIN left' /\ left'["subs"] \subseteq Submissions BY DEF TypesInv, Shapes, Story
<1>3. CASE Refuse(s) BY <1>2, <1>3, RefuseTypes, RequestTypes DEF Story
<1>4. CASE ~Refuse(s)
  <2> DEFINE prereq == StepBefore(req[s].item)
             crew == IF prereq = NoRow THEN NoTeam ELSE team[req[s].login].slug
             mates == IF prereq = NoRow THEN {} ELSE Mates(req[s].login)
  <2>1. req' = [req EXCEPT ![s] = [@ EXCEPT !.phase = "script", !.now = clock, !.prereq = prereq,
                                           !.crew = crew, !.mates = mates]]
    BY <1>4 DEF Story
  <2>2. req[s].login \in Logins /\ req[s].item \in Items BY <1>1 DEF Requests
  <2>3. prereq \in Items \union {NoRow} BY <2>2, StepFacts
  <2>4. crew \in Teams /\ mates \subseteq Logins
    BY <2>2, GraderAssumption DEF TypesInv, GraderTypeOK, Mates
  <2> HIDE DEF prereq, crew, mates
  <2>5. req'[s] = [req[s] EXCEPT !.phase = "script", !.now = clock, !.prereq = prereq,
                                 !.crew = crew, !.mates = mates]
        /\ \A t \in Slots : t # s => req'[t] = req[t]
    BY <2>1 DEF TypesInv, GraderTypeOK
  <2> DEFINE r == req[s]
  <2>r. r \in Requests BY <1>1
  <2>6. req'[s] \in Requests
    <3>1. [r EXCEPT !.phase = "script", !.now = clock, !.prereq = prereq, !.crew = crew,
                    !.mates = mates] \in Requests
      <4> HIDE DEF r
      <4>1. mates \in SUBSET Logins BY <2>4
      <4>2. QED BY <1>1, <2>r, <2>3, <2>4, <4>1, ScriptRequests
    <3>2. QED BY <2>5, <3>1
  <2>7. Limited(req'[s]) BY <1>1, <2>5 DEF Limited, Requests
  <2>8. req' \in [Slots -> Requests \union {Nothing}] BY <2>1, <2>5, <2>6 DEF TypesInv, GraderTypeOK
  <2>9. QED BY <1>2, <2>5, <2>7, <2>8, RequestTypes DEF Story
<1>5. QED BY <1>3, <1>4

\* The verdict of the module's script.
Verdict(r) == IF mod = "classic" THEN SubmitVerdict(r)
              ELSE IF mod = "quiz" THEN GradeVerdict(r) ELSE AwardVerdict(r)

\* What a script does by its verdict, and what it has looked at before.
LEMMA ScriptFacts ==
    ASSUME TypesInv, NEW s \in Slots, RunScript(s)
    PROVE  /\ req[s] \in Requests /\ Limited(req[s]) /\ req[s].phase = "script"
           /\ SpendAttempt(req[s], Verdict(req[s]))
           /\ ~Banks(req[s], Verdict(req[s])) => UNCHANGED <<solves, sums, torn>>
           /\ Banks(req[s], Verdict(req[s])) =>
                 /\ BankSolve(req[s]) /\ ~Solved(req[s])
                 /\ IF mod = "quiz" THEN UNCHANGED solvecount ELSE CountSolver(req[s])
                 /\ mod = "classic" => ~Locked(req[s])
           /\ Verdict(req[s]) \in {"correct", "incorrect"} /\ ~req[s].dry /\ ~req[s].event =>
                 ~Cooling(req[s], req[s].now) /\ (mod = "quiz" => ~Exhausted(req[s]))
<1> DEFINE r == req[s]
<1>1. r \in Requests /\ Limited(r) /\ r.phase = "script"
  BY DEF RunScript, TypesInv, GraderTypeOK, Shapes
<1>2. CASE mod = "classic"
  <2>1. Verdict(r) = SubmitVerdict(r) BY <1>2 DEF Verdict
  <2>2. Settle(r, SubmitVerdict(r), TRUE) BY <1>2 DEF RunScript, RunSubmit, RunGrade, RunAward
  <2>3. SubmitVerdict(r) = "correct" => ~Solved(r) /\ (r.dry \/ ~Locked(r)) BY DEF SubmitVerdict
  <2>4. SubmitVerdict(r) \in {"correct", "incorrect"} => r.dry \/ ~Cooling(r, r.now) BY DEF SubmitVerdict
  <2>5. QED BY <1>1, <1>2, <2>1, <2>2, <2>3, <2>4 DEF Settle, Banks
<1>3. CASE mod = "quiz"
  <2>1. Verdict(r) = GradeVerdict(r) BY <1>3 DEF Verdict
  <2>2. Settle(r, GradeVerdict(r), FALSE) BY <1>3 DEF RunScript, RunSubmit, RunGrade, RunAward
  <2>3. GradeVerdict(r) = "correct" => ~Solved(r) BY DEF GradeVerdict
  <2>4. GradeVerdict(r) \in {"correct", "incorrect"} => r.dry \/ (~Cooling(r, r.now) /\ ~Exhausted(r))
    BY DEF GradeVerdict
  <2>5. QED BY <1>1, <1>3, <2>1, <2>2, <2>3, <2>4 DEF Settle, Banks
<1>4. CASE mod = "ai"
  <2>1. Verdict(r) = AwardVerdict(r) BY <1>4 DEF Verdict
  <2>2. Settle(r, AwardVerdict(r), TRUE) BY <1>4 DEF RunScript, RunSubmit, RunGrade, RunAward
  <2>3. AwardVerdict(r) = "correct" => ~Solved(r) BY DEF AwardVerdict
  <2>4. AwardVerdict(r) \in {"correct", "incorrect"} => r.dry \/ r.event \/ ~Cooling(r, r.now)
    BY DEF AwardVerdict
  <2>5. QED BY <1>1, <1>4, <2>1, <2>2, <2>3, <2>4 DEF Settle, Banks
<1>5. QED BY <1>2, <1>3, <1>4 DEF RunScript, RunSubmit, RunGrade, RunAward

LEMMA WorthFacts == ASSUME GraderTypeOK, NEW i \in Items PROVE Worth(i) \in Nat
BY GraderAssumption DEF GraderTypeOK, Worth

\* A solve banked, key by key.
LEMMA BankFacts ==
    ASSUME TypesInv, NEW r \in Requests, BankSolve(r)
    PROVE  LET l == r.login
               i == r.item
           IN /\ l \in Logins /\ i \in Items /\ r.now \in Nat /\ Worth(i) \in Nat
              /\ solves' \in [Logins -> [Items -> Rows \union {NoRow}]]
              /\ solves'[l][i] = [points |-> Worth(i), at |-> r.now]
              /\ \A m \in Logins, j \in Items : m # l \/ j # i => solves'[m][j] = solves[m][j]
              /\ \A m \in Logins : m # l => solves'[m] = solves[m]
              /\ points' \in [Logins -> Nat] /\ points'[l] = points[l] + Worth(i)
              /\ \A m \in Logins : m # l => points'[m] = points[m]
              /\ solved' \in [Logins -> Nat] /\ solved'[l] = solved[l] + 1
              /\ \A m \in Logins : m # l => solved'[m] = solved[m]
              /\ lastAt' \in [Logins -> Nat \union {NoRow}]
              /\ lastAt'[l] = IF lastAt[l] = NoRow \/ lastAt[l] < r.now THEN r.now ELSE lastAt[l]
              /\ \A m \in Logins : m # l => lastAt'[m] = lastAt[m]
<1> DEFINE l == r.login
           i == r.item
           row == [points |-> Worth(i), at |-> r.now]
<1>1. l \in Logins /\ i \in Items /\ r.now \in Nat BY DEF Requests
<1>2. Worth(i) \in Nat BY <1>1, WorthFacts DEF TypesInv
<1>3. row \in Rows BY <1>1, <1>2 DEF Rows
<1>4. solves \in [Logins -> [Items -> Rows \union {NoRow}]] /\ points \in [Logins -> Nat]
      /\ solved \in [Logins -> Nat] /\ lastAt \in [Logins -> Nat \union {NoRow}]
  BY DEF TypesInv, GraderTypeOK
<1>5. /\ solves' = [solves EXCEPT ![l][i] = row]
      /\ points' = [points EXCEPT ![l] = @ + Worth(i)]
      /\ solved' = [solved EXCEPT ![l] = @ + 1]
      /\ lastAt' = [lastAt EXCEPT ![l] = IF @ = NoRow \/ @ < r.now THEN r.now ELSE @]
  BY DEF BankSolve
<1> HIDE DEF row, l, i
<1>6. solves' = [solves EXCEPT ![l] = [solves[l] EXCEPT ![i] = row]] BY <1>1, <1>4, <1>5
<1>7. [solves[l] EXCEPT ![i] = row] \in [Items -> Rows \union {NoRow}] BY <1>1, <1>3, <1>4
<1>8. /\ solves' \in [Logins -> [Items -> Rows \union {NoRow}]]
      /\ solves'[l][i] = row
      /\ \A m \in Logins, j \in Items : m # l \/ j # i => solves'[m][j] = solves[m][j]
      /\ \A m \in Logins : m # l => solves'[m] = solves[m]
  BY <1>1, <1>4, <1>6, <1>7
<1>9. /\ points' \in [Logins -> Nat] /\ points'[l] = points[l] + Worth(i)
      /\ \A m \in Logins : m # l => points'[m] = points[m]
  BY <1>1, <1>2, <1>4, <1>5
<1>10. /\ solved' \in [Logins -> Nat] /\ solved'[l] = solved[l] + 1
       /\ \A m \in Logins : m # l => solved'[m] = solved[m]
  BY <1>1, <1>4, <1>5
<1>11. /\ lastAt' \in [Logins -> Nat \union {NoRow}]
       /\ lastAt'[l] = IF lastAt[l] = NoRow \/ lastAt[l] < r.now THEN r.now ELSE lastAt[l]
       /\ \A m \in Logins : m # l => lastAt'[m] = lastAt[m]
  BY <1>1, <1>4, <1>5
<1>12. QED BY <1>1, <1>2, <1>8, <1>9, <1>10, <1>11 DEF row, l, i

\* An attempt spent: one more than there were, at the time of its request.
LEMMA SpendFacts ==
    ASSUME TypesInv, NEW r \in Requests, NEW v, SpendAttempt(r, v)
    PROVE  LET l == r.login
               i == r.item
           IN /\ attempts' \in [Logins -> [Items -> Spent \union {NoRow}]]
              /\ \A m \in Logins, j \in Items : m # l \/ j # i => attempts'[m][j] = attempts[m][j]
              /\ attempts'[l][i] # attempts[l][i] =>
                    /\ v \in {"correct", "incorrect"} /\ ~r.dry /\ ~r.event
                    /\ attempts'[l][i] = [n |-> Tries(r) + 1, lastAt |-> r.now]
              /\ Tries(r) \in Nat
<1> DEFINE l == r.login
           i == r.item
           row == [n |-> Tries(r) + 1, lastAt |-> r.now]
<1>1. l \in Logins /\ i \in Items /\ r.now \in Nat BY DEF Requests
<1>2. attempts \in [Logins -> [Items -> Spent \union {NoRow}]] BY DEF TypesInv, GraderTypeOK
<1>3. Tries(r) \in Nat BY <1>1, <1>2 DEF Tries, Spent
<1>4. row \in Spent BY <1>1, <1>3 DEF Spent
<1>5. CASE attempts' = attempts BY <1>2, <1>3, <1>5
<1>6. CASE v \in {"correct", "incorrect"} /\ ~r.dry /\ ~r.event
           /\ attempts' = [attempts EXCEPT ![l][i] = row]
  <2> HIDE DEF row, l, i
  <2>1. attempts' = [attempts EXCEPT ![l] = [attempts[l] EXCEPT ![i] = row]] BY <1>1, <1>2, <1>6
  <2>2. [attempts[l] EXCEPT ![i] = row] \in [Items -> Spent \union {NoRow}] BY <1>1, <1>2, <1>4
  <2>3. /\ attempts' \in [Logins -> [Items -> Spent \union {NoRow}]]
        /\ attempts'[l][i] = row
        /\ \A m \in Logins, j \in Items : m # l \/ j # i => attempts'[m][j] = attempts[m][j]
    BY <1>1, <1>2, <2>1, <2>2
  <2>4. QED BY <1>3, <1>6, <2>3 DEF row, l, i
<1>7. QED BY <1>5, <1>6 DEF SpendAttempt

LEMMA ScriptTypes ==
    ASSUME TypesInv, NEW s \in Slots, RunScript(s)
    PROVE  TypesInv'
<1> DEFINE r == req[s]
<1>1. /\ r \in Requests
      /\ SpendAttempt(r, Verdict(r))
      /\ ~Banks(r, Verdict(r)) => UNCHANGED <<solves, sums, torn>>
      /\ Banks(r, Verdict(r)) =>
            BankSolve(r) /\ (IF mod = "quiz" THEN UNCHANGED solvecount ELSE CountSolver(r))
  BY ScriptFacts
<1>2. Refuse(s) /\ UNCHANGED <<event, board, team, jobs, left, shifted>> BY DEF RunScript
<1>3. r.login \in Logins /\ r.item \in Items BY <1>1 DEF Requests
<1>4. /\ req' \in [Slots -> Requests \union {Nothing}]
      /\ \A t \in Slots : t # s => req'[t] = req[t]
      /\ req'[s] = Nothing
  BY <1>2, RefuseTypes
<1> HIDE DEF r
<1>5. attempts' \in [Logins -> [Items -> Spent \union {NoRow}]] BY <1>1, SpendFacts
<1>6. \A l \in Logins, i \in Items : attempts'[l][i] # NoRow => attempts'[l][i].n > 0
  <2> SUFFICES ASSUME NEW l \in Logins, NEW i \in Items, attempts'[l][i] # NoRow
               PROVE  attempts'[l][i].n > 0
    OBVIOUS
  <2>1. CASE attempts'[l][i] = attempts[l][i] BY <2>1 DEF TypesInv, Shapes
  <2>2. CASE attempts'[l][i] # attempts[l][i]
    <3>1. l = r.login /\ i = r.item BY <1>1, <2>2, SpendFacts
    <3>2. attempts'[l][i] = [n |-> Tries(r) + 1, lastAt |-> r.now] /\ Tries(r) \in Nat
      BY <1>1, <2>2, <3>1, SpendFacts
    <3>3. QED BY <3>2
  <2>3. QED BY <2>1, <2>2
<1>7. /\ solves' \in [Logins -> [Items -> Rows \union {NoRow}]]
      /\ points' \in [Logins -> Nat] /\ solved' \in [Logins -> Nat]
      /\ lastAt' \in [Logins -> Nat \union {NoRow}]
  <2>1. CASE Banks(r, Verdict(r)) BY <1>1, <2>1, BankFacts
  <2>2. CASE ~Banks(r, Verdict(r)) BY <1>1, <2>2 DEF TypesInv, GraderTypeOK, sums
  <2>3. QED BY <2>1, <2>2
<1>8. solvecount' \in [Items -> Int]
  <2>1. solvecount' = solvecount \/ solvecount' = [solvecount EXCEPT ![r.item] = @ + 1]
    BY <1>1 DEF sums, CountSolver
  <2>2. QED BY <1>3, <2>1 DEF TypesInv, GraderTypeOK
<1>9. torn' \in BOOLEAN
  <2>1. torn' = torn \/ torn' = (torn \/ Wiping \/ Clearing) BY <1>1 DEF BankSolve
  <2>2. QED BY <2>1 DEF TypesInv, GraderTypeOK
<1>10. GraderTypeOK'
  <2>1. /\ mod' = mod /\ clock' = clock /\ setting' = setting /\ record' = record /\ answer' = answer
        /\ team' = team /\ shifted' = shifted
    BY <1>2 DEF event, board
  <2>2. QED BY <1>4, <1>5, <1>7, <1>8, <1>9, <2>1 DEF TypesInv, GraderTypeOK
<1>11. Shapes'
  <2>1. mod' = mod /\ wiping' = wiping /\ clearing' = clearing /\ authoring' = authoring
        /\ setting' = setting /\ left' = left
    BY <1>2 DEF event, jobs
  <2>2. (\A t \in Slots : req[t] # Nothing => Limited(req[t]))'
    BY <1>4, <2>1 DEF TypesInv, Shapes, Limited
  <2>3. InOrder(wiping)' /\ InOrder(clearing)' BY <2>1 DEF TypesInv, Shapes, InOrder, Summed
  <2>4. QED BY <1>6, <2>1, <2>2, <2>3 DEF TypesInv, Shapes
<1>12. QED BY <1>10, <1>11 DEF TypesInv

\* A command of an edit.
LEMMA EditFacts ==
    ASSUME NEW i \in Items, NEW rec \in Records \union {NoRecord}, NEW ans \in Forms \union {NoAnswer}
    PROVE  <<[do |-> "record", item |-> i, to |-> rec], [do |-> "answer", item |-> i, to |-> ans]>> \in Seq(Edits)
<1>1. [do |-> "record", item |-> i, to |-> rec] \in Edits /\ [do |-> "answer", item |-> i, to |-> ans] \in Edits
  BY DEF Edits
<1>2. QED BY <1>1

\* A step that starts an edit or a reset, or changes nothing but what is allowed.
LEMMA StartTypes ==
    ASSUME TypesInv, NEW kind, kind # "subs", Spends(kind),
           UNCHANGED <<event, board, store, team, req, torn, shifted>>,
           authoring' \in Seq(Edits), InOrder(wiping)', InOrder(clearing)',
           \A k \in DOMAIN wiping' : wiping'[k].of = Logins,
           mod # "quiz" => clearing' = <<>>
    PROVE  TypesInv'
<1>1. GraderTypeOK' BY DEF TypesInv, GraderTypeOK, event, board, store, rows, sums
<1>2. mod' = mod /\ setting' = setting /\ attempts' = attempts /\ req' = req BY DEF event, store, rows
<1>3. "subs" \in DOMAIN left' /\ left'["subs"] \subseteq Submissions BY SpendsFacts DEF TypesInv
<1>4. Shapes' BY <1>2, <1>3 DEF TypesInv, Shapes, Limited
<1>5. QED BY <1>1, <1>4 DEF TypesInv

LEMMA SaveTypes ==
    ASSUME TypesInv, NEW new \in Settings, SaveSettings(new)
    PROVE  TypesInv'
<1>1. UNCHANGED <<mod, clock, board, store, team, req, jobs, torn, shifted>> /\ setting' = new
      /\ Spends("saves")
  BY DEF SaveSettings
<1>2. new \in Limits /\ new \in [open : BOOLEAN, cooldown : Nat, cap : Nat] BY LimitFacts
<1>3. GraderTypeOK' BY <1>1, <1>2 DEF TypesInv, GraderTypeOK, board, store, rows, sums
<1>4. "subs" \in DOMAIN left' /\ left'["subs"] \subseteq Submissions BY <1>1, SpendsFacts DEF TypesInv
<1>5. mod' = mod /\ wiping' = wiping /\ clearing' = clearing /\ authoring' = authoring
      /\ attempts' = attempts /\ req' = req
  BY <1>1 DEF store, rows, jobs
<1>6. InOrder(wiping)' /\ InOrder(clearing)'
  <2>1. InOrder(wiping) /\ InOrder(clearing) BY DEF TypesInv, Shapes
  <2>2. Summed' = Summed BY <1>5 DEF Summed
  <2>3. InOrder(wiping)' BY <1>5, <2>1, <2>2 DEF InOrder
  <2>4. InOrder(clearing)' BY <1>5, <2>1, <2>2 DEF InOrder
  <2>5. QED BY <2>3, <2>4
<1>7. Shapes' BY <1>1, <1>2, <1>4, <1>5, <1>6 DEF TypesInv, Shapes, Limited
<1>8. QED BY <1>3, <1>7 DEF TypesInv

\* What no edit or reset under way changes in the queues.
LEMMA QueuesKept ==
    ASSUME TypesInv, mod' = mod
    PROVE  /\ wiping' = wiping => InOrder(wiping)' /\ \A k \in DOMAIN wiping' : wiping'[k].of = Logins
           /\ clearing' = clearing => InOrder(clearing)' /\ (mod # "quiz" => clearing' = <<>>)
<1>1. Summed' = Summed BY DEF Summed
<1>2. InOrder(wiping) /\ InOrder(clearing) BY DEF TypesInv, Shapes
<1>3. wiping' = wiping => InOrder(wiping)' BY <1>1, <1>2 DEF InOrder
<1>4. clearing' = clearing => InOrder(clearing)' BY <1>1, <1>2 DEF InOrder
<1>5. QED BY <1>3, <1>4 DEF TypesInv, Shapes

LEMMA EditTypes ==
    ASSUME TypesInv, NEW i \in Items,
           Delete(i) \/ \E new \in Records, form \in Forms : Upsert(i, new, form)
    PROVE  TypesInv'
<1>1. UNCHANGED <<event, board, store, team, req, clearing, wiping, torn, shifted>> /\ Spends("edits")
      /\ mod' = mod
  BY DEF Delete, Upsert, event
<1>2. authoring' \in Seq(Edits)
  <2>1. CASE Delete(i) BY <2>1, EditFacts DEF Delete
  <2>2. ASSUME NEW new \in Records, NEW form \in Forms, Upsert(i, new, form) PROVE authoring' \in Seq(Edits)
    <3>1. AnswerOf(new, form) \in Forms \union {NoAnswer} BY AnswerFacts
    <3>2. authoring' = <<[do |-> "record", item |-> i, to |-> new],
                         [do |-> "answer", item |-> i, to |-> AnswerOf(new, form)]>>
      BY <2>2 DEF Upsert
    <3>3. QED BY <3>1, <3>2, EditFacts
  <2>3. QED BY <2>1, <2>2
<1>3. QED BY <1>1, <1>2, QueuesKept, StartTypes

LEMMA AuthorTypes ==
    ASSUME TypesInv, RunAuthoring
    PROVE  TypesInv'
<1> DEFINE cmd == Head(authoring)
<1>1. authoring \in Seq(Edits) /\ authoring # <<>> BY DEF TypesInv, Shapes, RunAuthoring
<1>2. cmd \in Edits /\ Tail(authoring) \in Seq(Edits) BY <1>1
<1>3. /\ cmd.do = "record" => cmd.to \in Records \union {NoRecord}
      /\ cmd.do # "record" => cmd.to \in Forms \union {NoAnswer}
  BY <1>2 DEF Edits
<1>4. /\ IF cmd.do = "record"
         THEN record' = [record EXCEPT ![cmd.item] = cmd.to] /\ UNCHANGED answer
         ELSE answer' = [answer EXCEPT ![cmd.item] = cmd.to] /\ UNCHANGED record
      /\ authoring' = Tail(authoring) /\ shifted' = TRUE
      /\ UNCHANGED <<event, store, team, req, clearing, wiping, left, torn>>
  BY DEF RunAuthoring
<1> HIDE DEF cmd
<1>5. record' \in [Items -> Records \union {NoRecord}] /\ answer' \in [Items -> Forms \union {NoAnswer}]
  BY <1>3, <1>4 DEF TypesInv, GraderTypeOK
<1>6. shifted' \in BOOLEAN BY <1>4
<1>7. GraderTypeOK' BY <1>4, <1>5, <1>6 DEF TypesInv, GraderTypeOK, event, store, rows, sums
<1>8. mod' = mod /\ setting' = setting /\ attempts' = attempts /\ req' = req BY <1>4 DEF event, store, rows
<1>9. Shapes' BY <1>2, <1>4, <1>8, QueuesKept DEF TypesInv, Shapes, Limited
<1>10. QED BY <1>7, <1>9 DEF TypesInv

LEMMA ResetTypes ==
    ASSUME TypesInv, NEW l \in Logins, ResetSolves(l)
    PROVE  TypesInv'
<1>1. /\ solves' = [solves EXCEPT ![l] = [i \in Items |-> NoRow]]
      /\ attempts' = [attempts EXCEPT ![l] = [i \in Items |-> NoRow]]
      /\ points' = [points EXCEPT ![l] = 0]
      /\ solved' = [solved EXCEPT ![l] = 0]
      /\ lastAt' = [lastAt EXCEPT ![l] = NoRow]
      /\ solvecount' = [i \in Items |-> solvecount[i] - (IF solves[l][i] = NoRow THEN 0 ELSE 1)]
      /\ UNCHANGED <<event, board, team, req, jobs, torn, shifted>> /\ Spends("resets")
  BY DEF ResetSolves
<1>2. solvecount' \in [Items -> Int] BY <1>1 DEF TypesInv, GraderTypeOK
<1>3. attempts' \in [Logins -> [Items -> Spent \union {NoRow}]]
      /\ \A m \in Logins, i \in Items : attempts'[m][i] = attempts[m][i] \/ attempts'[m][i] = NoRow
  BY <1>1 DEF TypesInv, GraderTypeOK
<1>4. solves' \in [Logins -> [Items -> Rows \union {NoRow}]] BY <1>1 DEF TypesInv, GraderTypeOK
<1>5. /\ points' \in [Logins -> Nat] /\ solved' \in [Logins -> Nat]
      /\ lastAt' \in [Logins -> Nat \union {NoRow}]
  BY <1>1 DEF TypesInv, GraderTypeOK
<1>6. GraderTypeOK' BY <1>1, <1>2, <1>3, <1>4, <1>5 DEF TypesInv, GraderTypeOK, event, board
<1>7. "subs" \in DOMAIN left' /\ left'["subs"] \subseteq Submissions BY <1>1, SpendsFacts DEF TypesInv
<1>8. mod' = mod /\ setting' = setting /\ wiping' = wiping /\ clearing' = clearing
      /\ authoring' = authoring /\ req' = req
  BY <1>1 DEF event, jobs
<1>9. \A m \in Logins, i \in Items : attempts'[m][i] # NoRow => attempts'[m][i].n > 0
  BY <1>3 DEF TypesInv, Shapes
<1>10. Shapes' BY <1>7, <1>8, <1>9, QueuesKept DEF TypesInv, Shapes, Limited
<1>11. QED BY <1>6, <1>10 DEF TypesInv

LEMMA ClearTypes ==
    ASSUME TypesInv, NEW l \in Logins, ResetAnswers(l)
    PROVE  TypesInv'
<1>1. mod = "quiz" /\ mod' = mod /\ UNCHANGED <<event, board, store, team, req, authoring, wiping, torn, shifted>>
      /\ Spends("resets") /\ clearing' = [k \in DOMAIN QuizClear |-> [do |-> QuizClear[k], of |-> {l}]]
  BY DEF ResetAnswers, event
<1>2. InOrder([k \in DOMAIN QuizClear |-> [do |-> QuizClear[k], of |-> {l}]]) BY <1>1, ClearStarts
<1> DEFINE q == [k \in DOMAIN QuizClear |-> [do |-> QuizClear[k], of |-> {l}]]
<1>3. InOrder(clearing)'
  <2>1. Summed' = Summed BY <1>1 DEF Summed
  <2>2. clearing' = q BY <1>1
  <2>3. InOrder(q) BY <1>2
  <2> HIDE DEF q
  <2>4. QED BY <2>1, <2>2, <2>3 DEF InOrder
<1>4. authoring' \in Seq(Edits) BY <1>1 DEF TypesInv, Shapes
<1>5. QED BY <1>1, <1>3, <1>4, QueuesKept, StartTypes

LEMMA WipeTypes ==
    ASSUME TypesInv, StartWipe \/ RunWipeAgain
    PROVE  TypesInv'
<1>1. PICK kind \in {"wipes", "faults"} : Spends(kind) BY DEF StartWipe, RunWipeAgain
<1>2. /\ mod' = mod /\ UNCHANGED <<event, board, store, team, req, authoring, clearing, torn, shifted>>
      /\ wiping' = [k \in DOMAIN WipeOrder |-> [do |-> WipeOrder[k], of |-> Logins]]
  BY DEF StartWipe, RunWipeAgain, event
<1> DEFINE q == [k \in DOMAIN WipeOrder |-> [do |-> WipeOrder[k], of |-> Logins]]
<1>3. InOrder(wiping)'
  <2>1. Summed' = Summed BY <1>2 DEF Summed
  <2>2. wiping' = q BY <1>2
  <2>3. InOrder(q) BY WipeStarts
  <2> HIDE DEF q
  <2>4. QED BY <2>1, <2>2, <2>3 DEF InOrder
<1>4. \A k \in DOMAIN wiping' : wiping'[k].of = Logins BY <1>2
<1>5. authoring' \in Seq(Edits) BY <1>2 DEF TypesInv, Shapes
<1>6. QED BY <1>1, <1>2, <1>3, <1>4, <1>5, QueuesKept, StartTypes

\* A command of a reset, key by key.
LEMMA CommandFacts ==
    ASSUME GraderTypeOK, NEW cmd \in Resets, Command(cmd)
    PROVE  /\ team' \in [Logins -> [slug : Teams, since : Nat]]
           /\ solves' \in [Logins -> [Items -> Rows \union {NoRow}]]
           /\ attempts' \in [Logins -> [Items -> Spent \union {NoRow}]]
           /\ points' \in [Logins -> Nat] /\ solved' \in [Logins -> Nat]
           /\ solvecount' \in [Items -> Int] /\ lastAt' \in [Logins -> Nat \union {NoRow}]
           /\ setting' \in [open : BOOLEAN, cooldown : Nat, cap : Nat]
           /\ setting'.cap = setting.cap /\ setting'.cooldown = setting.cooldown
           /\ shifted' \in BOOLEAN
           /\ cmd.do # "users" => team' = team /\ shifted' = shifted
           /\ \A l \in Logins : IF cmd.do = "rows" /\ l \in cmd.of
                 THEN solves'[l] = [i \in Items |-> NoRow] ELSE solves'[l] = solves[l]
           /\ \A l \in Logins : IF cmd.do = "attempts" /\ l \in cmd.of
                 THEN attempts'[l] = [i \in Items |-> NoRow] ELSE attempts'[l] = attempts[l]
           /\ \A l \in Logins :
                 points'[l] = (IF cmd.do = "points" /\ l \in cmd.of THEN 0 ELSE points[l])
           /\ \A l \in Logins :
                 solved'[l] = (IF cmd.do = "solved" /\ l \in cmd.of THEN 0 ELSE solved[l])
           /\ \A l \in Logins :
                 lastAt'[l] = (IF cmd.do = "lastAt" /\ l \in cmd.of THEN NoRow ELSE lastAt[l])
           /\ \A i \in Items : solvecount'[i] = (IF cmd.do = "solvecount" THEN 0 ELSE solvecount[i])
<1>1. /\ team' = IF cmd.do = "users"
                 THEN [l \in Logins |-> IF l \in cmd.of THEN [slug |-> NoTeam, since |-> 0] ELSE team[l]]
                 ELSE team
      /\ shifted' = IF cmd.do = "users" THEN TRUE ELSE shifted
      /\ setting' = IF cmd.do = "freeze" THEN [setting EXCEPT !.open = FALSE] ELSE setting
      /\ solvecount' = IF cmd.do = "solvecount" THEN [i \in Items |-> 0] ELSE solvecount
  BY DEF Command
<1>2. /\ solves' = IF cmd.do = "rows"
                   THEN [l \in Logins |-> IF l \in cmd.of THEN [i \in Items |-> NoRow] ELSE solves[l]]
                   ELSE solves
      /\ attempts' = IF cmd.do = "attempts"
                   THEN [l \in Logins |-> IF l \in cmd.of THEN [i \in Items |-> NoRow] ELSE attempts[l]]
                   ELSE attempts
      /\ points' = IF cmd.do = "points" THEN [l \in Logins |-> IF l \in cmd.of THEN 0 ELSE points[l]] ELSE points
      /\ solved' = IF cmd.do = "solved" THEN [l \in Logins |-> IF l \in cmd.of THEN 0 ELSE solved[l]] ELSE solved
      /\ lastAt' = IF cmd.do = "lastAt" THEN [l \in Logins |-> IF l \in cmd.of THEN NoRow ELSE lastAt[l]] ELSE lastAt
  BY DEF Command
<1>3. /\ team' \in [Logins -> [slug : Teams, since : Nat]] /\ (cmd.do # "users" => team' = team)
      /\ cmd.do # "users" => shifted' = shifted
  BY <1>1, GraderAssumption DEF GraderTypeOK
<1>4. shifted' \in BOOLEAN BY <1>1 DEF GraderTypeOK
<1>5. /\ setting' \in [open : BOOLEAN, cooldown : Nat, cap : Nat]
      /\ setting'.cap = setting.cap /\ setting'.cooldown = setting.cooldown
  BY <1>1 DEF GraderTypeOK
<1>6. /\ solves' \in [Logins -> [Items -> Rows \union {NoRow}]]
      /\ \A l \in Logins : IF cmd.do = "rows" /\ l \in cmd.of
                 THEN solves'[l] = [i \in Items |-> NoRow] ELSE solves'[l] = solves[l]
  BY <1>2 DEF GraderTypeOK
<1>7. /\ attempts' \in [Logins -> [Items -> Spent \union {NoRow}]]
      /\ \A l \in Logins : IF cmd.do = "attempts" /\ l \in cmd.of
                 THEN attempts'[l] = [i \in Items |-> NoRow] ELSE attempts'[l] = attempts[l]
  BY <1>2 DEF GraderTypeOK
<1>8. /\ points' \in [Logins -> Nat]
      /\ \A l \in Logins : points'[l] = (IF cmd.do = "points" /\ l \in cmd.of THEN 0 ELSE points[l])
  BY <1>2 DEF GraderTypeOK
<1>9. /\ solved' \in [Logins -> Nat]
      /\ \A l \in Logins : solved'[l] = (IF cmd.do = "solved" /\ l \in cmd.of THEN 0 ELSE solved[l])
  BY <1>2 DEF GraderTypeOK
<1>10. /\ lastAt' \in [Logins -> Nat \union {NoRow}]
       /\ \A l \in Logins : lastAt'[l] = (IF cmd.do = "lastAt" /\ l \in cmd.of THEN NoRow ELSE lastAt[l])
  BY <1>2 DEF GraderTypeOK
<1>11. /\ solvecount' \in [Items -> Int]
       /\ \A i \in Items : solvecount'[i] = (IF cmd.do = "solvecount" THEN 0 ELSE solvecount[i])
  BY <1>1 DEF GraderTypeOK
<1>12. QED BY <1>3, <1>4, <1>5, <1>6, <1>7, <1>8, <1>9, <1>10, <1>11

LEMMA QueueTypes ==
    ASSUME TypesInv, RunClear \/ RunWipe
    PROVE  TypesInv'
<1> DEFINE q == IF RunClear THEN clearing ELSE wiping
<1>1. PICK cmd \in Resets : Command(cmd)
  <2>1. CASE RunClear
    <3>1. Command(Head(clearing)) /\ clearing # <<>> BY <2>1 DEF RunClear, Clearing
    <3>2. QED BY <3>1, TailFacts DEF TypesInv, Shapes
  <2>2. CASE RunWipe
    <3>1. Command(Head(wiping)) /\ wiping # <<>> BY <2>2 DEF RunWipe, Wiping
    <3>2. QED BY <3>1, TailFacts DEF TypesInv, Shapes
  <2>3. QED BY <2>1, <2>2
<1>2. UNCHANGED <<mod, clock, board, req, authoring, left, torn>> BY DEF RunClear, RunWipe
<1>3. GraderTypeOK' BY <1>1, <1>2, CommandFacts DEF TypesInv, GraderTypeOK, board
<1>4. \A l \in Logins, i \in Items : attempts'[l][i] # NoRow => attempts'[l][i].n > 0
  <2> SUFFICES ASSUME NEW l \in Logins, NEW i \in Items, attempts'[l][i] # NoRow
               PROVE  attempts'[l][i].n > 0
    OBVIOUS
  <2>1. attempts'[l] = [j \in Items |-> NoRow] \/ attempts'[l] = attempts[l]
    BY <1>1, CommandFacts DEF TypesInv
  <2>2. QED BY <2>1 DEF TypesInv, Shapes
<1>5. setting'.cap = setting.cap /\ setting'.cooldown = setting.cooldown BY <1>1, CommandFacts DEF TypesInv
<1>6. InOrder(wiping)' /\ \A k \in DOMAIN wiping' : wiping'[k].of = Logins
  <2>1. CASE RunClear BY <1>2, <2>1, QueuesKept DEF RunClear
  <2>2. CASE RunWipe
    <3>1. wiping' = Tail(wiping) /\ wiping # <<>> /\ InOrder(wiping) /\ mod' = mod
      BY <1>2, <2>2 DEF RunWipe, Wiping, TypesInv, Shapes
    <3>2. InOrder(Tail(wiping)) /\ \A k \in DOMAIN Tail(wiping) : Tail(wiping)[k].of = Logins
      BY <3>1, TailFacts DEF TypesInv, Shapes
    <3>3. QED BY <3>1, <3>2 DEF InOrder, Summed
  <2>3. QED BY <2>1, <2>2
<1>7. InOrder(clearing)' /\ (mod # "quiz" => clearing' = <<>>)
  <2>1. CASE RunWipe BY <1>2, <2>1, QueuesKept DEF RunWipe
  <2>2. CASE RunClear
    <3>1. clearing' = Tail(clearing) /\ clearing # <<>> /\ InOrder(clearing) /\ mod' = mod
      BY <1>2, <2>2 DEF RunClear, Clearing, TypesInv, Shapes
    <3>2. mod = "quiz" /\ InOrder(Tail(clearing)) BY <3>1, TailFacts DEF TypesInv, Shapes
    <3>3. QED BY <3>1, <3>2 DEF InOrder, Summed
  <2>3. QED BY <2>1, <2>2
<1>8. Shapes' BY <1>2, <1>4, <1>5, <1>6, <1>7 DEF TypesInv, Shapes, Limited
<1>9. QED BY <1>3, <1>8 DEF TypesInv

LEMMA GraderNextTypes == TypesInv /\ [GraderNext]_graderVars => TypesInv'
<1> SUFFICES ASSUME TypesInv, [GraderNext]_graderVars PROVE TypesInv' OBVIOUS
<1>1. ASSUME NEW s \in Slots, NEW sub \in left.subs, Arrive(s, sub) PROVE TypesInv' BY <1>1, ArriveTypes
<1>2. ASSUME NEW s \in Slots, Gate(s) PROVE TypesInv' BY <1>2, GateTypes
<1>3. ASSUME NEW s \in Slots, Story(s) PROVE TypesInv' BY <1>3, StoryTypes
<1>4. ASSUME NEW s \in Slots, RunScript(s) PROVE TypesInv' BY <1>4, ScriptTypes
<1>5. ASSUME NEW s \in Slots, RequestFails(s) PROVE TypesInv'
  <2>1. Refuse(s) /\ Spends("faults") /\ UNCHANGED <<event, board, store, team, jobs, torn, shifted>>
    BY <1>5 DEF RequestFails
  <2>2. "subs" \in DOMAIN left' /\ left'["subs"] \subseteq Submissions BY <2>1, SpendsFacts DEF TypesInv
  <2>3. QED BY <2>1, <2>2, RefuseTypes, RequestTypes
<1>6. ASSUME NEW new \in Settings, SaveSettings(new) PROVE TypesInv' BY <1>6, SaveTypes
<1>7. ASSUME NEW i \in Items, Delete(i) \/ \E new \in Records, form \in Forms : Upsert(i, new, form)
      PROVE  TypesInv'
  BY <1>7, EditTypes
<1>8. ASSUME NEW l \in Logins, ResetSolves(l) PROVE TypesInv' BY <1>8, ResetTypes
<1>9. ASSUME NEW l \in Logins, ResetAnswers(l) PROVE TypesInv' BY <1>9, ClearTypes
<1>10. ASSUME NEW l \in Logins, NEW to \in Teams, ChangeTeam(l, to) PROVE TypesInv'
  <2>1. /\ team' = [team EXCEPT ![l] = [slug |-> to, since |-> clock]] /\ shifted' = TRUE
        /\ UNCHANGED <<event, board, store, req, jobs, torn>> /\ Spends("moves")
    BY <1>10 DEF ChangeTeam
  <2>2. clock \in Nat BY GraderAssumption DEF TypesInv, GraderTypeOK
  <2>3. team' \in [Logins -> [slug : Teams, since : Nat]] BY <2>1, <2>2 DEF TypesInv, GraderTypeOK
  <2>4. shifted' \in BOOLEAN BY <2>1
  <2>5. GraderTypeOK' BY <2>1, <2>3, <2>4 DEF TypesInv, GraderTypeOK, event, board, store, rows, sums
  <2>6. "subs" \in DOMAIN left' /\ left'["subs"] \subseteq Submissions BY <2>1, SpendsFacts DEF TypesInv
  <2>7. mod' = mod /\ wiping' = wiping /\ clearing' = clearing /\ authoring' = authoring
        /\ setting' = setting /\ attempts' = attempts /\ req' = req
    BY <2>1 DEF event, store, rows, jobs
  <2>8. Shapes' BY <2>6, <2>7, QueuesKept DEF TypesInv, Shapes, Limited
  <2>9. QED BY <2>5, <2>8 DEF TypesInv
<1>11. CASE RunAuthoring BY <1>11, AuthorTypes
<1>12. CASE StartWipe \/ RunWipeAgain BY <1>12, WipeTypes
<1>13. CASE RunWipe \/ RunClear BY <1>13, QueueTypes
<1>14. CASE Tick
  <2>1. clock' \in 0..MaxTime BY <1>14, GraderAssumption DEF Tick, TypesInv, GraderTypeOK
  <2>2. UNCHANGED <<mod, setting, board, store, team, req, jobs, left, torn, shifted>> BY <1>14 DEF Tick
  <2>3. GraderTypeOK' BY <2>1, <2>2 DEF TypesInv, GraderTypeOK, board, store, rows, sums
  <2>4. wiping' = wiping /\ clearing' = clearing /\ authoring' = authoring /\ mod' = mod
        /\ setting' = setting /\ attempts' = attempts /\ req' = req /\ left' = left
    BY <2>2 DEF store, rows, jobs
  <2>5. Shapes' BY <2>4, QueuesKept DEF TypesInv, Shapes, Limited
  <2>6. QED BY <2>3, <2>5 DEF TypesInv
<1>15. CASE UNCHANGED graderVars
  <2>1. GraderTypeOK' BY <1>15 DEF TypesInv, GraderTypeOK, graderVars, event, board, store, rows, sums
  <2>2. wiping' = wiping /\ clearing' = clearing /\ authoring' = authoring /\ mod' = mod
        /\ setting' = setting /\ attempts' = attempts /\ req' = req /\ left' = left
    BY <1>15 DEF graderVars, event, store, rows, jobs
  <2>3. Shapes' BY <2>2, QueuesKept DEF TypesInv, Shapes, Limited
  <2>4. QED BY <2>1, <2>3 DEF TypesInv
<1>16. QED BY <1>1, <1>2, <1>3, <1>4, <1>5, <1>6, <1>7, <1>8, <1>9, <1>10, <1>11, <1>12, <1>13, <1>14,
              <1>15 DEF GraderNext
-----------------------------------------------------------------------------
(***************************************************************************)
(* The totals.                                                              *)
(***************************************************************************)
RowsOK == solves \in [Logins -> [Items -> Rows \union {NoRow}]]

\* The rows of one login, and what they add up to.
RowType == [Items -> Rows \union {NoRow}]
BankedIn(row) == {i \in Items : row[i] # NoRow}
EarnedIn(row) == SumFunction([i \in BankedIn(row) |-> row[i].points])

LEMMA RowSums ==
    ASSUME NEW row \in RowType
    PROVE  /\ BankedIn(row) \subseteq Items /\ IsFiniteSet(BankedIn(row))
           /\ Cardinality(BankedIn(row)) \in Nat
           /\ [i \in BankedIn(row) |-> row[i].points] \in [BankedIn(row) -> Nat]
           /\ EarnedIn(row) \in Nat
           /\ BankedIn(row) = {} => EarnedIn(row) = 0 /\ Cardinality(BankedIn(row)) = 0
<1>1. BankedIn(row) \subseteq Items BY DEF BankedIn
<1>2. IsFiniteSet(BankedIn(row)) BY <1>1, GraderAssumption, FS_Subset
<1>3. Cardinality(BankedIn(row)) \in Nat BY <1>2, FS_CardinalityType
<1> DEFINE f == [i \in BankedIn(row) |-> row[i].points]
<1>4. \A i \in BankedIn(row) : row[i].points \in Nat BY DEF RowType, BankedIn, Rows
<1>5. f \in [BankedIn(row) -> Nat] BY <1>4
<1>6. EarnedIn(row) = SumFunction(f) BY DEF EarnedIn
<1> HIDE DEF f
<1>7. EarnedIn(row) \in Nat /\ (BankedIn(row) = {} => EarnedIn(row) = 0) BY <1>2, <1>5, <1>6, SumNat
<1>8. BankedIn(row) = {} => Cardinality(BankedIn(row)) = 0 BY FS_EmptySet
<1>9. QED BY <1>1, <1>2, <1>3, <1>5, <1>7, <1>8 DEF f

LEMMA RowGrows ==
    ASSUME NEW row \in RowType, NEW new \in RowType, NEW i \in Items, NEW w \in Nat,
           row[i] = NoRow, new[i] # NoRow, new[i].points = w,
           \A j \in Items : j # i => new[j] = row[j]
    PROVE  /\ BankedIn(new) = BankedIn(row) \union {i} /\ i \notin BankedIn(row)
           /\ EarnedIn(new) = EarnedIn(row) + w
           /\ Cardinality(BankedIn(new)) = Cardinality(BankedIn(row)) + 1
<1> DEFINE S == BankedIn(row)
           f == [j \in S |-> row[j].points]
           g == [j \in S \union {i} |-> new[j].points]
<1>1. BankedIn(new) = S \union {i} /\ i \notin S BY DEF BankedIn
<1>2. f \in [S -> Nat] /\ IsFiniteSet(S) BY RowSums
<1>3. [j \in BankedIn(new) |-> new[j].points] \in [BankedIn(new) -> Nat] BY RowSums
<1>4. g \in [S \union {i} -> Nat] BY <1>1, <1>3
<1>5. \A j \in S : g[j] = f[j] BY <1>1 DEF BankedIn
<1>6. g[i] = w OBVIOUS
<1>7. EarnedIn(row) = SumFunction(f) BY DEF EarnedIn
<1>8. EarnedIn(new) = SumFunction(g) BY <1>1 DEF EarnedIn
<1> HIDE DEF S, f, g
<1>9. SumFunction(g) = SumFunction(f) + g[i] BY <1>1, <1>2, <1>4, <1>5, SumGrows
<1>10. Cardinality(S \union {i}) = Cardinality(S) + 1 BY <1>1, <1>2, FS_AddElement
<1>11. QED BY <1>1, <1>6, <1>7, <1>8, <1>9, <1>10 DEF S

LEMMA EarnedFacts ==
    ASSUME NEW l \in Logins
    PROVE  /\ Banked(l) = BankedIn(solves[l]) /\ Earned(l) = EarnedIn(solves[l])
           /\ Banked(l)' = BankedIn(solves'[l]) /\ Earned(l)' = EarnedIn(solves'[l])
BY DEF Banked, BankedIn, Earned, EarnedIn

LEMMA SolversFacts ==
    ASSUME RowsOK, NEW i \in Items
    PROVE  /\ Solvers(i) \subseteq Logins /\ IsFiniteSet(Solvers(i)) /\ Cardinality(Solvers(i)) \in Nat
           /\ Solvers(i) = {} => Cardinality(Solvers(i)) = 0
<1>1. Solvers(i) \subseteq Logins BY DEF Solvers
<1>2. IsFiniteSet(Solvers(i)) BY <1>1, GraderAssumption, FS_Subset
<1>3. QED BY <1>1, <1>2, FS_CardinalityType, FS_EmptySet

\* Rows left alone add up to the same, and rows deleted to nothing.
LEMMA RowsAlone ==
    ASSUME NEW l \in Logins, solves'[l] = solves[l]
    PROVE  Banked(l)' = Banked(l) /\ Earned(l)' = Earned(l) /\ (lastAt'[l] = lastAt[l] => LastOf(l)' = LastOf(l))
<1>1. Banked(l)' = Banked(l) BY DEF Banked
<1>2. Earned(l)' = Earned(l) BY <1>1 DEF Earned
<1>3. ASSUME lastAt'[l] = lastAt[l] PROVE LastOf(l)' = LastOf(l)
  BY <1>1, <1>3 DEF LastOf
<1>4. QED BY <1>1, <1>2, <1>3

LEMMA RowsGone ==
    ASSUME NEW l \in Logins, solves'[l] = [i \in Items |-> NoRow]
    PROVE  Banked(l)' = {} /\ Earned(l)' = 0 /\ Cardinality(Banked(l))' = 0
<1>1. solves'[l] \in RowType BY DEF RowType
<1>2. BankedIn(solves'[l]) = {} BY DEF BankedIn
<1>3. QED BY <1>1, <1>2, RowSums, EarnedFacts

\* A row banked: one more, worth what the award adds.
LEMMA RowBanked ==
    ASSUME RowsOK, RowsOK', NEW l \in Logins, NEW i \in Items, NEW w \in Nat, NEW t \in Nat,
           solves[l][i] = NoRow, solves'[l][i] = [points |-> w, at |-> t],
           \A m \in Logins, j \in Items : m # l \/ j # i => solves'[m][j] = solves[m][j]
    PROVE  /\ Banked(l)' = Banked(l) \union {i} /\ i \notin Banked(l)
           /\ Earned(l)' = Earned(l) + w
           /\ Cardinality(Banked(l))' = Cardinality(Banked(l)) + 1
           /\ Cardinality(Solvers(i))' = Cardinality(Solvers(i)) + 1
           /\ \A j \in Items : j # i => Solvers(j)' = Solvers(j)
<1>1. [points |-> w, at |-> t] \in Rows /\ [points |-> w, at |-> t] # NoRow
  BY GraderAssumption DEF Rows
<1>2. solves[l] \in RowType /\ solves'[l] \in RowType BY DEF RowsOK, RowType
<1>3. \A j \in Items : j # i => solves'[l][j] = solves[l][j] OBVIOUS
<1>4. solves'[l][i] # NoRow /\ solves'[l][i].points = w BY <1>1
<1>5. /\ BankedIn(solves'[l]) = BankedIn(solves[l]) \union {i} /\ i \notin BankedIn(solves[l])
      /\ EarnedIn(solves'[l]) = EarnedIn(solves[l]) + w
      /\ Cardinality(BankedIn(solves'[l])) = Cardinality(BankedIn(solves[l])) + 1
  BY <1>2, <1>3, <1>4, RowGrows
<1>6. Solvers(i)' = Solvers(i) \union {l} /\ l \notin Solvers(i) BY <1>1 DEF Solvers
<1>7. \A j \in Items : j # i => Solvers(j)' = Solvers(j) BY DEF Solvers
<1>8. Cardinality(Solvers(i))' = Cardinality(Solvers(i)) + 1 BY <1>6, SolversFacts, FS_AddElement
<1>9. QED BY <1>5, <1>7, <1>8, EarnedFacts

\* A reset that is under way is of some of the contestants.
LEMMA OfLogins ==
    ASSUME TypesInv
    PROVE  /\ wiping # <<>> => wiping[1].of = Logins
           /\ clearing # <<>> => clearing[1].of \subseteq Logins
<1>1. InOrder(wiping) /\ InOrder(clearing) /\ \A k \in DOMAIN wiping : wiping[k].of = Logins
  BY DEF TypesInv, Shapes
<1>2. wiping # <<>> => 1 \in DOMAIN wiping BY <1>1, TailFacts
<1>3. clearing # <<>> => clearing[1] \in Resets BY <1>1, TailFacts
<1>4. QED BY <1>1, <1>2, <1>3 DEF Resets

\* Whatever else a step does, what it leaves alone stays backed and exact.
LEMMA TotalsKept ==
    ASSUME TypesInv, TotalsInv, UNCHANGED <<mod, solves, sums, torn, wiping, clearing>>
    PROVE  TotalsInv'
<1>1. solves' = solves /\ points' = points /\ solved' = solved /\ solvecount' = solvecount /\ lastAt' = lastAt
  BY DEF sums
<1>2. \A l \in Logins : Banked(l)' = Banked(l) /\ Earned(l)' = Earned(l) BY <1>1, RowsAlone
<1>3. \A i \in Items : Solvers(i)' = Solvers(i) BY <1>1 DEF Solvers
<1>4. Backed' BY <1>1, <1>2, <1>3 DEF TotalsInv, Backed, DueTo, Due, Left
<1>5. Exact' BY <1>1, <1>2, <1>3 DEF TotalsInv, Exact, DueTo, Due, Left, LastOf
<1>6. Emptied' BY <1>2, OfLogins DEF TotalsInv, Emptied, EmptiedBy, Left
<1>7. NoQuizCount' BY <1>1 DEF TotalsInv, NoQuizCount
<1>8. QED BY <1>4, <1>5, <1>6, <1>7 DEF TotalsInv

LEMMA TotalsInit == GraderInit => TotalsInv
<1> SUFFICES ASSUME GraderInit PROVE TotalsInv OBVIOUS
<1>1. RowsOK BY GraderInitTypes DEF TypesInv, GraderTypeOK, RowsOK
<1>2. \A l \in Logins : Banked(l) = {} BY DEF GraderInit, Banked
<1>3. \A l \in Logins : Earned(l) = 0 /\ Cardinality(Banked(l)) = 0
  BY <1>1, <1>2, EarnedFacts, RowSums DEF RowsOK, RowType
<1>4. \A i \in Items : Solvers(i) = {} BY DEF GraderInit, Solvers
<1>5. \A i \in Items : Cardinality(Solvers(i)) = 0 BY <1>1, <1>4, SolversFacts
<1>6. /\ \A l \in Logins : points[l] = 0 /\ solved[l] = 0 /\ lastAt[l] = NoRow
      /\ \A i \in Items : solvecount[i] = 0
  BY DEF GraderInit
<1>7. wiping = <<>> /\ clearing = <<>> BY DEF GraderInit
<1>8. QED BY <1>2, <1>3, <1>5, <1>6, <1>7
          DEF TotalsInv, Backed, Exact, LastOf, Emptied, EmptiedBy, NoQuizCount

\* A script that banks a solve.
LEMMA TotalsBank ==
    ASSUME TypesInv, TypesInv', TotalsInv, NEW r \in Requests, BankSolve(r), ~Solved(r),
           IF mod = "quiz" THEN UNCHANGED solvecount ELSE CountSolver(r),
           UNCHANGED <<mod, wiping, clearing>>
    PROVE  TotalsInv'
<1> DEFINE l == r.login
           i == r.item
           w == Worth(i)
<1>1. /\ l \in Logins /\ i \in Items /\ r.now \in Nat /\ w \in Nat
      /\ solves'[l][i] = [points |-> w, at |-> r.now]
      /\ \A m \in Logins, j \in Items : m # l \/ j # i => solves'[m][j] = solves[m][j]
      /\ \A m \in Logins : m # l => solves'[m] = solves[m]
      /\ points'[l] = points[l] + w
      /\ \A m \in Logins : m # l => points'[m] = points[m]
      /\ solved'[l] = solved[l] + 1
      /\ \A m \in Logins : m # l => solved'[m] = solved[m]
      /\ lastAt'[l] = IF lastAt[l] = NoRow \/ lastAt[l] < r.now THEN r.now ELSE lastAt[l]
      /\ \A m \in Logins : m # l => lastAt'[m] = lastAt[m]
  BY BankFacts
<1>2. solves[l][i] = NoRow BY DEF Solved
<1>3. torn' = (torn \/ Wiping \/ Clearing) BY DEF BankSolve
<1>4. RowsOK /\ RowsOK' BY DEF TypesInv, GraderTypeOK, RowsOK
<1>5. /\ points \in [Logins -> Nat] /\ solved \in [Logins -> Nat] /\ solvecount \in [Items -> Int]
      /\ lastAt \in [Logins -> Nat \union {NoRow}]
  BY DEF TypesInv, GraderTypeOK
<1>6. /\ mod # "quiz" => solvecount'[i] = solvecount[i] + 1
                         /\ \A j \in Items : j # i => solvecount'[j] = solvecount[j]
      /\ mod = "quiz" => solvecount' = solvecount
  BY <1>1, <1>5 DEF CountSolver
<1>7. PICK L, I, W, T : L = l /\ I = i /\ W = w /\ T = r.now OBVIOUS
<1> HIDE DEF l, i, w
<1>8. /\ Banked(L)' = Banked(L) \union {I} /\ I \notin Banked(L)
      /\ Earned(L)' = Earned(L) + W
      /\ Cardinality(Banked(L))' = Cardinality(Banked(L)) + 1
      /\ Cardinality(Solvers(I))' = Cardinality(Solvers(I)) + 1
      /\ \A j \in Items : j # I => Solvers(j)' = Solvers(j)
  <2>1. L \in Logins /\ I \in Items /\ W \in Nat /\ T \in Nat
        /\ solves[L][I] = NoRow /\ solves'[L][I] = [points |-> W, at |-> T]
        /\ \A m \in Logins, j \in Items : m # L \/ j # I => solves'[m][j] = solves[m][j]
    BY <1>1, <1>2, <1>7
  <2>2. QED BY <1>4, <2>1, RowBanked
<1>9. \A m \in Logins : m # L => /\ Banked(m)' = Banked(m) /\ Earned(m)' = Earned(m)
                                 /\ LastOf(m)' = LastOf(m)
  BY <1>1, <1>7, RowsAlone
<1>10. \A m \in Logins : Earned(m) \in Nat /\ Cardinality(Banked(m)) \in Nat
  BY <1>4, EarnedFacts, RowSums DEF RowsOK, RowType
<1>11. \A j \in Items : Cardinality(Solvers(j)) \in Nat BY <1>4, SolversFacts
<1>12. \A what, m : DueTo(what, m)' = DueTo(what, m) BY DEF DueTo, Due
<1>13. Left(wiping, "solvecount")' = Left(wiping, "solvecount") BY DEF Left
<1>14. L \in Logins /\ I \in Items /\ W \in Nat /\ T \in Nat BY <1>1, <1>7
<1>15. Backed'
  <2>1. ASSUME NEW m \in Logins PROVE (points[m] <= Earned(m) \/ DueTo("points", m))'
    <3>1. points[m] <= Earned(m) \/ DueTo("points", m) BY DEF TotalsInv, Backed
    <3>2. CASE m = L
      <4>1. points'[m] = points[m] + W /\ Earned(m)' = Earned(m) + W BY <1>1, <1>7, <1>8, <3>2
      <4>2. points[m] <= Earned(m) => points'[m] <= Earned(m)' BY <1>5, <1>10, <1>14, <4>1
      <4>3. QED BY <1>12, <3>1, <4>2
    <3>3. CASE m # L BY <1>1, <1>7, <1>9, <1>12, <3>1, <3>3
    <3>4. QED BY <3>2, <3>3
  <2>2. ASSUME NEW m \in Logins PROVE (solved[m] <= Cardinality(Banked(m)) \/ DueTo("solved", m))'
    <3>1. solved[m] <= Cardinality(Banked(m)) \/ DueTo("solved", m) BY DEF TotalsInv, Backed
    <3>2. CASE m = L
      <4>1. solved'[m] = solved[m] + 1 /\ Cardinality(Banked(m))' = Cardinality(Banked(m)) + 1
        BY <1>1, <1>7, <1>8, <3>2
      <4>2. solved[m] <= Cardinality(Banked(m)) => solved'[m] <= Cardinality(Banked(m))'
        BY <1>5, <1>10, <4>1
      <4>3. QED BY <1>12, <3>1, <4>2
    <3>3. CASE m # L BY <1>1, <1>7, <1>9, <1>12, <3>1, <3>3
    <3>4. QED BY <3>2, <3>3
  <2>3. ASSUME NEW j \in Items
        PROVE  (solvecount[j] <= Cardinality(Solvers(j)) \/ Left(wiping, "solvecount"))'
    <3>1. solvecount[j] <= Cardinality(Solvers(j)) \/ Left(wiping, "solvecount") BY DEF TotalsInv, Backed
    <3>2. solvecount'[j] = solvecount[j] \/ (j = I /\ solvecount'[j] = solvecount[j] + 1)
      BY <1>6, <1>7
    <3>3. IF j = I THEN Cardinality(Solvers(j))' = Cardinality(Solvers(j)) + 1
          ELSE Cardinality(Solvers(j))' = Cardinality(Solvers(j))
      BY <1>8
    <3>4. solvecount[j] <= Cardinality(Solvers(j)) => solvecount'[j] <= Cardinality(Solvers(j))'
      BY <1>5, <1>11, <3>2, <3>3
    <3>5. QED BY <1>13, <3>1, <3>4
  <2>4. QED BY <2>1, <2>2, <2>3 DEF Backed
<1>16. NoQuizCount' BY <1>6 DEF TotalsInv, NoQuizCount
<1>17. ASSUME ~torn' PROVE ~torn /\ wiping = <<>> /\ clearing = <<>>
  BY <1>3, <1>17 DEF Wiping, Clearing
<1>18. Emptied' BY <1>17 DEF Emptied, EmptiedBy
<1>19. Exact'
  <2> SUFFICES ASSUME ~torn'
               PROVE  /\ \A m \in Logins : (points[m] = Earned(m))'
                      /\ \A m \in Logins : (solved[m] = Cardinality(Banked(m)))'
                      /\ \A m \in Logins : LastOf(m)'
                      /\ mod' # "quiz" => \A j \in Items : (solvecount[j] = Cardinality(Solvers(j)))'
    BY DEF Exact
  <2>1. /\ \A m \in Logins : points[m] = Earned(m) /\ solved[m] = Cardinality(Banked(m)) /\ LastOf(m)
        /\ mod # "quiz" => \A j \in Items : solvecount[j] = Cardinality(Solvers(j))
    BY <1>17 DEF TotalsInv, Exact, DueTo, Due, Left
  <2>2. \A m \in Logins : (points[m] = Earned(m) /\ solved[m] = Cardinality(Banked(m)))'
    BY <1>1, <1>7, <1>8, <1>9, <2>1
  <2>3. ASSUME NEW j \in Items, mod' # "quiz" PROVE (solvecount[j] = Cardinality(Solvers(j)))'
    BY <1>6, <1>7, <1>8, <2>1, <2>3
  <2>4. ASSUME NEW m \in Logins PROVE LastOf(m)'
    <3>1. CASE m # L BY <1>9, <2>1, <3>1
    <3>2. CASE m = L
      <4>1. solves'[m][I].at = T /\ \A j \in Banked(m) : solves'[m][j] = solves[m][j]
        <5>1. solves'[m][I] = [points |-> W, at |-> T] BY <1>1, <1>7, <3>2
        <5>2. \A j \in Banked(m) : j \in Items /\ j # I BY <1>8, <3>2 DEF Banked
        <5>3. QED BY <1>1, <1>7, <3>2, <5>1, <5>2
      <4>2. \A j \in Banked(m) : solves[m][j].at \in Nat BY <1>4 DEF Banked, RowsOK, Rows
      <4>3. lastAt'[m] = IF lastAt[m] = NoRow \/ lastAt[m] < T THEN T ELSE lastAt[m] BY <1>1, <1>7, <3>2
      <4>4. NoRow \notin Nat BY GraderAssumption
      <4>5. CASE Banked(m) = {}
        <5>1. lastAt[m] = NoRow BY <2>1, <4>5 DEF LastOf
        <5>2. lastAt'[m] = T /\ Banked(m)' = {I} BY <1>8, <3>2, <4>3, <4>5, <5>1
        <5>3. QED BY <1>14, <4>1, <5>2 DEF LastOf
      <4>6. CASE Banked(m) # {}
        <5>1. PICK j \in Banked(m) : lastAt[m] = solves[m][j].at BY <2>1, <4>6 DEF LastOf
        <5>2. \A k \in Banked(m) : solves[m][k].at <= lastAt[m] BY <2>1, <4>6 DEF LastOf
        <5>3. lastAt[m] \in Nat /\ lastAt[m] # NoRow BY <4>2, <4>4, <5>1
        <5>4. Banked(m)' = Banked(m) \union {I} BY <1>8, <3>2
        <5>5. CASE lastAt[m] < T
          <6>1. lastAt'[m] = T BY <4>3, <5>5
          <6>2. \A k \in Banked(m) \union {I} : solves'[m][k].at <= T
            BY <1>14, <4>1, <4>2, <5>2, <5>3, <5>5
          <6>3. QED BY <4>1, <5>4, <6>1, <6>2 DEF LastOf
        <5>6. CASE ~(lastAt[m] < T)
          <6>1. lastAt'[m] = lastAt[m] /\ T <= lastAt[m] BY <1>14, <4>3, <5>3, <5>6
          <6>2. \A k \in Banked(m) \union {I} : solves'[m][k].at <= lastAt[m]
            BY <4>1, <5>2, <6>1
          <6>3. j \in Banked(m) \union {I} /\ solves'[m][j].at = lastAt'[m] BY <4>1, <5>1, <6>1
          <6>4. QED BY <5>4, <6>1, <6>2, <6>3 DEF LastOf
        <5>7. QED BY <5>5, <5>6
      <4>7. QED BY <4>5, <4>6
    <3>3. QED BY <3>1, <3>2
  <2>5. QED BY <2>2, <2>3, <2>4
<1>20. QED BY <1>15, <1>16, <1>18, <1>19 DEF TotalsInv

LEMMA TotalsScript ==
    ASSUME TypesInv, TypesInv', TotalsInv, NEW s \in Slots, RunScript(s)
    PROVE  TotalsInv'
<1>1. PICK r \in Requests : r = req[s] BY ScriptFacts
<1>2. UNCHANGED <<mod, wiping, clearing>> BY DEF RunScript, event, jobs
<1>3. CASE Banks(r, Verdict(r))
  <2>1. BankSolve(r) /\ ~Solved(r) /\ (IF mod = "quiz" THEN UNCHANGED solvecount ELSE CountSolver(r))
    BY <1>1, <1>3, ScriptFacts
  <2>2. QED BY <1>2, <2>1, TotalsBank
<1>4. CASE ~Banks(r, Verdict(r))
  <2>1. UNCHANGED <<solves, sums, torn>> BY <1>1, <1>4, ScriptFacts
  <2>2. QED BY <1>2, <2>1, TotalsKept
<1>5. QED BY <1>3, <1>4

\* The reset of a contestant in one script.
LEMMA TotalsReset ==
    ASSUME TypesInv, TypesInv', TotalsInv, NEW l \in Logins, ResetSolves(l)
    PROVE  TotalsInv'
<1>1. /\ solves' = [solves EXCEPT ![l] = [i \in Items |-> NoRow]]
      /\ points' = [points EXCEPT ![l] = 0]
      /\ solved' = [solved EXCEPT ![l] = 0]
      /\ lastAt' = [lastAt EXCEPT ![l] = NoRow]
      /\ solvecount' = [i \in Items |-> solvecount[i] - (IF solves[l][i] = NoRow THEN 0 ELSE 1)]
      /\ UNCHANGED <<event, jobs, torn>> /\ mod # "quiz"
  BY DEF ResetSolves
<1>2. UNCHANGED <<mod, torn, wiping, clearing>> BY <1>1 DEF event, jobs
<1>3. RowsOK /\ RowsOK' BY DEF TypesInv, GraderTypeOK, RowsOK
<1>4. /\ points \in [Logins -> Nat] /\ solved \in [Logins -> Nat] /\ solvecount \in [Items -> Int]
      /\ lastAt \in [Logins -> Nat \union {NoRow}]
  BY DEF TypesInv, GraderTypeOK
<1>5. solves'[l] = [i \in Items |-> NoRow] /\ \A m \in Logins : m # l => solves'[m] = solves[m]
  BY <1>1, <1>3 DEF RowsOK
<1>6. points'[l] = 0 /\ solved'[l] = 0 /\ lastAt'[l] = NoRow
      /\ \A m \in Logins : m # l => points'[m] = points[m] /\ solved'[m] = solved[m] /\ lastAt'[m] = lastAt[m]
  BY <1>1, <1>4
<1>7. Banked(l)' = {} /\ Earned(l)' = 0 /\ Cardinality(Banked(l))' = 0 BY <1>5, RowsGone
<1>8. \A m \in Logins : m # l => /\ Banked(m)' = Banked(m) /\ Earned(m)' = Earned(m)
                                 /\ LastOf(m)' = LastOf(m)
  BY <1>5, <1>6, RowsAlone
<1>9. \A i \in Items : Cardinality(Solvers(i))' = Cardinality(Solvers(i)) - (IF solves[l][i] = NoRow THEN 0 ELSE 1)
                       /\ Cardinality(Solvers(i)) \in Nat
  <2> SUFFICES ASSUME NEW i \in Items
               PROVE  Cardinality(Solvers(i))' = Cardinality(Solvers(i)) - (IF solves[l][i] = NoRow THEN 0 ELSE 1)
                      /\ Cardinality(Solvers(i)) \in Nat
    OBVIOUS
  <2>1. Solvers(i)' = Solvers(i) \ {l}
    <3>1. solves'[l][i] = NoRow BY <1>5
    <3>2. QED BY <1>5, <3>1 DEF Solvers
  <2>2. IsFiniteSet(Solvers(i)) /\ Cardinality(Solvers(i)) \in Nat BY <1>3, SolversFacts
  <2>3. CASE solves[l][i] = NoRow
    <3>1. Solvers(i)' = Solvers(i) BY <2>1, <2>3 DEF Solvers
    <3>2. QED BY <2>2, <2>3, <3>1
  <2>4. CASE solves[l][i] # NoRow
    <3>1. l \in Solvers(i) BY <2>4 DEF Solvers
    <3>2. Cardinality(Solvers(i) \ {l}) = Cardinality(Solvers(i)) - 1 BY <2>2, <3>1, FS_RemoveElement
    <3>3. QED BY <2>1, <2>2, <2>4, <3>2
  <2>5. QED BY <2>3, <2>4
<1>10. \A what, m : DueTo(what, m)' = DueTo(what, m) BY <1>2 DEF DueTo, Due
<1>11. Left(wiping, "solvecount")' = Left(wiping, "solvecount") BY <1>2 DEF Left
<1>12. \A i \in Items :
          /\ solvecount[i] <= Cardinality(Solvers(i)) => (solvecount[i] <= Cardinality(Solvers(i)))'
          /\ solvecount[i] = Cardinality(Solvers(i)) => (solvecount[i] = Cardinality(Solvers(i)))'
  BY <1>1, <1>4, <1>9
<1>13. Backed'
  <2>1. ASSUME NEW m \in Logins PROVE (points[m] <= Earned(m) \/ DueTo("points", m))'
    BY <1>6, <1>7, <1>8, <1>10 DEF TotalsInv, Backed
  <2>2. ASSUME NEW m \in Logins PROVE (solved[m] <= Cardinality(Banked(m)) \/ DueTo("solved", m))'
    BY <1>6, <1>7, <1>8, <1>10 DEF TotalsInv, Backed
  <2>3. QED BY <1>11, <1>12, <2>1, <2>2 DEF TotalsInv, Backed
<1>14. Exact'
  <2> SUFFICES ASSUME ~torn PROVE Exact' BY <1>2 DEF Exact
  <2>1. ASSUME NEW m \in Logins PROVE (points[m] = Earned(m) \/ DueTo("points", m))'
    BY <1>6, <1>7, <1>8, <1>10 DEF TotalsInv, Exact
  <2>2. ASSUME NEW m \in Logins PROVE (solved[m] = Cardinality(Banked(m)) \/ DueTo("solved", m))'
    BY <1>6, <1>7, <1>8, <1>10 DEF TotalsInv, Exact
  <2>3. ASSUME NEW m \in Logins PROVE (LastOf(m) \/ DueTo("lastAt", m))'
    <3>1. CASE m = l BY <1>6, <1>7, <3>1 DEF LastOf
    <3>2. CASE m # l BY <1>8, <1>10, <3>2 DEF TotalsInv, Exact
    <3>3. QED BY <3>1, <3>2
  <2>4. QED BY <1>1, <1>11, <1>12, <2>1, <2>2, <2>3 DEF TotalsInv, Exact
<1>15. Emptied'
  <2>1. \A m \in Logins : Banked(m) = {} => Banked(m)' = {} BY <1>7, <1>8
  <2>2. QED BY <1>2, <2>1, OfLogins DEF TotalsInv, Emptied, EmptiedBy, Left
<1>16. NoQuizCount' BY <1>1, <1>2 DEF NoQuizCount
<1>17. QED BY <1>13, <1>14, <1>15, <1>16 DEF TotalsInv

\* A reset that starts: what was yet to be deleted still is, and its own totals too.
LEMMA TotalsStart ==
    ASSUME TypesInv, TotalsInv, UNCHANGED <<mod, solves, sums, torn>>,
           \A what \in Summed, m \in Logins : DueTo(what, m) => DueTo(what, m)',
           mod # "quiz" /\ Left(wiping, "solvecount") => Left(wiping, "solvecount")',
           wiping' = wiping \/ Left(wiping, "rows")', clearing' = clearing \/ Left(clearing, "rows")'
    PROVE  TotalsInv'
<1>1. solves' = solves /\ points' = points /\ solved' = solved /\ solvecount' = solvecount /\ lastAt' = lastAt
  BY DEF sums
<1>2. \A l \in Logins : Banked(l)' = Banked(l) /\ Earned(l)' = Earned(l) /\ LastOf(l)' = LastOf(l)
  BY <1>1, RowsAlone
<1>3. \A i \in Items : Solvers(i)' = Solvers(i) BY <1>1 DEF Solvers
<1>4. NoQuizCount' BY <1>1 DEF TotalsInv, NoQuizCount
<1>5. "points" \in Summed /\ "solved" \in Summed /\ "lastAt" \in Summed BY DEF Summed
<1>6. \A i \in Items : (solvecount[i] <= Cardinality(Solvers(i)) \/ Left(wiping, "solvecount"))'
  <2>1. CASE mod # "quiz" BY <1>1, <1>3, <2>1 DEF TotalsInv, Backed
  <2>2. CASE mod = "quiz"
    <3>1. RowsOK BY DEF TypesInv, GraderTypeOK, RowsOK
    <3>2. \A i \in Items : Cardinality(Solvers(i)) \in Nat BY <3>1, SolversFacts
    <3>3. \A i \in Items : solvecount[i] = 0 BY <2>2 DEF TotalsInv, NoQuizCount
    <3>4. QED BY <1>1, <1>3, <3>2, <3>3
  <2>3. QED BY <2>1, <2>2
<1>7. Backed' BY <1>1, <1>2, <1>5, <1>6 DEF TotalsInv, Backed
<1>8. Exact' BY <1>1, <1>2, <1>3, <1>5 DEF TotalsInv, Exact
<1>9. Emptied'
  <2> SUFFICES ASSUME ~torn PROVE EmptiedBy(wiping)' /\ EmptiedBy(clearing)' BY DEF Emptied
  <2>1. EmptiedBy(wiping)' BY <1>2, OfLogins DEF TotalsInv, Emptied, EmptiedBy, Left
  <2>2. EmptiedBy(clearing)' BY <1>2, OfLogins DEF TotalsInv, Emptied, EmptiedBy, Left
  <2>3. QED BY <2>1, <2>2
<1>10. QED BY <1>4, <1>7, <1>8, <1>9 DEF TotalsInv

LEMMA TotalsClear ==
    ASSUME TypesInv, TotalsInv, NEW l \in Logins, ResetAnswers(l)
    PROVE  TotalsInv'
<1>1. /\ mod = "quiz" /\ clearing = <<>>
      /\ UNCHANGED <<mod, solves, sums, torn, wiping>>
      /\ clearing' = [k \in DOMAIN QuizClear |-> [do |-> QuizClear[k], of |-> {l}]]
  BY DEF ResetAnswers, Clearing, event, store, rows
<1>2. \A what, m : DueTo(what, m) => DueTo(what, m)' BY <1>1 DEF DueTo, Due
<1>3. Left(clearing, "rows")'
  <2>1. \E k \in DOMAIN QuizClear : QuizClear[k] = "rows" BY <1>1, ClearStarts
  <2>2. QED BY <1>1, <2>1 DEF Left
<1>4. QED BY <1>1, <1>2, <1>3, TotalsStart

LEMMA TotalsWipe ==
    ASSUME TypesInv, TotalsInv, StartWipe \/ RunWipeAgain
    PROVE  TotalsInv'
<1>1. /\ UNCHANGED <<mod, solves, sums, torn, clearing>>
      /\ wiping' = [k \in DOMAIN WipeOrder |-> [do |-> WipeOrder[k], of |-> Logins]]
  BY DEF StartWipe, RunWipeAgain, event, store, rows
<1>2. \A what \in Summed \union {"rows"} : \E k \in DOMAIN WipeOrder : WipeOrder[k] = what BY WipeStarts
<1>3. \A what \in Summed, m \in Logins : DueTo(what, m)'
  <2> SUFFICES ASSUME NEW what \in Summed, NEW m \in Logins PROVE DueTo(what, m)' OBVIOUS
  <2>1. PICK k \in DOMAIN WipeOrder : WipeOrder[k] = what BY <1>2
  <2>2. k \in DOMAIN wiping' /\ wiping'[k].do = what /\ wiping'[k].of = Logins BY <1>1, <2>1
  <2>3. QED BY <2>2 DEF DueTo, Due
<1>4. \A what \in Summed \union {"rows"} : Left(wiping, what)'
  <2> SUFFICES ASSUME NEW what \in Summed \union {"rows"} PROVE Left(wiping, what)' OBVIOUS
  <2>1. PICK k \in DOMAIN WipeOrder : WipeOrder[k] = what BY <1>2
  <2>2. k \in DOMAIN wiping' /\ wiping'[k].do = what BY <1>1, <2>1
  <2>3. QED BY <2>2 DEF Left
<1>5. mod # "quiz" => "solvecount" \in Summed BY DEF Summed
<1>6. Left(wiping, "rows")' /\ (mod # "quiz" => Left(wiping, "solvecount")') BY <1>4, <1>5
<1>7. QED BY <1>1, <1>3, <1>6, TotalsStart

\* What a queue is yet to do, from its first command and the rest.
LEMMA HeadFacts ==
    ASSUME NEW q, InOrder(q), q # <<>>
    PROVE  /\ \A what, l : Due(q, what, l) => (Head(q).do = what /\ l \in Head(q).of) \/ Due(Tail(q), what, l)
           /\ \A what : Left(q, what) => Head(q).do = what \/ Left(Tail(q), what)
           /\ Head(q).do = "rows" =>
                \A what \in Summed : /\ Left(Tail(q), what)
                                     /\ \A l \in Head(q).of : Due(Tail(q), what, l)
           /\ Head(q).do \in Summed => ~Left(q, "rows")
           /\ \A k \in DOMAIN Tail(q) : Tail(q)[k].of = Head(q).of
           /\ Tail(q) # <<>> => 1 \in DOMAIN Tail(q)
<1>1. /\ Head(q) = q[1] /\ 1 \in DOMAIN q /\ InOrder(Tail(q))
      /\ \A k \in DOMAIN Tail(q) : k + 1 \in DOMAIN q /\ Tail(q)[k] = q[k + 1]
      /\ \A k \in DOMAIN q : k = 1 \/ (k - 1 \in DOMAIN Tail(q) /\ Tail(q)[k - 1] = q[k])
  BY TailFacts
<1>2. q \in Seq(Resets) /\ DOMAIN q = 1..Len(q) /\ Len(q) \in Nat BY DEF InOrder
<1>3. \A k \in DOMAIN Tail(q) : Tail(q)[k].of = Head(q).of BY <1>1 DEF InOrder
<1>4. ASSUME NEW what, NEW l, Due(q, what, l)
      PROVE  (Head(q).do = what /\ l \in Head(q).of) \/ Due(Tail(q), what, l)
  <2>1. PICK k \in DOMAIN q : q[k].do = what /\ l \in q[k].of BY <1>4 DEF Due
  <2>2. QED BY <1>1, <2>1 DEF Due
<1>5. ASSUME NEW what, Left(q, what) PROVE Head(q).do = what \/ Left(Tail(q), what)
  <2>1. PICK k \in DOMAIN q : q[k].do = what BY <1>5 DEF Left
  <2>2. QED BY <1>1, <2>1 DEF Left
<1>6. ASSUME Head(q).do = "rows", NEW what \in Summed
      PROVE  Left(Tail(q), what) /\ \A l \in Head(q).of : Due(Tail(q), what, l)
  <2>1. PICK n \in DOMAIN q : 1 < n /\ q[n].do = what BY <1>1, <1>6 DEF InOrder
  <2>2. n - 1 \in DOMAIN Tail(q) /\ Tail(q)[n - 1] = q[n] BY <1>1, <1>2, <2>1
  <2>3. Tail(q)[n - 1].do = what /\ Tail(q)[n - 1].of = Head(q).of BY <1>3, <2>1, <2>2
  <2>4. QED BY <2>2, <2>3 DEF Left, Due
<1>7. ASSUME Head(q).do \in Summed PROVE ~Left(q, "rows")
  <2> SUFFICES ASSUME NEW k \in DOMAIN q, q[k].do = "rows" PROVE FALSE BY DEF Left
  <2>1. "rows" \notin Summed BY DEF Summed
  <2>2. k # 1 BY <1>1, <1>7, <2>1
  <2>3. 1 < k BY <1>2, <2>2
  <2>4. q[1].do \notin Summed BY <1>1, <2>3 DEF InOrder
  <2>5. QED BY <1>1, <1>7, <2>4
<1>8. Tail(q) # <<>> => 1 \in DOMAIN Tail(q) BY <1>1, TailFacts
<1>9. QED BY <1>3, <1>4, <1>5, <1>6, <1>7, <1>8

\* One command of a reset: rows go while their totals are yet to go, and totals
\* go when no row is left.
LEMMA TotalsCommand ==
    ASSUME TypesInv, TypesInv', TotalsInv, NEW cmd \in Resets, Command(cmd), UNCHANGED <<mod, torn>>,
           \A what, l : DueTo(what, l) => DueTo(what, l)' \/ (cmd.do = what /\ l \in cmd.of),
           cmd.do = "rows" => \A what \in Summed, l \in cmd.of : DueTo(what, l)',
           mod # "quiz" => /\ cmd.of = Logins
                           /\ Left(wiping, "solvecount") => Left(wiping, "solvecount")' \/ cmd.do = "solvecount"
                           /\ cmd.do = "rows" => Left(wiping, "solvecount")',
           ~torn /\ cmd.do \in Summed => \A l \in cmd.of : Banked(l) = {},
           Emptied'
    PROVE  TotalsInv'
<1>1. RowsOK /\ RowsOK' BY DEF TypesInv, GraderTypeOK, RowsOK
<1>2. GraderTypeOK BY DEF TypesInv
<1>3. "points" \in Summed /\ "solved" \in Summed /\ "lastAt" \in Summed
      /\ (mod # "quiz" => "solvecount" \in Summed)
  BY DEF Summed
<1>4. \A l \in Logins : \/ Banked(l)' = Banked(l) /\ Earned(l)' = Earned(l)
                        \/ cmd.do = "rows" /\ l \in cmd.of
  BY <1>2, CommandFacts, RowsAlone
<1>5. \A l \in Logins : Earned(l) \in Nat /\ Cardinality(Banked(l)) \in Nat
                        /\ (Banked(l) = {} => Earned(l) = 0 /\ Cardinality(Banked(l)) = 0)
  BY <1>1, EarnedFacts, RowSums DEF RowsOK, RowType
<1>6. /\ \A l \in Logins : points'[l] = (IF cmd.do = "points" /\ l \in cmd.of THEN 0 ELSE points[l])
      /\ \A l \in Logins : solved'[l] = (IF cmd.do = "solved" /\ l \in cmd.of THEN 0 ELSE solved[l])
      /\ \A l \in Logins : lastAt'[l] = (IF cmd.do = "lastAt" /\ l \in cmd.of THEN NoRow ELSE lastAt[l])
      /\ \A i \in Items : solvecount'[i] = (IF cmd.do = "solvecount" THEN 0 ELSE solvecount[i])
  BY <1>2, CommandFacts
<1>7. NoQuizCount' BY <1>6 DEF TotalsInv, NoQuizCount
<1>8. \A i \in Items : Cardinality(Solvers(i)) \in Nat /\ (Solvers(i) = {} => Cardinality(Solvers(i)) = 0)
  BY <1>1, SolversFacts
<1>9. ASSUME cmd.do # "rows" PROVE \A i \in Items : Solvers(i)' = Solvers(i)
  <2>1. \A l \in Logins : solves'[l] = solves[l] BY <1>2, <1>9, CommandFacts
  <2>2. QED BY <2>1 DEF Solvers
<1>10. ASSUME NEW i \in Items
       PROVE  (solvecount[i] <= Cardinality(Solvers(i)) \/ Left(wiping, "solvecount"))'
  <2>1. CASE mod = "quiz"
    <3>1. solvecount'[i] = 0 BY <1>7, <2>1 DEF NoQuizCount
    <3>2. (Cardinality(Solvers(i)) \in Nat)'
      <4>1. Solvers(i)' \subseteq Logins BY DEF Solvers
      <4>2. IsFiniteSet(Solvers(i)') BY <4>1, GraderAssumption, FS_Subset
      <4>3. QED BY <4>2, FS_CardinalityType
    <3>3. QED BY <3>1, <3>2
  <2>2. CASE mod # "quiz" /\ cmd.do = "rows" BY <2>2
  <2>3. CASE mod # "quiz" /\ cmd.do = "solvecount"
    <3>1. solvecount'[i] = 0 /\ Solvers(i)' = Solvers(i) BY <1>6, <1>9, <2>3
    <3>2. QED BY <1>8, <3>1
  <2>4. CASE mod # "quiz" /\ cmd.do # "rows" /\ cmd.do # "solvecount"
    <3>1. solvecount'[i] = solvecount[i] /\ Solvers(i)' = Solvers(i) BY <1>6, <1>9, <2>4
    <3>2. QED BY <2>4, <3>1 DEF TotalsInv, Backed
  <2>5. QED BY <2>1, <2>2, <2>3, <2>4
<1>11. Backed'
  <2>1. ASSUME NEW l \in Logins PROVE (points[l] <= Earned(l) \/ DueTo("points", l))'
    <3>1. points[l] <= Earned(l) \/ DueTo("points", l) BY DEF TotalsInv, Backed
    <3>2. CASE cmd.do = "rows" /\ l \in cmd.of BY <1>3, <3>2
    <3>3. CASE cmd.do = "points" /\ l \in cmd.of BY <1>4, <1>5, <1>6, <3>3
    <3>4. CASE ~(cmd.do = "rows" /\ l \in cmd.of) /\ ~(cmd.do = "points" /\ l \in cmd.of)
      BY <1>4, <1>6, <3>1, <3>4
    <3>5. QED BY <3>2, <3>3, <3>4
  <2>2. ASSUME NEW l \in Logins PROVE (solved[l] <= Cardinality(Banked(l)) \/ DueTo("solved", l))'
    <3>1. solved[l] <= Cardinality(Banked(l)) \/ DueTo("solved", l) BY DEF TotalsInv, Backed
    <3>2. CASE cmd.do = "rows" /\ l \in cmd.of BY <1>3, <3>2
    <3>3. CASE cmd.do = "solved" /\ l \in cmd.of BY <1>4, <1>5, <1>6, <3>3
    <3>4. CASE ~(cmd.do = "rows" /\ l \in cmd.of) /\ ~(cmd.do = "solved" /\ l \in cmd.of)
      BY <1>4, <1>6, <3>1, <3>4
    <3>5. QED BY <3>2, <3>3, <3>4
  <2>3. QED BY <1>10, <2>1, <2>2 DEF Backed
<1>12. Exact'
  <2> SUFFICES ASSUME ~torn
               PROVE  /\ \A l \in Logins : (points[l] = Earned(l) \/ DueTo("points", l))'
                      /\ \A l \in Logins : (solved[l] = Cardinality(Banked(l)) \/ DueTo("solved", l))'
                      /\ \A l \in Logins : (LastOf(l) \/ DueTo("lastAt", l))'
                      /\ mod # "quiz" =>
                           \A i \in Items : (solvecount[i] = Cardinality(Solvers(i)) \/ Left(wiping, "solvecount"))'
    BY DEF Exact
  <2>1. ASSUME NEW l \in Logins PROVE (points[l] = Earned(l) \/ DueTo("points", l))'
    <3>1. points[l] = Earned(l) \/ DueTo("points", l) BY DEF TotalsInv, Exact
    <3>2. CASE cmd.do = "rows" /\ l \in cmd.of BY <1>3, <3>2
    <3>3. CASE cmd.do = "points" /\ l \in cmd.of
      <4>1. Banked(l) = {} BY <1>3, <3>3
      <4>2. QED BY <1>4, <1>5, <1>6, <3>3, <4>1
    <3>4. CASE ~(cmd.do = "rows" /\ l \in cmd.of) /\ ~(cmd.do = "points" /\ l \in cmd.of)
      BY <1>4, <1>6, <3>1, <3>4
    <3>5. QED BY <3>2, <3>3, <3>4
  <2>2. ASSUME NEW l \in Logins PROVE (solved[l] = Cardinality(Banked(l)) \/ DueTo("solved", l))'
    <3>1. solved[l] = Cardinality(Banked(l)) \/ DueTo("solved", l) BY DEF TotalsInv, Exact
    <3>2. CASE cmd.do = "rows" /\ l \in cmd.of BY <1>3, <3>2
    <3>3. CASE cmd.do = "solved" /\ l \in cmd.of
      <4>1. Banked(l) = {} BY <1>3, <3>3
      <4>2. QED BY <1>4, <1>5, <1>6, <3>3, <4>1
    <3>4. CASE ~(cmd.do = "rows" /\ l \in cmd.of) /\ ~(cmd.do = "solved" /\ l \in cmd.of)
      BY <1>4, <1>6, <3>1, <3>4
    <3>5. QED BY <3>2, <3>3, <3>4
  <2>3. ASSUME NEW l \in Logins PROVE (LastOf(l) \/ DueTo("lastAt", l))'
    <3>1. LastOf(l) \/ DueTo("lastAt", l) BY DEF TotalsInv, Exact
    <3>2. CASE cmd.do = "rows" /\ l \in cmd.of BY <1>3, <3>2
    <3>3. CASE cmd.do = "lastAt" /\ l \in cmd.of
      <4>1. Banked(l) = {} BY <1>3, <3>3
      <4>2. Banked(l)' = {} /\ lastAt'[l] = NoRow BY <1>4, <1>6, <3>3, <4>1
      <4>3. QED BY <4>2 DEF LastOf
    <3>4. CASE ~(cmd.do = "rows" /\ l \in cmd.of) /\ ~(cmd.do = "lastAt" /\ l \in cmd.of)
      <4>1. solves'[l] = solves[l] /\ lastAt'[l] = lastAt[l] BY <1>2, <3>4, CommandFacts
      <4>2. LastOf(l)' = LastOf(l) BY <4>1, RowsAlone
      <4>3. QED BY <3>1, <3>4, <4>2
    <3>5. QED BY <3>2, <3>3, <3>4
  <2>4. ASSUME NEW i \in Items, mod # "quiz"
        PROVE  (solvecount[i] = Cardinality(Solvers(i)) \/ Left(wiping, "solvecount"))'
    <3>1. solvecount[i] = Cardinality(Solvers(i)) \/ Left(wiping, "solvecount")
      BY <2>4 DEF TotalsInv, Exact
    <3>2. CASE cmd.do = "rows" BY <2>4, <3>2
    <3>3. CASE cmd.do = "solvecount"
      <4>1. \A l \in Logins : Banked(l) = {} BY <1>3, <2>4, <3>3
      <4>2. Solvers(i) = {} BY <4>1 DEF Solvers, Banked
      <4>3. QED BY <1>6, <1>8, <1>9, <3>3, <4>2
    <3>4. CASE cmd.do # "rows" /\ cmd.do # "solvecount"
      BY <1>6, <1>9, <2>4, <3>1, <3>4
    <3>5. QED BY <3>2, <3>3, <3>4
  <2>5. QED BY <2>1, <2>2, <2>3, <2>4
<1>13. QED BY <1>7, <1>11, <1>12 DEF TotalsInv

\* Rows that are gone stay gone while a reset runs.
LEMMA CommandEmpties ==
    ASSUME GraderTypeOK, NEW cmd \in Resets, Command(cmd), NEW l \in Logins
    PROVE  /\ Banked(l) = {} => Banked(l)' = {}
           /\ cmd.do = "rows" /\ l \in cmd.of => Banked(l)' = {}
BY CommandFacts, RowsAlone, RowsGone

LEMMA TotalsQueue ==
    ASSUME TypesInv, TypesInv', TotalsInv, RunClear \/ RunWipe
    PROVE  TotalsInv'
<1>1. InOrder(wiping) /\ InOrder(clearing) /\ GraderTypeOK BY DEF TypesInv, Shapes
<1>3. UNCHANGED <<mod, torn>> BY DEF RunClear, RunWipe
<1>4. CASE RunClear
  <2>1. clearing # <<>> /\ Command(Head(clearing)) /\ clearing' = Tail(clearing) /\ wiping' = wiping
    BY <1>4 DEF RunClear, Clearing
  <2>2. mod = "quiz" BY <2>1 DEF TypesInv, Shapes
  <2>3. PICK cmd \in Resets : cmd = Head(clearing) /\ cmd = clearing[1] BY <1>1, <2>1, TailFacts
  <2>4. \A what, l : DueTo(what, l) => DueTo(what, l)' \/ (cmd.do = what /\ l \in cmd.of)
    <3>1. \A what, l : Due(clearing, what, l) => (cmd.do = what /\ l \in cmd.of) \/ Due(Tail(clearing), what, l)
      BY <1>1, <2>1, <2>3, HeadFacts
    <3>2. QED BY <2>1, <3>1 DEF DueTo, Due
  <2>5. cmd.do = "rows" => \A what \in Summed, l \in cmd.of : DueTo(what, l)'
    <3>1. cmd.do = "rows" => \A what \in Summed, l \in cmd.of : Due(Tail(clearing), what, l)
      BY <1>1, <2>1, <2>3, HeadFacts
    <3>2. QED BY <2>1, <3>1 DEF DueTo, Due
  <2>6. ~torn /\ cmd.do \in Summed => \A l \in cmd.of : Banked(l) = {}
    <3>1. cmd.do \in Summed => ~Left(clearing, "rows") BY <1>1, <2>1, <2>3, HeadFacts
    <3>2. QED BY <2>1, <2>3, <3>1 DEF TotalsInv, Emptied, EmptiedBy
  <2>7. Command(cmd) BY <2>1, <2>3
  <2>8. Emptied'
    <3> SUFFICES ASSUME ~torn PROVE EmptiedBy(wiping)' /\ EmptiedBy(clearing)' BY <1>3 DEF Emptied
    <3>1. EmptiedBy(wiping) /\ EmptiedBy(clearing) BY DEF TotalsInv, Emptied
    <3>2. \A l \in Logins : Banked(l) = {} => Banked(l)' = {} BY <1>1, <2>7, CommandEmpties
    <3>3. EmptiedBy(wiping)' BY <2>1, <3>1, <3>2, OfLogins DEF EmptiedBy, Left
    <3>4. EmptiedBy(clearing)'
      <4> SUFFICES ASSUME clearing' # <<>>, ~Left(clearing, "rows")'
                   PROVE  \A l \in clearing'[1].of : Banked(l)' = {}
        BY DEF EmptiedBy
      <4>1. ~Left(Tail(clearing), "rows") BY <2>1 DEF Left
      <4>2. clearing'[1].of = cmd.of /\ cmd.of \subseteq Logins
        BY <1>1, <2>1, <2>3, HeadFacts, OfLogins
      <4>3. CASE cmd.do = "rows" BY <1>1, <2>7, <4>2, <4>3, CommandEmpties
      <4>4. CASE cmd.do # "rows"
        <5>1. ~Left(clearing, "rows") BY <1>1, <2>1, <2>3, <4>1, <4>4, HeadFacts
        <5>2. \A l \in cmd.of : Banked(l) = {} BY <2>1, <2>3, <3>1, <5>1 DEF EmptiedBy
        <5>3. QED BY <3>2, <4>2, <5>2
      <4>5. QED BY <4>3, <4>4
    <3>5. QED BY <3>3, <3>4
  <2>9. QED BY <1>3, <2>2, <2>4, <2>5, <2>6, <2>7, <2>8, TotalsCommand
<1>5. CASE RunWipe
  <2>1. wiping # <<>> /\ Command(Head(wiping)) /\ wiping' = Tail(wiping) /\ clearing' = clearing
    BY <1>5 DEF RunWipe, Wiping
  <2>2. PICK cmd \in Resets : cmd = Head(wiping) /\ cmd = wiping[1] BY <1>1, <2>1, TailFacts
  <2>3. cmd.of = Logins BY <2>1, <2>2, OfLogins
  <2>4. \A what, l : DueTo(what, l) => DueTo(what, l)' \/ (cmd.do = what /\ l \in cmd.of)
    <3>1. \A what, l : Due(wiping, what, l) => (cmd.do = what /\ l \in cmd.of) \/ Due(Tail(wiping), what, l)
      BY <1>1, <2>1, <2>2, HeadFacts
    <3>2. QED BY <2>1, <3>1 DEF DueTo, Due
  <2>5. cmd.do = "rows" => \A what \in Summed : /\ \A l \in cmd.of : DueTo(what, l)'
                                                /\ Left(wiping, what)'
    <3>1. cmd.do = "rows" => \A what \in Summed : /\ \A l \in cmd.of : Due(Tail(wiping), what, l)
                                                  /\ Left(Tail(wiping), what)
      BY <1>1, <2>1, <2>2, HeadFacts
    <3>2. QED BY <2>1, <3>1 DEF DueTo, Due, Left
  <2>6. ~torn /\ cmd.do \in Summed => \A l \in cmd.of : Banked(l) = {}
    <3>1. cmd.do \in Summed => ~Left(wiping, "rows") BY <1>1, <2>1, <2>2, HeadFacts
    <3>2. QED BY <2>1, <2>2, <3>1 DEF TotalsInv, Emptied, EmptiedBy
  <2>7. Command(cmd) BY <2>1, <2>2
  <2>8. Emptied'
    <3> SUFFICES ASSUME ~torn PROVE EmptiedBy(wiping)' /\ EmptiedBy(clearing)' BY <1>3 DEF Emptied
    <3>1. EmptiedBy(wiping) /\ EmptiedBy(clearing) BY DEF TotalsInv, Emptied
    <3>2. \A l \in Logins : Banked(l) = {} => Banked(l)' = {} BY <1>1, <2>7, CommandEmpties
    <3>3. EmptiedBy(clearing)' BY <2>1, <3>1, <3>2, OfLogins DEF EmptiedBy, Left
    <3>4. EmptiedBy(wiping)'
      <4> SUFFICES ASSUME wiping' # <<>>, ~Left(wiping, "rows")'
                   PROVE  \A l \in wiping'[1].of : Banked(l)' = {}
        BY DEF EmptiedBy
      <4>1. ~Left(Tail(wiping), "rows") BY <2>1 DEF Left
      <4>2. wiping'[1].of = cmd.of BY <1>1, <2>1, <2>2, HeadFacts
      <4>3. CASE cmd.do = "rows" BY <1>1, <2>3, <2>7, <4>2, <4>3, CommandEmpties
      <4>4. CASE cmd.do # "rows"
        <5>1. ~Left(wiping, "rows") BY <1>1, <2>1, <2>2, <4>1, <4>4, HeadFacts
        <5>2. \A l \in cmd.of : Banked(l) = {} BY <2>1, <2>2, <3>1, <5>1 DEF EmptiedBy
        <5>3. QED BY <2>3, <3>2, <4>2, <5>2
      <4>5. QED BY <4>3, <4>4
    <3>5. QED BY <3>3, <3>4
  <2>9. mod # "quiz" =>
          /\ cmd.of = Logins
          /\ Left(wiping, "solvecount") => Left(wiping, "solvecount")' \/ cmd.do = "solvecount"
          /\ cmd.do = "rows" => Left(wiping, "solvecount")'
    <3>1. Left(wiping, "solvecount") => Left(Tail(wiping), "solvecount") \/ cmd.do = "solvecount"
      BY <1>1, <2>1, <2>2, HeadFacts
    <3>2. Left(wiping, "solvecount") => Left(wiping, "solvecount")' \/ cmd.do = "solvecount"
      BY <2>1, <3>1 DEF Left
    <3>3. mod # "quiz" => "solvecount" \in Summed BY DEF Summed
    <3>4. QED BY <2>3, <2>5, <3>2, <3>3
  <2>10. cmd.do = "rows" => \A what \in Summed, l \in cmd.of : DueTo(what, l)' BY <2>5
  <2>11. QED BY <1>3, <2>4, <2>6, <2>7, <2>8, <2>9, <2>10, TotalsCommand
<1>6. QED BY <1>4, <1>5

\* The steps that leave the rows, the totals and the resets alone.
LEMMA StepKinds ==
    ASSUME [GraderNext]_graderVars
    PROVE  \/ UNCHANGED <<mod, solves, attempts, sums, torn, wiping, clearing>>
           \/ \E s \in Slots : RunScript(s)
           \/ \E l \in Logins : ResetSolves(l) \/ ResetAnswers(l)
           \/ StartWipe \/ RunWipeAgain \/ RunClear \/ RunWipe
<1> DEFINE Kept == UNCHANGED <<mod, solves, attempts, sums, torn, wiping, clearing>>
<1>1. ASSUME NEW s \in Slots, NEW sub \in left.subs, Arrive(s, sub) PROVE Kept
  BY <1>1 DEF Arrive, event, store, rows, jobs
<1>2. ASSUME NEW s \in Slots, Gate(s) \/ Story(s) \/ RequestFails(s) PROVE Kept
  BY <1>2 DEF Gate, Story, RequestFails, event, store, rows, jobs
<1>3. ASSUME NEW new \in Settings, SaveSettings(new) PROVE Kept
  BY <1>3 DEF SaveSettings, store, rows, jobs
<1>4. ASSUME NEW i \in Items, Delete(i) \/ \E new \in Records, form \in Forms : Upsert(i, new, form)
      PROVE  Kept
  BY <1>4 DEF Delete, Upsert, event, store, rows
<1>5. ASSUME NEW l \in Logins, NEW to \in Teams, ChangeTeam(l, to) PROVE Kept
  BY <1>5 DEF ChangeTeam, event, store, rows, jobs
<1>6. RunAuthoring => Kept BY DEF RunAuthoring, event, store, rows
<1>7. Tick => Kept BY DEF Tick, store, rows, jobs
<1>8. UNCHANGED graderVars => Kept BY DEF graderVars, event, store, rows, jobs
<1> HIDE DEF Kept
<1>9. Kept \/ (\E s \in Slots : RunScript(s)) \/ (\E l \in Logins : ResetSolves(l) \/ ResetAnswers(l))
           \/ StartWipe \/ RunWipeAgain \/ RunClear \/ RunWipe
  BY <1>1, <1>2, <1>3, <1>4, <1>5, <1>6, <1>7, <1>8 DEF GraderNext
<1>10. QED BY <1>9 DEF Kept

LEMMA TotalsNext == TypesInv /\ TotalsInv /\ [GraderNext]_graderVars => TotalsInv'
<1> SUFFICES ASSUME TypesInv, TotalsInv, [GraderNext]_graderVars PROVE TotalsInv' OBVIOUS
<1>1. TypesInv' BY GraderNextTypes
<1>2. CASE UNCHANGED <<mod, solves, attempts, sums, torn, wiping, clearing>> BY <1>2, TotalsKept
<1>3. ASSUME NEW s \in Slots, RunScript(s) PROVE TotalsInv' BY <1>1, <1>3, TotalsScript
<1>4. ASSUME NEW l \in Logins, ResetSolves(l) PROVE TotalsInv' BY <1>1, <1>4, TotalsReset
<1>5. ASSUME NEW l \in Logins, ResetAnswers(l) PROVE TotalsInv' BY <1>5, TotalsClear
<1>6. CASE StartWipe \/ RunWipeAgain BY <1>6, TotalsWipe
<1>7. CASE RunClear \/ RunWipe BY <1>1, <1>7, TotalsQueue
<1>8. QED BY <1>2, <1>3, <1>4, <1>5, <1>6, <1>7, StepKinds

LEMMA TotalsImply == TypesInv /\ TotalsInv => GraderInv
<1> SUFFICES ASSUME TypesInv, TotalsInv PROVE TotalsBacked /\ TotalsExact BY DEF TypesInv, GraderInv
<1>1. ASSUME AtRest PROVE (\A what, l : ~DueTo(what, l)) /\ ~Left(wiping, "solvecount")
  BY <1>1 DEF AtRest, Wiping, Clearing, DueTo, Due, Left
<1>2. TotalsBacked BY <1>1 DEF TotalsBacked, TotalsInv, Backed
<1>3. TotalsExact
  <2> SUFFICES ASSUME AtRest, ~torn
               PROVE  /\ \A l \in Logins : points[l] = Earned(l) /\ solved[l] = Cardinality(Banked(l)) /\ LastOf(l)
                      /\ mod # "quiz" => \A i \in Items : solvecount[i] = Cardinality(Solvers(i))
    BY DEF TotalsExact, LastOf
  <2>1. QED BY <1>1 DEF TotalsInv, Exact
<1>4. QED BY <1>2, <1>3

\* Every key holds what its parser accepts, and every request in flight what
\* its handler read (GraderTypeOK), whatever the interleaving.
THEOREM GraderTypes == GraderSpec => []GraderTypeOK
<1>1. GraderSpec => []TypesInv BY GraderInitTypes, GraderNextTypes, PTL DEF GraderSpec
<1>2. TypesInv => GraderTypeOK BY DEF TypesInv
<1>3. QED BY <1>1, <1>2, PTL

\* At rest no total counts more than the rows behind it, and where no award
\* fell amid a reset, every total is exactly its rows (GraderInv).
THEOREM TotalsAreBacked == GraderSpec => []GraderInv
<1>1. GraderInit => TypesInv /\ TotalsInv BY GraderInitTypes, TotalsInit
<1>2. (TypesInv /\ TotalsInv) /\ [GraderNext]_graderVars => (TypesInv /\ TotalsInv)'
  BY GraderNextTypes, TotalsNext
<1>3. QED BY <1>1, <1>2, TotalsImply, PTL DEF GraderSpec
-----------------------------------------------------------------------------
(***************************************************************************)
(* Attempts.                                                                *)
(***************************************************************************)
LEMMA LargestFacts == \A s \in Limits : s.cap <= LargestCap /\ LargestCap \in Nat
<1> DEFINE caps == {s.cap : s \in Limits}
<1>1. IsFiniteSet(caps)
  <2> DEFINE f == [s \in Limits |-> s.cap]
  <2>1. f \in Surjection(Limits, caps) BY DEF Surjection
  <2> HIDE DEF f, caps
  <2>2. QED BY <2>1, LimitFacts, FS_Surjection
<1>2. caps # {} /\ \A c \in caps : c \in Nat /\ c \in Int BY LimitFacts
<1>3. PICK c \in caps : \A d \in caps : d <= c
  <2> HIDE DEF caps
  <2>1. QED BY <1>1, <1>2, Largest
<1>4. \A s \in Limits : s.cap <= c BY <1>3
<1>5. LargestCap \in caps /\ \A s \in Limits : s.cap <= LargestCap
  BY <1>4 DEF LargestCap
<1>6. QED BY <1>2, <1>5

\* What a step does to an attempt: nothing, its deletion, or one more by a
\* script that saw it neither exhausted nor cooling.
LEMMA AttemptSteps ==
    ASSUME TypesInv, [GraderNext]_graderVars, NEW l \in Logins, NEW i \in Items,
           attempts'[l][i] # attempts[l][i], attempts'[l][i] # NoRow
    PROVE  \E r \in Requests :
              /\ r.login = l /\ r.item = i /\ Limited(r) /\ ~r.event
              /\ attempts'[l][i] = [n |-> Tries(r) + 1, lastAt |-> r.now]
              /\ ~Cooling(r, r.now) /\ (mod = "quiz" => ~Exhausted(r))
<1>1. CASE UNCHANGED <<mod, solves, attempts, sums, torn, wiping, clearing>> BY <1>1
<1>2. ASSUME NEW s \in Slots, RunScript(s)
      PROVE  \E r \in Requests :
                /\ r.login = l /\ r.item = i /\ Limited(r) /\ ~r.event
                /\ attempts'[l][i] = [n |-> Tries(r) + 1, lastAt |-> r.now]
                /\ ~Cooling(r, r.now) /\ (mod = "quiz" => ~Exhausted(r))
  <2>1. PICK r \in Requests : r = req[s] BY <1>2, ScriptFacts
  <2>2. Limited(r) /\ SpendAttempt(r, Verdict(r)) BY <1>2, <2>1, ScriptFacts
  <2>3. r.login = l /\ r.item = i BY <2>2, SpendFacts
  <2>4. /\ Verdict(r) \in {"correct", "incorrect"} /\ ~r.dry /\ ~r.event
        /\ attempts'[l][i] = [n |-> Tries(r) + 1, lastAt |-> r.now]
    BY <2>2, <2>3, SpendFacts
  <2>5. ~Cooling(r, r.now) /\ (mod = "quiz" => ~Exhausted(r)) BY <1>2, <2>1, <2>4, ScriptFacts
  <2>6. QED BY <2>2, <2>3, <2>4, <2>5
<1>3. ASSUME NEW m \in Logins, ResetSolves(m) PROVE FALSE
  <2>1. attempts' = [attempts EXCEPT ![m] = [j \in Items |-> NoRow]] BY <1>3 DEF ResetSolves
  <2>2. QED BY <2>1 DEF TypesInv, GraderTypeOK
<1>4. ASSUME NEW m \in Logins, ResetAnswers(m) PROVE FALSE BY <1>4 DEF ResetAnswers, store, rows
<1>5. CASE StartWipe \/ RunWipeAgain BY <1>5 DEF StartWipe, RunWipeAgain, store, rows
<1>6. CASE RunClear \/ RunWipe
  <2>1. PICK cmd \in Resets : Command(cmd)
    BY <1>6, TailFacts DEF TypesInv, Shapes, RunClear, RunWipe, Clearing, Wiping
  <2>2. attempts'[l] = [j \in Items |-> NoRow] \/ attempts'[l] = attempts[l]
    BY <2>1, CommandFacts DEF TypesInv
  <2>3. QED BY <2>2
<1>7. QED BY <1>1, <1>2, <1>3, <1>4, <1>5, <1>6, StepKinds

LEMMA WithinCapNext == TypesInv /\ AttemptsWithinCap /\ [GraderNext]_graderVars => AttemptsWithinCap'
<1> SUFFICES ASSUME TypesInv, AttemptsWithinCap, [GraderNext]_graderVars,
                    mod' = "quiz", \A s \in Limits : s.cap > 0,
                    NEW l \in Logins, NEW i \in Items, attempts'[l][i] # NoRow
             PROVE  attempts'[l][i].n <= LargestCap
  BY DEF AttemptsWithinCap
<1>1. mod = "quiz"
  <2>1. mod' = mod
    <3>1. ASSUME NEW s \in Slots, RunScript(s) PROVE mod' = mod BY <3>1 DEF RunScript, event
    <3>2. ASSUME NEW m \in Logins, ResetSolves(m) \/ ResetAnswers(m) PROVE mod' = mod
      BY <3>2 DEF ResetSolves, ResetAnswers, event
    <3>3. StartWipe \/ RunWipeAgain \/ RunClear \/ RunWipe => mod' = mod
      BY DEF StartWipe, RunWipeAgain, RunClear, RunWipe, event
    <3>4. QED BY <3>1, <3>2, <3>3, StepKinds
  <2>2. QED BY <2>1
<1>2. CASE attempts'[l][i] = attempts[l][i] BY <1>1, <1>2 DEF AttemptsWithinCap
<1>3. CASE attempts'[l][i] # attempts[l][i]
  <2>1. PICK r \in Requests :
              /\ r.login = l /\ r.item = i /\ Limited(r)
              /\ attempts'[l][i] = [n |-> Tries(r) + 1, lastAt |-> r.now]
              /\ ~Exhausted(r)
    BY <1>1, <1>3, AttemptSteps
  <2>2. PICK s \in Limits : r.cap = s.cap BY <1>1, <2>1 DEF Limited
  <2>3. Tries(r) \in Nat
    BY <2>1 DEF Tries, TypesInv, GraderTypeOK, Spent
  <2>4. r.cap \in Nat /\ r.cap > 0 /\ r.cap <= LargestCap /\ LargestCap \in Nat
    BY <2>2, LargestFacts, LimitFacts
  <2>5. Tries(r) < r.cap BY <2>1, <2>3, <2>4 DEF Exhausted
  <2>6. QED BY <2>1, <2>3, <2>4, <2>5
<1>4. QED BY <1>2, <1>3

\* However many requests read the rows before any script ran, a contestant
\* spends no more attempts than the largest cap, and no two graded attempts
\* are closer than a cooldown (AttemptsMetered).
THEOREM AttemptsAreMetered == GraderSpec => AttemptsMetered
<1>1. GraderSpec => []TypesInv BY GraderInitTypes, GraderNextTypes, PTL DEF GraderSpec
<1>2. GraderInit => AttemptsWithinCap BY DEF GraderInit, AttemptsWithinCap
<1>3. GraderSpec => []AttemptsWithinCap BY <1>1, <1>2, WithinCapNext, PTL DEF GraderSpec
<1> DEFINE Spaced ==
      \A l \in Logins, i \in Items :
          /\ \A s \in Limits : s.cooldown > 0
          /\ attempts[l][i] # NoRow /\ attempts'[l][i] # NoRow
          /\ attempts'[l][i] # attempts[l][i]
          => \E s \in Limits : attempts'[l][i].lastAt >= attempts[l][i].lastAt + s.cooldown
<1>4. TypesInv /\ [GraderNext]_graderVars => Spaced
  <2> SUFFICES ASSUME TypesInv, [GraderNext]_graderVars, NEW l \in Logins, NEW i \in Items,
                      \A s \in Limits : s.cooldown > 0,
                      attempts[l][i] # NoRow, attempts'[l][i] # NoRow, attempts'[l][i] # attempts[l][i]
               PROVE  \E s \in Limits : attempts'[l][i].lastAt >= attempts[l][i].lastAt + s.cooldown
    OBVIOUS
  <2>1. PICK r \in Requests :
              /\ r.login = l /\ r.item = i /\ Limited(r) /\ ~r.event
              /\ attempts'[l][i] = [n |-> Tries(r) + 1, lastAt |-> r.now]
              /\ ~Cooling(r, r.now)
    BY AttemptSteps
  <2>2. PICK s \in Limits : r.cooldown = s.cooldown BY <2>1 DEF Limited
  <2>3. attempts[l][i] \in Spent /\ attempts[l][i].n > 0 BY DEF TypesInv, GraderTypeOK, Shapes
  <2>4. Tries(r) > 0 /\ s.cooldown > 0 /\ s.cooldown \in Nat BY <2>1, <2>3, LimitFacts DEF Tries
  <2>5. ~(r.now < attempts[l][i].lastAt + s.cooldown) BY <2>1, <2>2, <2>4 DEF Cooling
  <2>6. r.now \in Nat /\ attempts[l][i].lastAt \in Nat BY <2>1, <2>3 DEF Requests, Spent
  <2>7. r.now >= attempts[l][i].lastAt + s.cooldown BY <2>4, <2>5, <2>6
  <2>8. QED BY <2>1, <2>7
<1>5. GraderSpec => [][Spaced]_graderVars BY <1>1, <1>4, PTL DEF GraderSpec
<1>6. QED BY <1>3, <1>5 DEF AttemptsMetered, AttemptsSpaced
-----------------------------------------------------------------------------
(***************************************************************************)
(* The story.                                                               *)
(***************************************************************************)
\* While nothing is shifted, the roster and the catalogue are as they were.
LEMMA ShiftFacts ==
    ASSUME TypesInv, [GraderNext]_graderVars, ~shifted'
    PROVE  ~shifted /\ record' = record /\ team' = team /\ mod' = mod
<1> DEFINE Same == ~shifted /\ record' = record /\ team' = team /\ mod' = mod
<1>1. ASSUME NEW s \in Slots, NEW sub \in left.subs, Arrive(s, sub) PROVE Same
  BY <1>1 DEF Arrive, event, board
<1>2. ASSUME NEW s \in Slots, Gate(s) \/ Story(s) \/ RunScript(s) \/ RequestFails(s) PROVE Same
  BY <1>2 DEF Gate, Story, RunScript, RequestFails, event, board
<1>3. ASSUME NEW new \in Settings, SaveSettings(new) PROVE Same BY <1>3 DEF SaveSettings, board
<1>4. ASSUME NEW i \in Items, Delete(i) \/ \E new \in Records, form \in Forms : Upsert(i, new, form)
      PROVE  Same
  BY <1>4 DEF Delete, Upsert, event, board
<1>5. ASSUME NEW l \in Logins, ResetSolves(l) \/ ResetAnswers(l) PROVE Same
  BY <1>5 DEF ResetSolves, ResetAnswers, event, board
<1>6. ASSUME NEW l \in Logins, NEW to \in Teams, ChangeTeam(l, to) PROVE Same BY <1>6 DEF ChangeTeam
<1>7. RunAuthoring => Same BY DEF RunAuthoring
<1>8. StartWipe \/ RunWipeAgain => Same BY DEF StartWipe, RunWipeAgain, event, board
<1>9. ASSUME RunClear \/ RunWipe PROVE Same
  <2>1. PICK cmd \in Resets : Command(cmd)
    BY <1>9, TailFacts DEF TypesInv, Shapes, RunClear, RunWipe, Clearing, Wiping
  <2>2. cmd.do = "users" => shifted' BY <2>1 DEF Command
  <2>3. team' = team /\ shifted' = shifted BY <2>1, <2>2, CommandFacts DEF TypesInv
  <2>4. QED BY <1>9, <2>3 DEF RunClear, RunWipe, board
<1>10. Tick => Same BY DEF Tick, board
<1>11. UNCHANGED graderVars => Same BY DEF graderVars, event, board
<1> HIDE DEF Same
<1>12. Same
  BY <1>1, <1>2, <1>3, <1>4, <1>5, <1>6, <1>7, <1>8, <1>9, <1>10, <1>11 DEF GraderNext
<1>13. QED BY <1>12 DEF Same

\* What a request becomes in a step.
LEMMA RequestSteps ==
    ASSUME TypesInv, [GraderNext]_graderVars, NEW s \in Slots, req'[s] # Nothing, req'[s].phase = "script",
           mod = "classic"
    PROVE  \/ req'[s] = req[s]
           \/ /\ Story(s) /\ req[s] \in Requests
              /\ req'[s].login = req[s].login /\ req'[s].item = req[s].item
              /\ req'[s].prereq = StepBefore(req[s].item)
              /\ req'[s].prereq # NoRow => /\ req'[s].crew = team[req[s].login].slug
                                           /\ req'[s].mates = Mates(req[s].login)
<1> DEFINE Told == /\ Story(s) /\ req[s] \in Requests
                   /\ req'[s].login = req[s].login /\ req'[s].item = req[s].item
                   /\ req'[s].prereq = StepBefore(req[s].item)
                   /\ req'[s].prereq # NoRow => /\ req'[s].crew = team[req[s].login].slug
                                                /\ req'[s].mates = Mates(req[s].login)
<1>0. req \in [Slots -> Requests \union {Nothing}] BY DEF TypesInv, GraderTypeOK
<1>1. ASSUME NEW t \in Slots, NEW sub \in left.subs, Arrive(t, sub) PROVE req'[s] = req[s]
  <2>1. t = s => req'[s].phase = "gate" BY <1>0, <1>1 DEF Arrive
  <2>2. QED BY <1>0, <1>1, <2>1 DEF Arrive
<1>2. ASSUME NEW t \in Slots, Gate(t) PROVE req'[s] = req[s]
  <2>1. ClassicGate(t) BY <1>2 DEF Gate, QuizGate, AiGate
  <2>2. req[t] \in Requests BY <1>0, <1>2 DEF Gate
  <2>3. t = s => req'[s].phase = "story" BY <1>0, <2>1, <2>2 DEF ClassicGate, Requests
  <2>4. QED BY <1>0, <2>1, <2>3 DEF ClassicGate
<1>3. ASSUME NEW t \in Slots, RunScript(t) \/ RequestFails(t) PROVE req'[s] = req[s]
  BY <1>0, <1>3 DEF RunScript, RequestFails, Refuse
<1>4. ASSUME NEW t \in Slots, Story(t) PROVE req'[s] = req[s] \/ Told
  <2>1. CASE Refuse(t) BY <1>0, <2>1 DEF Refuse
  <2>2. CASE t # s /\ ~Refuse(t) BY <1>0, <1>4, <2>2 DEF Story
  <2>3. CASE t = s /\ ~Refuse(t)
    <3> DEFINE prereq == StepBefore(req[s].item)
               crew == IF prereq = NoRow THEN NoTeam ELSE team[req[s].login].slug
               mates == IF prereq = NoRow THEN {} ELSE Mates(req[s].login)
    <3>1. req' = [req EXCEPT ![s] = [@ EXCEPT !.phase = "script", !.now = clock, !.prereq = prereq,
                                             !.crew = crew, !.mates = mates]]
      BY <1>4, <2>3 DEF Story
    <3>2. req[s] \in Requests BY <1>0, <1>4, <2>3 DEF Story
    <3> HIDE DEF prereq, crew, mates
    <3>3. /\ req'[s].login = req[s].login /\ req'[s].item = req[s].item
          /\ req'[s].prereq = prereq /\ req'[s].crew = crew /\ req'[s].mates = mates
      BY <1>0, <3>1, <3>2 DEF Requests
    <3>4. QED BY <1>4, <2>3, <3>2, <3>3 DEF prereq, crew, mates
  <2>4. QED BY <2>1, <2>2, <2>3
<1>5. ASSUME NEW l \in Logins, ResetSolves(l) \/ ResetAnswers(l) PROVE req'[s] = req[s]
  BY <1>5 DEF ResetSolves, ResetAnswers
<1>6. ASSUME NEW l \in Logins, NEW to \in Teams, ChangeTeam(l, to) PROVE req'[s] = req[s] BY <1>6 DEF ChangeTeam
<1>7. ASSUME NEW new \in Settings, SaveSettings(new) PROVE req'[s] = req[s] BY <1>7 DEF SaveSettings
<1>8. ASSUME NEW i \in Items, Delete(i) \/ \E new \in Records, form \in Forms : Upsert(i, new, form)
      PROVE  req'[s] = req[s]
  BY <1>8 DEF Delete, Upsert
<1>9. RunAuthoring \/ StartWipe \/ RunWipeAgain \/ RunClear \/ RunWipe \/ Tick \/ UNCHANGED graderVars
        => req'[s] = req[s]
  BY DEF RunAuthoring, StartWipe, RunWipeAgain, RunClear, RunWipe, Tick, graderVars
<1> HIDE DEF Told
<1>10. req'[s] = req[s] \/ Told
  BY <1>1, <1>2, <1>3, <1>4, <1>5, <1>6, <1>7, <1>8, <1>9 DEF GraderNext
<1>11. QED BY <1>10 DEF Told

LEMMA StoryReadNext == TypesInv /\ StoryRead /\ [GraderNext]_graderVars => StoryRead'
<1> SUFFICES ASSUME TypesInv, StoryRead, [GraderNext]_graderVars,
                    mod' = "classic", ~shifted', NEW s \in Slots, req'[s] # Nothing, req'[s].phase = "script"
             PROVE  (/\ req[s].prereq = StepBefore(req[s].item)
                     /\ req[s].prereq # NoRow => /\ req[s].crew = team[req[s].login].slug
                                                 /\ req[s].mates = Mates(req[s].login))'
  BY DEF StoryRead
<1>1. ~shifted /\ record' = record /\ team' = team /\ mod = "classic" BY ShiftFacts
<1>2. \A i : StepBefore(i)' = StepBefore(i) BY <1>1 DEF StepBefore, Earlier, InChain, Hidden
<1>3. \A l : Mates(l)' = Mates(l) BY <1>1 DEF Mates
<1>4. PICK i, l : i = req'[s].item /\ l = req'[s].login OBVIOUS
<1>5. /\ req'[s].prereq = StepBefore(i)
      /\ req'[s].prereq # NoRow => req'[s].crew = team[l].slug /\ req'[s].mates = Mates(l)
  <2>1. CASE req'[s] = req[s]
    <3>1. req[s] # Nothing /\ req[s].phase = "script" BY <2>1
    <3>2. /\ req[s].prereq = StepBefore(req[s].item)
          /\ req[s].prereq # NoRow => /\ req[s].crew = team[req[s].login].slug
                                      /\ req[s].mates = Mates(req[s].login)
      BY <1>1, <3>1 DEF StoryRead
    <3>3. i = req[s].item /\ l = req[s].login BY <1>4, <2>1
    <3>4. QED BY <2>1, <3>2, <3>3
  <2>2. CASE req'[s] # req[s]
    <3>1. /\ req'[s].login = req[s].login /\ req'[s].item = req[s].item
          /\ req'[s].prereq = StepBefore(req[s].item)
          /\ req'[s].prereq # NoRow => /\ req'[s].crew = team[req[s].login].slug
                                       /\ req'[s].mates = Mates(req[s].login)
      BY <1>1, <2>2, RequestSteps
    <3>2. i = req[s].item /\ l = req[s].login BY <1>4, <3>1
    <3>3. QED BY <3>1, <3>2
  <2>3. QED BY <2>1, <2>2
<1>6. StepBefore(i)' = StepBefore(i) /\ Mates(l)' = Mates(l) /\ team'[l] = team[l] BY <1>1, <1>2, <1>3
<1>7. (StepBefore(req[s].item))' = StepBefore(i)'
  BY <1>4 DEF StepBefore, Earlier, InChain, Hidden
<1>8. (Mates(req[s].login))' = Mates(l)' BY <1>4 DEF Mates
<1>9. QED BY <1>4, <1>5, <1>6, <1>7, <1>8

\* A row appears only by a script that banks it.
LEMMA RowSteps ==
    ASSUME TypesInv, [GraderNext]_graderVars, NEW l \in Logins, NEW i \in Items,
           solves[l][i] = NoRow, solves'[l][i] # NoRow
    PROVE  \E s \in Slots : /\ RunScript(s) /\ Banks(req[s], Verdict(req[s]))
                            /\ req[s].login = l /\ req[s].item = i
<1>1. CASE UNCHANGED <<mod, solves, attempts, sums, torn, wiping, clearing>> BY <1>1
<1>2. ASSUME NEW s \in Slots, RunScript(s)
      PROVE  Banks(req[s], Verdict(req[s])) /\ req[s].login = l /\ req[s].item = i
  <2>1. PICK r \in Requests : r = req[s] BY <1>2, ScriptFacts
  <2>2. Banks(r, Verdict(r)) /\ BankSolve(r) BY <1>2, <2>1, ScriptFacts
  <2>3. \A m \in Logins, j \in Items : m # r.login \/ j # r.item => solves'[m][j] = solves[m][j]
    BY <2>2, BankFacts, Zenon
  <2>4. solves'[l][i] # solves[l][i] OBVIOUS
  <2>5. r.login = l /\ r.item = i BY <2>3, <2>4, Zenon
  <2>6. QED BY <2>1, <2>2, <2>5
<1>3. ASSUME NEW m \in Logins, ResetSolves(m) PROVE FALSE
  <2>1. solves' = [solves EXCEPT ![m] = [j \in Items |-> NoRow]] BY <1>3 DEF ResetSolves
  <2>2. QED BY <2>1 DEF TypesInv, GraderTypeOK
<1>4. ASSUME NEW m \in Logins, ResetAnswers(m) PROVE FALSE BY <1>4 DEF ResetAnswers, store, rows
<1>5. CASE StartWipe \/ RunWipeAgain BY <1>5 DEF StartWipe, RunWipeAgain, store, rows
<1>6. CASE RunClear \/ RunWipe
  <2>1. PICK cmd \in Resets : Command(cmd)
    BY <1>6, TailFacts DEF TypesInv, Shapes, RunClear, RunWipe, Clearing, Wiping
  <2>2. solves'[l] = [j \in Items |-> NoRow] \/ solves'[l] = solves[l]
    BY <2>1, CommandFacts DEF TypesInv
  <2>3. QED BY <2>2
<1>7. QED BY <1>1, <1>2, <1>3, <1>4, <1>5, <1>6, StepKinds

\* While nobody moves and no item is edited, a later step of the story is
\* banked only when the solver's team holds the step before it (StoryInOrder).
THEOREM StoryStaysInOrder == GraderSpec => StoryInOrder
<1>1. GraderSpec => []TypesInv BY GraderInitTypes, GraderNextTypes, PTL DEF GraderSpec
<1>2. GraderInit => StoryRead BY DEF GraderInit, StoryRead
<1>3. GraderSpec => []StoryRead BY <1>1, <1>2, StoryReadNext, PTL DEF GraderSpec
<1> DEFINE Held ==
      \A l \in Logins, i \in Items :
          /\ mod = "classic" /\ ~shifted /\ StepBefore(i) # NoRow
          /\ solves[l][i] = NoRow /\ solves'[l][i] # NoRow
          => \E m \in Mates(l) : solves[m][StepBefore(i)] # NoRow
<1>4. TypesInv /\ StoryRead /\ [GraderNext]_graderVars => Held
  <2> SUFFICES ASSUME TypesInv, StoryRead, [GraderNext]_graderVars, NEW l \in Logins, NEW i \in Items,
                      mod = "classic", ~shifted, StepBefore(i) # NoRow,
                      solves[l][i] = NoRow, solves'[l][i] # NoRow
               PROVE  \E m \in Mates(l) : solves[m][StepBefore(i)] # NoRow
    OBVIOUS
  <2>1. PICK s \in Slots : /\ RunScript(s) /\ Banks(req[s], Verdict(req[s]))
                           /\ req[s].login = l /\ req[s].item = i
    BY RowSteps
  <2>2. PICK r \in Requests : r = req[s] BY <2>1, ScriptFacts
  <2>3. ~Locked(r) BY <2>1, <2>2, ScriptFacts
  <2>4. r.login = l /\ r.item = i /\ req[s] # Nothing /\ req[s].phase = "script"
    BY <2>1, <2>2 DEF RunScript
  <2>5. r.prereq = StepBefore(i) /\ r.mates = Mates(l) BY <2>2, <2>4 DEF StoryRead
  <2>6. r.prereq \in Items BY <2>5, StepFacts
  <2>7. PICK m \in Mates(l) : Opens(m, r) BY <2>3, <2>5, <2>6 DEF Locked
  <2>8. QED BY <2>5, <2>7 DEF Opens
<1>5. GraderSpec => [][Held]_graderVars BY <1>1, <1>3, <1>4, PTL DEF GraderSpec
<1>6. QED BY <1>5 DEF StoryInOrder
-----------------------------------------------------------------------------
(***************************************************************************)
(* The graders implement the tally.                                         *)
(***************************************************************************)
Worths == {0} \union {r.points : r \in Records}
BankOf(rows2) == [l \in Logins |-> [i \in Items |->
                    IF rows2[l][i] = NoRow THEN NoRow ELSE rows2[l][i].points]]

LEMMA TallySteps ==
    ASSUME TypesInv, [GraderNext]_graderVars
    PROVE  [Tallied!TallyNext]_(Tallied!tallyVars)
<1> DEFINE bank == BankOf(solves)
           bank2 == BankOf(solves')
           Step == \/ /\ bank2 = bank /\ points' = points
                   \/ \E l \in Logins, i \in Items, worth \in Worths :
                        /\ bank[l][i] = NoRow
                        /\ bank2 = [bank EXCEPT ![l][i] = worth]
                        /\ points' = [points EXCEPT ![l] = @ + worth]
                   \/ \E owners, totals \in SUBSET Logins :
                        /\ bank2 = [l \in Logins |-> IF l \in owners THEN [i \in Items |-> NoRow] ELSE bank[l]]
                        /\ points' = [l \in Logins |-> IF l \in totals THEN 0 ELSE points[l]]
<1>0. solves \in [Logins -> [Items -> Rows \union {NoRow}]] /\ points \in [Logins -> Nat]
  BY DEF TypesInv, GraderTypeOK
<1>1. ASSUME UNCHANGED <<mod, solves, attempts, sums, torn, wiping, clearing>> PROVE Step
  BY <1>1 DEF sums
<1>2. ASSUME NEW s \in Slots, RunScript(s) PROVE Step
  <2>1. PICK r \in Requests : r = req[s] BY <1>2, ScriptFacts
  <2>2. CASE ~Banks(r, Verdict(r))
    <3>1. UNCHANGED <<solves, sums>> BY <1>2, <2>1, <2>2, ScriptFacts
    <3>2. QED BY <3>1 DEF sums
  <2>3. CASE Banks(r, Verdict(r))
    <3> DEFINE l == r.login
               i == r.item
               w == Worth(i)
    <3>1. BankSolve(r) /\ ~Solved(r) BY <1>2, <2>1, <2>3, ScriptFacts
    <3>2. /\ l \in Logins /\ i \in Items /\ w \in Nat
          /\ solves'[l][i] = [points |-> w, at |-> r.now]
          /\ \A m \in Logins, j \in Items : m # l \/ j # i => solves'[m][j] = solves[m][j]
      BY <3>1, BankFacts
    <3>3. points' = [points EXCEPT ![l] = @ + w] BY <3>1 DEF BankSolve
    <3>4. [points |-> w, at |-> r.now] # NoRow
      <4>1. r.now \in Nat BY DEF Requests
      <4>2. [points |-> w, at |-> r.now] \in Rows BY <3>2, <4>1 DEF Rows
      <4>3. QED BY <4>2, GraderAssumption
    <3>5. w \in Worths
      <4>1. record[i] \in Records \union {NoRecord} BY <3>2 DEF TypesInv, GraderTypeOK
      <4>2. QED BY <4>1 DEF Worth, Worths
    <3>6. solves[l][i] = NoRow BY <3>1 DEF Solved
    <3>7. PICK L, I, W : L = l /\ I = i /\ W = w OBVIOUS
    <3> HIDE DEF l, i, w
    <3>8. bank[L][I] = NoRow BY <3>2, <3>6, <3>7 DEF BankOf
    <3>9. bank2[L][I] = W /\ \A m \in Logins, j \in Items : m # L \/ j # I => bank2[m][j] = bank[m][j]
      BY <3>2, <3>4, <3>7 DEF BankOf
    <3>10. bank2 = [bank EXCEPT ![L][I] = W]
      <4>1. \A m \in Logins : bank2[m] = [j \in Items |-> bank2[m][j]] /\ bank[m] = [j \in Items |-> bank[m][j]]
        BY DEF BankOf
      <4>2. bank2 = [m \in Logins |-> bank2[m]] /\ bank = [m \in Logins |-> bank[m]] BY DEF BankOf
      <4> HIDE DEF bank, bank2
      <4>3. L \in Logins /\ I \in Items BY <3>2, <3>7
      <4>4. bank2[L] = [bank[L] EXCEPT ![I] = W] BY <3>9, <4>1, <4>3
      <4>5. \A m \in Logins : m # L => bank2[m] = bank[m] BY <3>9, <4>1
      <4>6. bank2 = [bank EXCEPT ![L] = [bank[L] EXCEPT ![I] = W]] BY <4>2, <4>3, <4>4, <4>5
      <4>7. QED BY <4>2, <4>3, <4>6
    <3>11. L \in Logins /\ I \in Items /\ W \in Worths /\ points' = [points EXCEPT ![L] = @ + W]
      BY <3>2, <3>3, <3>5, <3>7
    <3>12. QED BY <3>8, <3>10, <3>11
  <2>4. QED BY <2>2, <2>3
<1>3. ASSUME NEW l \in Logins, ResetSolves(l) PROVE Step
  <2>1. solves' = [solves EXCEPT ![l] = [i \in Items |-> NoRow]] /\ points' = [points EXCEPT ![l] = 0]
    BY <1>3 DEF ResetSolves
  <2>2. points' = [m \in Logins |-> IF m \in {l} THEN 0 ELSE points[m]] BY <1>0, <2>1
  <2>3. bank2 = [m \in Logins |-> IF m \in {l} THEN [i \in Items |-> NoRow] ELSE bank[m]]
    BY <1>0, <2>1 DEF BankOf
  <2>4. {l} \in SUBSET Logins OBVIOUS
  <2> HIDE DEF bank, bank2
  <2>5. QED BY <2>2, <2>3, <2>4
<1>4. ASSUME NEW l \in Logins, ResetAnswers(l) PROVE Step BY <1>4 DEF ResetAnswers, store, rows, sums
<1>5. ASSUME StartWipe \/ RunWipeAgain PROVE Step
  <2>1. solves' = solves /\ points' = points BY <1>5 DEF StartWipe, RunWipeAgain, store, rows, sums
  <2>2. QED BY <2>1
<1>6. ASSUME RunClear \/ RunWipe PROVE Step
  <2>1. PICK cmd \in Resets : Command(cmd)
    BY <1>6, TailFacts DEF TypesInv, Shapes, RunClear, RunWipe, Clearing, Wiping
  <2>2. PICK owners \in SUBSET Logins : owners = IF cmd.do = "rows" THEN cmd.of ELSE {}
    BY <2>1 DEF Resets
  <2>3. PICK totals \in SUBSET Logins : totals = IF cmd.do = "points" THEN cmd.of ELSE {}
    BY <2>1 DEF Resets
  <2>4. /\ points' \in [Logins -> Nat]
        /\ \A l \in Logins : points'[l] = IF l \in totals THEN 0 ELSE points[l]
    BY <2>1, <2>3, CommandFacts DEF TypesInv
  <2>5. \A l \in Logins : IF l \in owners THEN solves'[l] = [i \in Items |-> NoRow] ELSE solves'[l] = solves[l]
    BY <2>1, <2>2, CommandFacts DEF TypesInv
  <2>6. points' = [l \in Logins |-> IF l \in totals THEN 0 ELSE points[l]] BY <2>4
  <2>7. bank2 = [l \in Logins |-> IF l \in owners THEN [i \in Items |-> NoRow] ELSE bank[l]]
    BY <2>5 DEF BankOf
  <2> HIDE DEF bank, bank2
  <2>8. QED BY <2>6, <2>7
<1>7. Step
  <2> HIDE DEF Step
  <2>1. QED BY <1>1, <1>2, <1>3, <1>4, <1>5, <1>6, StepKinds DEF Step
<1>8. QED
  BY <1>7 DEF Tallied!TallyNext, Tallied!Bank, Tallied!Void, Tallied!tallyVars, BankOf, Worths

\* A contestant's total moves up only by what is banked in the same instant and
\* down only to nothing: the keys implement the abstract tally (ImplementsTally).
THEOREM GraderImplementsTally == GraderSpec => ImplementsTally
<1>1. GraderSpec => []TypesInv BY GraderInitTypes, GraderNextTypes, PTL DEF GraderSpec
<1>2. GraderInit => Tallied!TallyInit BY DEF GraderInit, Tallied!TallyInit
<1>3. QED BY <1>1, <1>2, TallySteps, PTL DEF GraderSpec, ImplementsTally, Tallied!TallySpec
-----------------------------------------------------------------------------
\* A request of Archive at work, and what a step leaves of it.
Turned(w, step, todo, next, ok, heard, wrote, reply) ==
    [ask |-> w.ask, step |-> step, todo |-> todo, next |-> next, ok |-> ok,
     heard |-> heard, wrote |-> wrote, reply |-> reply, met |-> w.met]
Kept(w) == Turned(w, w.step, w.todo, w.next, w.ok, w.heard, w.wrote, w.reply)
Shaped == desk = [d \in Desks |-> desk[d]] /\ \A d \in Desks : desk[d].step # "idle" => desk[d] = Kept(desk[d])
Turns(d, step, todo, next, ok, heard, wrote, reply) ==
    desk' = [desk EXCEPT ![d] = Turned(desk[d], step, todo, next, ok, heard, wrote, reply)]
Opened(w, ask, todo, next) ==
    /\ w.step = "pipe" /\ w.ask = ask /\ w.todo = todo /\ w.next = next /\ w.ok /\ ~w.wrote
    /\ w.heard = NoCells /\ w.reply = Absent
\* All that changes of a request others are heard of.
LEMMA MetIs ==
    ASSUME NEW w, w = Kept(w), NEW m
    PROVE  LET v == [w EXCEPT !.met = m] IN
           /\ v = Kept(v) /\ v.ask = w.ask /\ v.step = w.step /\ v.todo = w.todo /\ v.next = w.next /\ v.ok = w.ok
           /\ v.heard = w.heard /\ v.wrote = w.wrote /\ v.reply = w.reply /\ v.met = m
<1> DEFINE v == [Kept(w) EXCEPT !.met = m]
<1>1. /\ v = Kept(v) /\ v.ask = w.ask /\ v.step = w.step /\ v.todo = w.todo /\ v.next = w.next /\ v.ok = w.ok
      /\ v.heard = w.heard /\ v.wrote = w.wrote /\ v.reply = w.reply /\ v.met = m
  BY DEF Kept, Turned
<1>2. v = [w EXCEPT !.met = m] BY Zenon
<1> HIDE DEF v
<1>3. QED BY <1>1, <1>2

\* A request comes in, and those it overlaps with hear of it.
LEMMA BeginIs ==
    ASSUME Shaped, NEW d \in Desks, NEW ask, NEW todo, NEW next, Begin(d, ask, todo, next)
    PROVE  /\ desk' = [e \in Desks |-> desk'[e]]
           /\ desk'[d] = Kept(desk'[d]) /\ Opened(desk'[d], ask, todo, next)
           /\ \A e \in Desks : e # d =>
                \/ desk'[e] = desk[e]
                \/ desk[e].step # "idle" /\ desk'[e] = [desk[e] EXCEPT !.met = @ \union {ask.op}]
<1> DEFINE beside(e) == e # d /\ desk[e].step # "idle" /\ Overlap(ask, desk[e].ask)
           met == {desk[x].ask.op : x \in {y \in Desks : beside(y) /\ Serving(y)}}
           w == [ask |-> ask, step |-> "pipe", todo |-> todo, next |-> next, ok |-> TRUE,
                 heard |-> NoCells, wrote |-> FALSE, reply |-> Absent, met |-> met]
<1>1. desk' = [e \in Desks |-> IF e = d THEN w ELSE IF beside(e) THEN [desk[e] EXCEPT !.met = @ \union {ask.op}] ELSE desk[e]]
  BY DEF Begin
<1> HIDE DEF met
<1>2. w = Kept(w) /\ Opened(w, ask, todo, next) BY DEF Kept, Turned, Opened
<1> HIDE DEF w
<1>3. \A e \in Desks : e # d => \/ desk'[e] = desk[e]
                                \/ beside(e) /\ desk'[e] = [desk[e] EXCEPT !.met = @ \union {ask.op}]
  <2> HIDE DEF beside
  <2>1. QED BY <1>1
<1>4. desk'[d] = w
  <2> HIDE DEF beside
  <2>1. QED BY <1>1
<1>5. desk' = [e \in Desks |-> desk'[e]]
  <2> HIDE DEF beside
  <2>1. QED BY <1>1
<1>6. QED BY <1>2, <1>3, <1>4, <1>5

LEMMA SendIs ==
    ASSUME Shaped, NEW d \in Desks, NEW todo, NEW next, Send(d, todo, next), desk[d].step # "idle"
    PROVE  Turns(d, "pipe", todo, next, desk[d].ok, desk[d].heard, desk[d].wrote, desk[d].reply)
<1> DEFINE q == desk[d]
           v == Kept(q)
           w == Turned(q, "pipe", todo, next, q.ok, q.heard, q.wrote, q.reply)
<1>1. v = desk[d] BY DEF Shaped
<1>2. desk' = [desk EXCEPT ![d] = [[[desk[d] EXCEPT !.todo = todo] EXCEPT !.next = next] EXCEPT !.step = "pipe"]] BY DEF Send, Shaped
<1>3. [[[v EXCEPT !.todo = todo] EXCEPT !.next = next] EXCEPT !.step = "pipe"] = w
  <2> HIDE DEF q
  <2> DEFINE a == Turned(q, q.step, todo, q.next, q.ok, q.heard, q.wrote, q.reply)
             b == Turned(q, q.step, todo, next, q.ok, q.heard, q.wrote, q.reply)
  <2>1. [v EXCEPT !.todo = todo] = a BY DEF Kept, Turned
  <2>2. [a EXCEPT !.next = next] = b BY DEF Kept, Turned
  <2>3. [b EXCEPT !.step = "pipe"] = w BY DEF Kept, Turned
  <2> HIDE DEF v, w, a, b
  <2>4. QED BY <2>1, <2>2, <2>3
<1>4. QED BY <1>1, <1>2, <1>3, Zenon DEF Turns

LEMMA CloseIs ==
    ASSUME Shaped, NEW d \in Desks, NEW fine, Close(d, fine), desk[d].step # "idle"
    PROVE  Turns(d, "closed", <<>>, "closed", fine, NoCells, desk[d].wrote, desk[d].reply)
<1> DEFINE q == desk[d]
           v == Kept(q)
           w == Turned(q, "closed", <<>>, "closed", fine, NoCells, q.wrote, q.reply)
<1>1. v = desk[d] BY DEF Shaped
<1>2. desk' = [desk EXCEPT ![d] = [desk[d] EXCEPT !.step = "closed", !.next = "closed", !.todo = <<>>, !.heard = NoCells, !.ok = fine]]
  BY DEF Close
<1>3. [v EXCEPT !.step = "closed", !.next = "closed", !.todo = <<>>, !.heard = NoCells, !.ok = fine] = w
  <2> HIDE DEF q
  <2> DEFINE a == Turned(q, "closed", q.todo, q.next, q.ok, q.heard, q.wrote, q.reply)
             b == Turned(q, "closed", q.todo, "closed", q.ok, q.heard, q.wrote, q.reply)
             c == Turned(q, "closed", <<>>, "closed", q.ok, q.heard, q.wrote, q.reply)
             e == Turned(q, "closed", <<>>, "closed", q.ok, NoCells, q.wrote, q.reply)
  <2>1. [v EXCEPT !.step = "closed"] = a BY DEF Kept, Turned
  <2>2. [a EXCEPT !.next = "closed"] = b BY DEF Kept, Turned
  <2>3. [b EXCEPT !.todo = <<>>] = c BY DEF Kept, Turned
  <2>4. [c EXCEPT !.heard = NoCells] = e BY DEF Kept, Turned
  <2>5. [e EXCEPT !.ok = fine] = w BY DEF Kept, Turned
  <2> HIDE DEF v, w, a, b, c, e
  <2>6. QED BY <2>1, <2>2, <2>3, <2>4, <2>5
<1>4. QED BY <1>1, <1>2, <1>3, Zenon DEF Turns

Hears(q, c) == IF c.do = "read" THEN Put(q.heard, c.at[1], Hash(cells, c.at[1])) ELSE q.heard
LEMMA RunNextIs ==
    ASSUME Shaped, NEW d \in Desks, RunNext(d)
    PROVE  LET q == desk[d]
               c == Head(q.todo)
           IN  /\ Turns(d, "pipe", Tail(q.todo), q.next, q.ok, Hears(q, c), q.wrote \/ c.do # "read", q.reply)
               /\ q.step = "pipe" /\ q.todo # <<>> /\ cells' = Effect(cells, c)
<1> DEFINE q == desk[d]
           v == Kept(q)
           c == Head(q.todo)
           rest == Tail(q.todo)
           wrote == q.wrote \/ c.do # "read"
           w == Turned(q, q.step, rest, q.next, q.ok, Hears(q, c), wrote, q.reply)
<1>1. v = q /\ q.step = "pipe" /\ q.todo # <<>> BY DEF Shaped, RunNext
<1>2. desk' = [desk EXCEPT ![d] = [[[q EXCEPT !.todo = rest] EXCEPT !.heard = Hears(q, c)] EXCEPT !.wrote = wrote]]
  BY DEF RunNext, Hears
<1>3. [[[v EXCEPT !.todo = rest] EXCEPT !.heard = Hears(q, c)] EXCEPT !.wrote = wrote] = w
  <2> HIDE DEF q, c, wrote
  <2> DEFINE a == Turned(q, q.step, rest, q.next, q.ok, q.heard, q.wrote, q.reply)
             b == Turned(q, q.step, rest, q.next, q.ok, Hears(q, c), q.wrote, q.reply)
  <2>1. [v EXCEPT !.todo = rest] = a /\ [a EXCEPT !.heard = Hears(q, c)] = b /\ [b EXCEPT !.wrote = wrote] = w
    <3> HIDE DEF rest
    <3>1. QED BY DEF Kept, Turned
  <2> HIDE DEF v, w, a, b
  <2>2. QED BY <2>1
<1>4. desk' = [desk EXCEPT ![d] = w] BY <1>1, <1>2, <1>3, Zenon
<1>5. cells' = Effect(cells, c) BY DEF RunNext
<1>6. QED BY <1>1, <1>4, <1>5 DEF Turns

LEMMA NextRefusedIs ==
    ASSUME Shaped, NEW d \in Desks, NextRefused(d)
    PROVE  LET q == desk[d] IN
           /\ Turns(d, "pipe", Tail(q.todo), q.next, q.ok /\ Head(q.todo).lax, q.heard, q.wrote, q.reply)
           /\ q.step = "pipe" /\ q.todo # <<>>
<1> DEFINE q == desk[d]
           v == Kept(q)
           lax == Head(q.todo).lax
           rest == Tail(q.todo)
           w == Turned(q, q.step, rest, q.next, q.ok /\ lax, q.heard, q.wrote, q.reply)
<1>1. v = q /\ q.step = "pipe" /\ q.todo # <<>> BY DEF Shaped, NextRefused
<1>2. desk' = [desk EXCEPT ![d] = [[q EXCEPT !.todo = rest] EXCEPT !.ok = q.ok /\ lax]] BY DEF NextRefused
<1>3. [[v EXCEPT !.todo = rest] EXCEPT !.ok = q.ok /\ lax] = w
  <2> HIDE DEF q, lax
  <2> DEFINE a == Turned(q, q.step, rest, q.next, q.ok, q.heard, q.wrote, q.reply)
  <2>1. [v EXCEPT !.todo = rest] = a /\ [a EXCEPT !.ok = q.ok /\ lax] = w
    <3> HIDE DEF rest
    <3>1. QED BY DEF Kept, Turned
  <2> HIDE DEF v, w, a
  <2>2. QED BY <2>1
<1>4. desk' = [desk EXCEPT ![d] = w] BY <1>1, <1>2, <1>3, Zenon
<1>5. QED BY <1>1, <1>4 DEF Turns

LEMMA KeyedIs ==
    ASSUME Shaped, NEW d \in Desks, Keyed(d), desk[d].ask.id \in DOMAIN Heard(d, "sign")
    PROVE  LET q == desk[d] IN
           Turns(d, "pipe", TargetWrites(q.ask.id, q.ask.draft), "closed", q.ok, q.heard, q.wrote, Heard(d, "sign")[q.ask.id])
<1> DEFINE q == desk[d]
           v == Kept(q)
           key == Heard(d, "sign")[q.ask.id]
           todo == TargetWrites(q.ask.id, q.ask.draft)
           w == Turned(q, "pipe", todo, "closed", q.ok, q.heard, q.wrote, key)
<1>1. v = q BY DEF Shaped, Keyed
<1>2. desk' = [desk EXCEPT ![d] = [q EXCEPT !.reply = key, !.step = "pipe", !.next = "closed", !.todo = todo]] BY DEF Keyed
<1>3. [v EXCEPT !.reply = key, !.step = "pipe", !.next = "closed", !.todo = todo] = w
  <2> HIDE DEF q, key, todo
  <2> DEFINE a == Turned(q, q.step, q.todo, q.next, q.ok, q.heard, q.wrote, key)
             b == Turned(q, "pipe", q.todo, q.next, q.ok, q.heard, q.wrote, key)
             c == Turned(q, "pipe", q.todo, "closed", q.ok, q.heard, q.wrote, key)
  <2>1. [v EXCEPT !.reply = key] = a /\ [a EXCEPT !.step = "pipe"] = b BY DEF Kept, Turned
  <2>2. [b EXCEPT !.next = "closed"] = c /\ [c EXCEPT !.todo = todo] = w BY DEF Turned
  <2> HIDE DEF v, w, a, b, c
  <2>3. QED BY <2>1, <2>2
<1>4. QED BY <1>1, <1>2, <1>3, Zenon DEF Turns

LEMMA GoesOnIs ==
    ASSUME Shaped, NEW d \in Desks, PipelineDone(d), ~(~desk[d].ok \/ desk[d].next = "closed")
    PROVE  LET q == desk[d] IN
           Turns(d, q.next, q.todo, q.next, q.ok, q.heard, q.wrote, q.reply) /\ q.step = "pipe" /\ q.todo = <<>>
<1> DEFINE q == desk[d]
           w == Turned(q, q.next, q.todo, q.next, q.ok, q.heard, q.wrote, q.reply)
<1>1. Kept(q) = q /\ q.step = "pipe" /\ q.todo = <<>> BY DEF Shaped, PipelineDone
<1>2. desk' = [desk EXCEPT ![d] = [q EXCEPT !.step = q.next]] BY DEF PipelineDone
<1>3. [Kept(q) EXCEPT !.step = q.next] = w
  <2> HIDE DEF q
  <2>1. QED BY DEF Kept, Turned
<1>4. QED BY <1>1, <1>2, <1>3, Zenon DEF Turns

\* An import whose file the checks refuse has written nothing yet: it reads the
\* pause, comes to its checks, and is answered there.
Unwritten(w) ==
    /\ w.step \in {"pipe", "guard", "closed"} /\ ~w.wrote
    /\ w.step = "pipe" => w.next = "guard" /\ w.todo \in {<<Get("box")>>, <<>>}
Spoilt(w) == w.ask.op = "restore" /\ ~Passes(w.ask.file)
Careful(w) == w.step # "idle" => w = Kept(w) /\ (Spoilt(w) => Unwritten(w))
Cautious == desk = [d \in Desks |-> desk[d]] /\ \A d \in Desks : Careful(desk[d])
Underway == {"pipe", "guard", "closed", "idle"}

LEMMA CautiousShaped == ASSUME Cautious PROVE Shaped
BY DEF Cautious, Careful, Shaped

LEMMA MeetsKeeps == ASSUME NEW w, Careful(w), w.step # "idle", NEW m PROVE Careful([w EXCEPT !.met = m])
<1> DEFINE v == [w EXCEPT !.met = m]
<1>1. w = Kept(w) BY DEF Careful
<1>2. v = Kept(v) /\ v.ask = w.ask /\ v.step = w.step /\ v.todo = w.todo /\ v.next = w.next /\ v.wrote = w.wrote BY <1>1, MetIs
<1> HIDE DEF v
<1>3. Careful(v) BY <1>2 DEF Careful, Spoilt, Unwritten
<1>4. QED BY <1>3 DEF v

LEMMA BeginKeeps ==
    ASSUME Cautious, NEW d \in Desks, NEW ask, NEW todo, NEW next, Begin(d, ask, todo, next),
           ask.op # "restore" \/ (todo = <<Get("box")>> /\ next = "guard")
    PROVE  Cautious'
<1>1. /\ desk' = [e \in Desks |-> desk'[e]]
      /\ desk'[d] = Kept(desk'[d]) /\ Opened(desk'[d], ask, todo, next)
      /\ \A e \in Desks : e # d =>
           \/ desk'[e] = desk[e]
           \/ desk[e].step # "idle" /\ desk'[e] = [desk[e] EXCEPT !.met = @ \union {ask.op}]
  BY BeginIs, CautiousShaped
<1>2. Careful(desk'[d]) BY <1>1 DEF Careful, Spoilt, Unwritten, Opened
<1>3. ASSUME NEW e \in Desks, e # d PROVE Careful(desk'[e])
  <2>1. Careful(desk[e]) BY DEF Cautious
  <2>2. CASE desk'[e] = desk[e] BY <2>1, <2>2
  <2>3. CASE desk[e].step # "idle" /\ desk'[e] = [desk[e] EXCEPT !.met = @ \union {ask.op}] BY <2>1, <2>3, MeetsKeeps
  <2>4. QED BY <1>1, <1>3, <2>2, <2>3
<1>4. QED BY <1>1, <1>2, <1>3 DEF Cautious

\* A request that moves on by itself.
LEMMA MovesKeeps ==
    ASSUME Cautious, NEW d \in Desks, NEW w, desk' = [desk EXCEPT ![d] = w], Careful(w)
    PROVE  Cautious'
<1>1. desk'[d] = w /\ \A e \in Desks : e # d => desk'[e] = desk[e] BY DEF Cautious
<1>2. desk' = [e \in Desks |-> desk'[e]] BY DEF Cautious
<1>3. QED BY <1>1, <1>2 DEF Cautious

LEMMA TurnsKeeps ==
    ASSUME Cautious, NEW d \in Desks, NEW step, NEW todo, NEW next, NEW ok, NEW heard, NEW wrote, NEW reply,
           desk' = [desk EXCEPT ![d] = Turned(desk[d], step, todo, next, ok, heard, wrote, reply)],
           Spoilt(desk[d]) => Unwritten(Turned(desk[d], step, todo, next, ok, heard, wrote, reply))
    PROVE  Cautious'
<1> DEFINE w == Turned(desk[d], step, todo, next, ok, heard, wrote, reply)
<1>1. w = Kept(w) /\ w.ask = desk[d].ask BY DEF Kept, Turned
<1> HIDE DEF w
<1>2. desk' = [desk EXCEPT ![d] = w] /\ (Spoilt(desk[d]) => Unwritten(w)) BY DEF w
<1>3. Careful(w) BY <1>1, <1>2 DEF Careful, Spoilt
<1>4. QED BY <1>2, <1>3, MovesKeeps

LEMMA SendKeeps ==
    ASSUME Cautious, NEW d \in Desks, NEW todo, NEW next, Send(d, todo, next),
           desk[d].step \notin Underway \/ (desk[d].step = "guard" /\ Passes(desk[d].ask.file))
    PROVE  Cautious'
<1>1. ~Spoilt(desk[d]) /\ desk[d].step # "idle" BY DEF Cautious, Careful, Unwritten, Spoilt, Underway
<1>2. QED BY <1>1, CautiousShaped, SendIs, TurnsKeeps DEF Turns

LEMMA CloseKeeps == ASSUME Cautious, NEW d \in Desks, NEW fine, Close(d, fine), desk[d].step # "idle" PROVE Cautious'
<1>1. Turns(d, "closed", <<>>, "closed", fine, NoCells, desk[d].wrote, desk[d].reply) BY CautiousShaped, CloseIs
<1>2. Spoilt(desk[d]) => Unwritten(Turned(desk[d], "closed", <<>>, "closed", fine, NoCells, desk[d].wrote, desk[d].reply))
  BY DEF Cautious, Careful, Unwritten, Turned
<1>3. QED BY <1>1, <1>2, TurnsKeeps DEF Turns

LEMMA RunNextKeeps == ASSUME Cautious, NEW d \in Desks, RunNext(d) PROVE Cautious'
<1> DEFINE q == desk[d]
           c == Head(q.todo)
           rest == Tail(q.todo)
           wrote == q.wrote \/ c.do # "read"
           w == Turned(q, "pipe", rest, q.next, q.ok, Hears(q, c), wrote, q.reply)
<1>1. Turns(d, "pipe", rest, q.next, q.ok, Hears(q, c), wrote, q.reply) /\ q.step = "pipe" /\ q.todo # <<>>
  BY CautiousShaped, RunNextIs
<1>2. Unwritten(q) => Unwritten(w)
  <2>1. w.step = "pipe" /\ w.todo = rest /\ w.next = q.next /\ w.wrote = wrote BY DEF Turned
  <2>2. q.todo = <<Get("box")>> => rest = <<>> /\ c.do = "read" BY DEF Get
  <2> HIDE DEF w, q, c, rest
  <2>3. QED BY <1>1, <2>1, <2>2 DEF Unwritten
<1>3. Spoilt(q) => Unwritten(w) BY <1>1, <1>2 DEF Cautious, Careful
<1> HIDE DEF c, rest, wrote
<1>4. QED BY <1>1, <1>3, TurnsKeeps DEF Turns

LEMMA NextRefusedKeeps == ASSUME Cautious, NEW d \in Desks, NextRefused(d) PROVE Cautious'
<1> DEFINE q == desk[d]
           ok == q.ok /\ Head(q.todo).lax
           rest == Tail(q.todo)
           w == Turned(q, "pipe", rest, q.next, ok, q.heard, q.wrote, q.reply)
<1>1. Turns(d, "pipe", rest, q.next, ok, q.heard, q.wrote, q.reply) /\ q.step = "pipe" /\ q.todo # <<>>
  BY CautiousShaped, NextRefusedIs
<1>2. Unwritten(q) => Unwritten(w)
  <2>1. w.step = "pipe" /\ w.todo = rest /\ w.next = q.next /\ w.wrote = q.wrote BY DEF Turned
  <2>2. q.todo = <<Get("box")>> => rest = <<>> OBVIOUS
  <2> HIDE DEF w, q, rest
  <2>3. QED BY <1>1, <2>1, <2>2 DEF Unwritten
<1>3. Spoilt(q) => Unwritten(w) BY <1>1, <1>2 DEF Cautious, Careful
<1> HIDE DEF ok, rest
<1>4. QED BY <1>1, <1>3, TurnsKeeps DEF Turns

LEMMA KeyedKeeps == ASSUME Cautious, NEW d \in Desks, Keyed(d) PROVE Cautious'
<1>1. desk[d].step = "keyed" /\ ~Spoilt(desk[d]) BY DEF Cautious, Careful, Unwritten, Keyed
<1>2. CASE desk[d].ask.id \in DOMAIN Heard(d, "sign") BY <1>1, <1>2, CautiousShaped, KeyedIs, TurnsKeeps DEF Turns
<1>3. CASE ~(desk[d].ask.id \in DOMAIN Heard(d, "sign")) BY <1>1, <1>3, CloseKeeps DEF Keyed
<1>4. QED BY <1>2, <1>3

\* No request but an import is of an archive.
LEMMA BanksKeep == ASSUME Cautious, NEW d \in Desks, Handlers(d) \/ Pipelines(d) PROVE Cautious'
<1>1. CASE PostQuestion(d) BY <1>1, BeginKeeps DEF PostQuestion
<1>2. CASE DropQuestion(d) BY <1>2, BeginKeeps DEF DropQuestion
<1>3. CASE PostSheet(d) BY <1>3, BeginKeeps DEF PostSheet
<1>4. CASE PostDraft(d) BY <1>4, BeginKeeps DEF PostDraft
<1>5. CASE Rotate(d) BY <1>5, BeginKeeps DEF Rotate
<1>6. CASE DropTarget(d) BY <1>6, BeginKeeps DEF DropTarget
<1>7. CASE SetList(d) BY <1>7, BeginKeeps DEF SetList
<1>8. CASE RenameLabel(d) BY <1>8, BeginKeeps DEF RenameLabel
<1>9. CASE WriteSheet(d) BY <1>9, SendKeeps DEF WriteSheet, Underway
<1>10. CASE Admit(d) BY <1>10, SendKeeps, CloseKeeps DEF Admit, Underway
<1>11. CASE Known(d) BY <1>11, SendKeeps, CloseKeeps DEF Known, Underway
<1>12. CASE Collide(d) BY <1>12, SendKeeps, CloseKeeps DEF Collide, Underway
<1>13. CASE Move(d) BY <1>13, SendKeeps DEF Move, Underway
<1>14. CASE Relist(d) BY <1>14, SendKeeps DEF Relist, Underway
<1>15. CASE RestLost(d) BY <1>15, CloseKeeps DEF RestLost
<1>16. CASE PipelineDone(d)
  <2>1. CASE ~desk[d].ok \/ desk[d].next = "closed" BY <1>16, <2>1, CloseKeeps DEF PipelineDone
  <2>2. CASE ~(~desk[d].ok \/ desk[d].next = "closed")
    <3> DEFINE q == desk[d]
    <3>1. Turns(d, q.next, q.todo, q.next, q.ok, q.heard, q.wrote, q.reply) /\ q.step = "pipe"
      BY <1>16, <2>2, CautiousShaped, GoesOnIs
    <3>2. Spoilt(q) => Unwritten(Turned(q, q.next, q.todo, q.next, q.ok, q.heard, q.wrote, q.reply))
      BY <3>1 DEF Cautious, Careful, Unwritten, Turned
    <3>3. QED BY <3>1, <3>2, TurnsKeeps DEF Turns
  <2>3. QED BY <2>1, <2>2
<1>17. QED
  BY <1>1, <1>2, <1>3, <1>4, <1>5, <1>6, <1>7, <1>8, <1>9, <1>10, <1>11, <1>12, <1>13, <1>14, <1>15, <1>16,
     KeyedKeeps, RunNextKeeps, NextRefusedKeeps DEF Handlers, Pipelines

LEMMA BrandsKeep == ASSUME Cautious, NEW d \in Desks, BrandHandlers(d) PROVE Cautious'
<1>1. CASE PostSponsor(d) BY <1>1, BeginKeeps DEF PostSponsor
<1>2. CASE KeepLogo(d) BY <1>2, SendKeeps DEF KeepLogo, Underway
<1>3. CASE DropSponsor(d) BY <1>3, BeginKeeps DEF DropSponsor
<1>4. CASE Reorder(d) BY <1>4, BeginKeeps DEF Reorder
<1>5. CASE Place(d) BY <1>5, SendKeeps DEF Place, Underway
<1>6. CASE SetImage(d) BY <1>6, BeginKeeps DEF SetImage
<1>7. CASE ClearImage(d) BY <1>7, BeginKeeps DEF ClearImage
<1>8. QED BY <1>1, <1>2, <1>3, <1>4, <1>5, <1>6, <1>7 DEF BrandHandlers

LEMMA ArchiveKeeps == ASSUME Cautious, NEW d \in Desks, ArchiveHandlers(d) PROVE Cautious'
<1>1. CASE ExportArchive(d) BY <1>1, BeginKeeps DEF ExportArchive
<1>2. CASE Assemble(d) BY <1>2, CloseKeeps DEF Assemble
<1>3. CASE PostArchive(d) BY <1>3, BeginKeeps DEF PostArchive
<1>4. CASE Guard(d) BY <1>4, SendKeeps, CloseKeeps DEF Guard
<1>5. CASE Pictures(d) BY <1>5, SendKeeps DEF Pictures, Continue, Underway
<1>6. CASE Reset(d) BY <1>6, SendKeeps DEF Reset, Continue, Underway
<1>7. CASE Clear(d) BY <1>7, SendKeeps DEF Clear, Continue, Underway
<1>8. CASE QuizIds(d) \/ AiIds(d) BY <1>8, SendKeeps DEF QuizIds, AiIds, Continue, Underway
<1>9. CASE Quiz(d) BY <1>9, SendKeeps DEF Quiz, Continue, Underway
<1>10. CASE Ai(d) BY <1>10, SendKeeps DEF Ai, Underway
<1>11. CASE Section(d) BY <1>11, SendKeeps DEF Section, Continue, Underway
<1>12. QED BY <1>1, <1>2, <1>3, <1>4, <1>5, <1>6, <1>7, <1>8, <1>9, <1>10, <1>11 DEF ArchiveHandlers

\* ArchiveSpec => []RefusedLeavesAll: an archive with settings, a logo or an
\* image the box does not take is refused before anything is written, whoever
\* else writes meanwhile and whatever fails (importEventBundle).
THEOREM RefusedImportsLeaveAll == ArchiveSpec => []RefusedLeavesAll
<1>1. ArchiveInit => Cautious BY DEF ArchiveInit, Cautious, Careful, Idle
<1>2. Cautious /\ [ArchiveNext]_archiveVars => Cautious'
  <2> SUFFICES ASSUME Cautious, [ArchiveNext]_archiveVars PROVE Cautious' OBVIOUS
  <2>1. CASE UNCHANGED desk BY <2>1 DEF Cautious
  <2>2. CASE Resume
    <3> DEFINE hears(e) == IF desk[e].step = "idle" THEN desk[e] ELSE [desk[e] EXCEPT !.met = @ \union {"resume"}]
    <3>1. desk' = [e \in Desks |-> hears(e)] BY <2>2 DEF Resume
    <3>2. ASSUME NEW e \in Desks PROVE Careful(hears(e))
      <4>1. Careful(desk[e]) BY DEF Cautious
      <4>2. QED BY <4>1, MeetsKeeps
    <3> HIDE DEF hears
    <3>3. QED BY <3>1, <3>2 DEF Cautious
  <2>3. QED BY <2>1, <2>2, BanksKeep, BrandsKeep, ArchiveKeeps DEF ArchiveNext, Score, archiveVars, bankVars
<1>3. Cautious => RefusedLeavesAll BY DEF Cautious, Careful, Spoilt, Unwritten, RefusedLeavesAll, Restoring
<1>4. QED BY <1>1, <1>2, <1>3, PTL DEF ArchiveSpec
-----------------------------------------------------------------------------
\* The pause of an import.  A command either leaves the pause alone or sets it;
\* what a request still has to run is a sequence of such commands.
Gentle(c) ==
    /\ c.do \in {"set", "nx", "del", "clear", "read"}
    /\ c.at = <<"box", "frozen">> => c.do = "read" \/ (c.do = "set" /\ c.val = TRUE)
    /\ c.do = "clear" => c.at[1] # "box"
Calm(todo) == \E S : todo \in Seq(S) /\ \A c \in S : Gentle(c)

Frozen(all) == <<"box", "frozen">> \in DOMAIN all /\ all[<<"box", "frozen">>] = TRUE
\* The step a request is at, or comes to when its commands have run.
Stage(w) == IF w.step = "pipe" THEN w.next ELSE w.step
Late == {"quizIds", "quiz", "aiIds", "ai", "sponsors"}
Importing == {"guard", "pictures", "reset", "clear"} \union Late
Orderly(w) ==
    /\ Calm(w.todo)
    /\ \A h \in DOMAIN w.heard : IsFiniteSet(DOMAIN w.heard[h])
    /\ Stage(w) \in Importing => IsFile(w.ask.file)
    /\ Stage(w) = "sheet" => w.ask.file \in Sheets
    /\ Stage(w) = "place" => w.ask.ids \in Orders
Pausing(w, all) == "resume" \notin w.met =>
    /\ w.step \in Late \union {"clear"} => Frozen(all)
    /\ w.step = "pipe" /\ w.next \in Late => Frozen(all)
    /\ w.step = "pipe" /\ w.next = "clear" /\ w.ok =>
         Frozen(all) \/ (w.todo # <<>> /\ Head(w.todo) = HSet("box", "frozen", TRUE))
Sound(w, all) == Orderly(w) /\ Pausing(w, all)
Steady ==
    /\ Shaped /\ IsFiniteSet(DOMAIN cells) /\ (shelf.file.kind = "archive" => IsFile(shelf.file))
    /\ \A d \in Desks : desk[d].step # "idle" => Sound(desk[d], cells)

LEMMA GentleCommands ==
    /\ \A h, i, v : h # "box" => /\ Gentle(HSet(h, i, v)) /\ Gentle(HSetNx(h, i, v)) /\ Gentle(Unchecked(HSetNx(h, i, v)))
                                 /\ Gentle(HDel(h, i)) /\ Gentle(Del(h))
    /\ \A h : Gentle(Get(h)) /\ Gentle(GetOrEmpty(h))
    /\ Gentle(HSet("box", "frozen", TRUE)) /\ Gentle(HDel("box", "progress"))
BY DEF Gentle, HSet, HSetNx, HDel, Del, Get, GetOrEmpty, Unchecked

LEMMA CalmNone == Calm(<<>>)
<1> DEFINE S == {}
<1>1. <<>> \in Seq(S) /\ \A c \in S : Gentle(c) OBVIOUS
<1> HIDE DEF S
<1>2. QED BY <1>1 DEF Calm

LEMMA CalmOne == ASSUME NEW a, Gentle(a) PROVE Calm(<<a>>)
<1> DEFINE S == {a}
<1>1. <<a>> \in Seq(S) /\ \A c \in S : Gentle(c) OBVIOUS
<1> HIDE DEF S
<1>2. QED BY <1>1 DEF Calm

LEMMA CalmJoined == ASSUME NEW s, NEW t, Calm(s), Calm(t) PROVE Calm(s \o t)
<1>1. PICK S : s \in Seq(S) /\ \A c \in S : Gentle(c) BY DEF Calm
<1>2. PICK T : t \in Seq(T) /\ \A c \in T : Gentle(c) BY DEF Calm
<1>3. s \o t \in Seq(S \union T)
  <2>1. s \in Seq(S \union T) /\ t \in Seq(S \union T) BY <1>1, <1>2
  <2>2. QED BY <2>1
<1>4. QED BY <1>1, <1>2, <1>3 DEF Calm

LEMMA CalmRest == ASSUME NEW s, Calm(s), s # <<>> PROVE Gentle(Head(s)) /\ Calm(Tail(s))
<1>1. PICK S : s \in Seq(S) /\ \A c \in S : Gentle(c) BY DEF Calm
<1>2. Head(s) \in S /\ Tail(s) \in Seq(S) BY <1>1
<1>3. QED BY <1>1, <1>2 DEF Calm

LEMMA CalmFlattened == ASSUME NEW N \in Nat, NEW p, DOMAIN p = 1..N, p = [k \in 1..N |-> p[k]], \A k \in 1..N : Calm(p[k])
                       PROVE  Calm(FlattenSeq(p))
<1> DEFINE of(k) == CHOOSE S : p[k] \in Seq(S) /\ \A c \in S : Gentle(c)
           S == UNION {of(k) : k \in 1..N}
<1>1. \A k \in 1..N : p[k] \in Seq(of(k)) /\ \A c \in of(k) : Gentle(c) BY DEF Calm
<1> HIDE DEF of
<1>2. \A c \in S : Gentle(c) BY <1>1
<1>3. \A k \in 1..N : of(k) \subseteq S OBVIOUS
<1> HIDE DEF S
<1>4. \A k \in 1..N : p[k] \in Seq(S) BY <1>1, <1>3
<1>5. p \in [1..N -> Seq(S)] BY <1>4
<1>6. FlattenSeq(p) \in Seq(S) BY <1>5, FlattenedIs
<1>7. QED BY <1>2, <1>6 DEF Calm

\* What the requests have to run is gentle.
LEMMA CalmPairs ==
    ASSUME NEW q, NEW p, NEW s, NEW row, NEW slot, NEW image
    PROVE  Calm(QuestionWrites(q, p)) /\ Calm(SponsorWrites(s, row)) /\ Calm(ImageWrites(slot, image))
<1>1. ASSUME NEW a, NEW b, Gentle(a), Gentle(b) PROVE Calm(<<a, b>>)
  <2> DEFINE S == {a, b}
  <2>1. <<a, b>> \in Seq(S) /\ \A c \in S : Gentle(c) BY <1>1
  <2> HIDE DEF S
  <2>2. QED BY <2>1 DEF Calm
<1>2. QED BY <1>1, GentleCommands DEF QuestionWrites, SponsorWrites, ImageWrites

LEMMA CalmTarget == ASSUME NEW a, NEW f PROVE Calm(TargetWrites(a, f))
<1> DEFINE secret(h, v) == IF v = Absent THEN HDel(h, a) ELSE HSet(h, a, v)
           flag == IF Graded(f.mode) THEN f.flag ELSE Absent
           c1 == HSet("record", a, [cat |-> f.cat, mode |-> f.mode, cs |-> f.cs])
           c2 == secret("flag", flag)
           c3 == secret("norm", IF flag = Absent THEN Absent ELSE Form(flag, f.cs))
           c4 == secret("hint", f.hint)
<1>1. TargetWrites(a, f) = <<c1, c2, c3, c4>> BY DEF TargetWrites
<1>2. Gentle(c1) /\ Gentle(c2) /\ Gentle(c3) /\ Gentle(c4) BY GentleCommands
<1> HIDE DEF c1, c2, c3, c4
<1> DEFINE S == {c1, c2, c3, c4}
<1>3. <<c1, c2, c3, c4>> \in Seq(S) /\ \A c \in S : Gentle(c) BY <1>2
<1> HIDE DEF S
<1>4. QED BY <1>1, <1>3 DEF Calm

LEMMA CalmQuiz == ASSUME NEW file, file \in Seq(Range(file)) PROVE Calm(QuizImport(file))
<1> DEFINE p == [k \in DOMAIN file |-> QuestionWrites(file[k].id, file[k])]
<1>1. Len(file) \in Nat /\ DOMAIN file = 1..Len(file) OBVIOUS
<1>2. \A k \in 1..Len(file) : Calm(p[k]) BY <1>1, CalmPairs
<1>3. DOMAIN p = 1..Len(file) /\ p = [k \in 1..Len(file) |-> p[k]] BY <1>1
<1>4. QuizImport(file) = FlattenSeq(p) BY DEF QuizImport
<1> HIDE DEF p
<1>5. QED BY <1>1, <1>2, <1>3, <1>4, CalmFlattened

LEMMA CalmSponsors == ASSUME NEW section, IsFiniteSet(DOMAIN section) PROVE Calm(SponsorsImport(section))
<1> DEFINE ids == SetToSeq(DOMAIN section)
           writes(s) == IF section[s].logo = Absent THEN <<HSet("sponsor", s, section[s])>>
                                                    ELSE SponsorWrites(s, section[s])
           p == [k \in DOMAIN ids |-> writes(ids[k])]
<1>1. Len(ids) \in Nat /\ DOMAIN ids = 1..Len(ids) BY LaidOut
<1>2. \A s : Calm(writes(s)) BY CalmOne, CalmPairs, GentleCommands
<1>3. SponsorsImport(section) = FlattenSeq(p) BY DEF SponsorsImport
<1> HIDE DEF ids, writes
<1>4. \A k \in 1..Len(ids) : Calm(p[k]) BY <1>1, <1>2
<1>5. DOMAIN p = 1..Len(ids) /\ p = [k \in 1..Len(ids) |-> p[k]] BY <1>1
<1> HIDE DEF p
<1>6. QED BY <1>1, <1>3, <1>4, <1>5, CalmFlattened

LEMMA CalmImages == ASSUME NEW section, IsFiniteSet(DOMAIN section) PROVE Calm(ImagesImport(section))
<1> DEFINE slots == SetToSeq(DOMAIN section)
           p == [k \in DOMAIN slots |-> ImageWrites(slots[k], section[slots[k]])]
<1>1. Len(slots) \in Nat /\ DOMAIN slots = 1..Len(slots) BY LaidOut
<1>2. ImagesImport(section) = FlattenSeq(p) BY DEF ImagesImport
<1> HIDE DEF slots
<1>3. \A k \in 1..Len(slots) : Calm(p[k]) BY <1>1, CalmPairs
<1>4. DOMAIN p = 1..Len(slots) /\ p = [k \in 1..Len(slots) |-> p[k]] BY <1>1
<1> HIDE DEF p
<1>5. QED BY <1>1, <1>2, <1>3, <1>4, CalmFlattened

LEMMA CalmAi == ASSUME NEW file, NEW list, IsFiniteSet(DOMAIN file.challenges) PROVE Calm(AiImport(file, list))
<1> DEFINE all == Joined(list, file.list)
           spelt(n) == all[CHOOSE k \in Alike(all, n) : \A j \in Alike(all, n) : j <= k]
           row(a) == [file.challenges[a] EXCEPT !.cat = spelt(@)]
           key(a) == IF file.challenges[a].sign = Absent THEN HSetNx("sign", a, Fresh(a))
                                                 ELSE HSet("sign", a, file.challenges[a].sign)
           ids == SetToSeq(DOMAIN file.challenges)
           p == [k \in DOMAIN ids |-> Append(TargetWrites(ids[k], row(ids[k])), key(ids[k]))]
<1>1. Len(ids) \in Nat /\ DOMAIN ids = 1..Len(ids) BY LaidOut
<1>2. AiImport(file, list) = FlattenSeq(p) \o <<HSet("list", "all", all)>> BY DEF AiImport
<1> HIDE DEF ids, all, row
<1>3. \A a : Gentle(key(a)) BY GentleCommands
<1> HIDE DEF key
<1>4. \A a, f : Calm(Append(TargetWrites(a, f), key(a)))
  <2> SUFFICES ASSUME NEW a, NEW f PROVE Calm(Append(TargetWrites(a, f), key(a))) OBVIOUS
  <2>1. PICK S : TargetWrites(a, f) \in Seq(S) /\ \A c \in S : Gentle(c) BY CalmTarget DEF Calm
  <2>2. Append(TargetWrites(a, f), key(a)) \in Seq(S \union {key(a)}) BY <2>1
  <2>3. QED BY <1>3, <2>1, <2>2 DEF Calm
<1>5. \A k \in 1..Len(ids) : Calm(p[k]) BY <1>1, <1>4
<1>6. DOMAIN p = 1..Len(ids) /\ p = [k \in 1..Len(ids) |-> p[k]] BY <1>1
<1> HIDE DEF p
<1>7. Calm(FlattenSeq(p)) BY <1>1, <1>5, <1>6, CalmFlattened
<1>8. Calm(<<HSet("list", "all", all)>>) BY CalmOne, GentleCommands
<1>9. QED BY <1>2, <1>7, <1>8, CalmJoined

\* The store stays finite, and only what is not gentle ends a pause.
LEMMA EffectKeeps ==
    ASSUME NEW all, IsFiniteSet(DOMAIN all), NEW c, Gentle(c)
    PROVE  IsFiniteSet(DOMAIN Effect(all, c)) /\ (Frozen(all) => Frozen(Effect(all, c)))
<1> DEFINE P == <<"box", "frozen">>
           E == Effect(all, c)
<1>1. IsFiniteSet({c.at} \union DOMAIN all) BY FS_AddElement
<1>2. CASE c.do = "set"
  <2>1. E = Put(all, c.at, c.val) BY <1>2 DEF Effect
  <2>2. DOMAIN E = {c.at} \union DOMAIN all /\ E[c.at] = c.val /\ \A x \in DOMAIN all : x # c.at => E[x] = all[x] BY <2>1 DEF Put
  <2> HIDE DEF E
  <2>3. QED BY <1>1, <1>2, <2>2 DEF Frozen, Gentle, E
<1>3. CASE c.do = "nx"
  <2>1. E = IF c.at \in DOMAIN all THEN all ELSE Put(all, c.at, c.val) BY <1>3 DEF Effect
  <2>2. DOMAIN E = {c.at} \union DOMAIN all /\ \A x \in DOMAIN all : E[x] = all[x] BY <2>1 DEF Put
  <2> HIDE DEF E
  <2>3. QED BY <1>1, <2>2 DEF Frozen, E
<1>4. CASE c.do = "del"
  <2>1. E = [x \in DOMAIN all \ {c.at} |-> all[x]] BY <1>4 DEF Effect, Restrict
  <2>2. DOMAIN E = DOMAIN all \ {c.at} /\ \A x \in DOMAIN all : x # c.at => E[x] = all[x] BY <2>1
  <2> HIDE DEF E
  <2>3. IsFiniteSet(DOMAIN E) BY <2>2, FS_Subset
  <2>4. QED BY <1>4, <2>2, <2>3 DEF Frozen, Gentle, E
<1>5. CASE c.do = "clear"
  <2>1. E = [x \in {x \in DOMAIN all : x[1] # c.at[1]} |-> all[x]] BY <1>5 DEF Effect, Restrict
  <2>2. DOMAIN E \subseteq DOMAIN all /\ \A x \in DOMAIN all : x[1] # c.at[1] => x \in DOMAIN E /\ E[x] = all[x] BY <2>1
  <2> HIDE DEF E
  <2>3. IsFiniteSet(DOMAIN E) BY <2>2, FS_Subset
  <2>4. P[1] = "box" OBVIOUS
  <2>5. QED BY <1>5, <2>2, <2>3, <2>4 DEF Frozen, Gentle, E
<1>6. CASE c.do = "read" BY <1>6 DEF Effect
<1>7. QED BY <1>2, <1>3, <1>4, <1>5, <1>6 DEF Gentle

LEMMA PauseIsSet == ASSUME NEW all PROVE Frozen(Effect(all, HSet("box", "frozen", TRUE)))
<1> DEFINE c == HSet("box", "frozen", TRUE)
<1>1. c.do = "set" /\ c.at = <<"box", "frozen">> /\ c.val = TRUE BY DEF HSet
<1> HIDE DEF c
<1>2. Effect(all, c) = Put(all, c.at, c.val) BY <1>1 DEF Effect
<1>3. c.at \in DOMAIN Effect(all, c) /\ Effect(all, c)[c.at] = c.val BY <1>2 DEF Put
<1>4. QED BY <1>1, <1>3 DEF Frozen, c

LEMMA HashIsFinite == ASSUME NEW all, IsFiniteSet(DOMAIN all), NEW h PROVE IsFiniteSet(DOMAIN Hash(all, h))
<1> DEFINE S == {x \in DOMAIN all : x[1] = h}
<1>1. IsFiniteSet(S) BY FS_Subset
<1>2. Fields(all, h) = {c[2] : c \in S} BY DEF Fields
<1>3. IsFiniteSet({c[2] : c \in S})
  <2> HIDE DEF S
  <2> DEFINE f == [c \in S |-> c[2]]
             T == {c[2] : c \in S}
  <2>1. f \in Surjection(S, T) BY DEF Surjection
  <2> HIDE DEF f, T
  <2>2. IsFiniteSet(T) BY <1>1, <2>1, FS_Surjection
  <2>3. QED BY <2>2 DEF T
<1>4. QED BY <1>2, <1>3 DEF Hash

LEMMA HeardIsFinite == ASSUME NEW d, Orderly(desk[d]), NEW h PROVE IsFiniteSet(DOMAIN Heard(d, h))
BY FS_EmptySet DEF Orderly, Heard, NoCells

\* What an export writes is a file.
LEMMA ExportsAreFiles == ASSUME NEW d, Orderly(desk[d]) PROVE IsFile(FileOf(d))
<1> DEFINE records == Heard(d, "question")
           keys == Heard(d, "key")
           row(q) == [id |-> q, choices |-> records[q].choices, single |-> records[q].single,
                      blank |-> records[q].blank, correct |-> IF q \in DOMAIN keys THEN keys[q] ELSE <<>>]
           S == {row(q) : q \in DOMAIN records}
           s == SetToSeq(S)
<1>1. FileOf(d).quiz = s BY DEF FileOf, QuizExport
<1>2. IsFiniteSet(S)
  <2>1. IsFiniteSet(DOMAIN records) BY HeardIsFinite
  <2> HIDE DEF records, keys, row
  <2> DEFINE f == [q \in DOMAIN records |-> row(q)]
  <2>2. f \in Surjection(DOMAIN records, S) BY DEF Surjection
  <2> HIDE DEF f, S
  <2>3. QED BY <2>1, <2>2, FS_Surjection
<1> HIDE DEF S
<1>3. s \in Seq(S) /\ ToSet(s) = S BY <1>2, LaidOut
<1> HIDE DEF s
<1>4. Range(s) = ToSet(s) BY DEF Range, ToSet
<1>5. s \in Seq(Range(s)) BY <1>3, <1>4
<1>6. /\ DOMAIN FileOf(d).ai.challenges = DOMAIN Heard(d, "record")
      /\ DOMAIN FileOf(d).sponsors = DOMAIN Heard(d, "sponsor")
      /\ DOMAIN FileOf(d).images = DOMAIN Heard(d, "data")
  BY DEF FileOf, AiExport, SponsorsExport, ImagesExport
<1>7. QED BY <1>1, <1>5, <1>6, HeardIsFinite DEF IsFile

\* A request that moves on, and nothing that ends a pause or spoils the shelf.
Quietly == /\ IsFiniteSet(DOMAIN cells') /\ (Frozen(cells) => Frozen(cells'))
           /\ shelf' = shelf \/ IsFile(shelf'.file)
LEMMA OthersStay == ASSUME NEW w, Sound(w, cells), Quietly PROVE Sound(w, cells')
BY DEF Sound, Pausing, Quietly

LEMMA TurnsStay ==
    ASSUME Steady, Quietly, NEW d \in Desks, NEW step, NEW todo, NEW next, NEW ok, NEW heard, NEW wrote, NEW reply,
           Turns(d, step, todo, next, ok, heard, wrote, reply),
           step # "idle" => Sound(Turned(desk[d], step, todo, next, ok, heard, wrote, reply), cells')
    PROVE  Steady'
<1> DEFINE w == Turned(desk[d], step, todo, next, ok, heard, wrote, reply)
<1>1. w = Kept(w) /\ w.step = step BY DEF Kept, Turned
<1>2. desk' = [desk EXCEPT ![d] = w] BY DEF Turns
<1>3. step # "idle" => Sound(w, cells') OBVIOUS
<1> HIDE DEF w
<1>4. desk'[d] = w /\ (\A e \in Desks : e # d => desk'[e] = desk[e]) /\ desk' = [e \in Desks |-> desk'[e]]
  BY <1>2 DEF Steady, Shaped
<1>5. Shaped' BY <1>1, <1>4 DEF Steady, Shaped
<1>6. \A e \in Desks : desk'[e].step # "idle" => Sound(desk'[e], cells')
  <2> SUFFICES ASSUME NEW e \in Desks, desk'[e].step # "idle" PROVE Sound(desk'[e], cells') OBVIOUS
  <2>1. CASE e = d BY <1>1, <1>3, <1>4, <2>1
  <2>2. CASE e # d BY <1>4, <2>2, OthersStay DEF Steady
  <2>3. QED BY <2>1, <2>2
<1>7. IsFiniteSet(DOMAIN cells') /\ (shelf'.file.kind = "archive" => IsFile(shelf'.file)) BY DEF Steady, Quietly
<1>8. QED BY <1>5, <1>6, <1>7 DEF Steady

LEMMA BeginStays ==
    ASSUME Steady, NEW d \in Desks, NEW ask, NEW todo, NEW next, Begin(d, ask, todo, next), UNCHANGED shelf, Calm(todo),
           next \notin Late \union {"clear"},
           next \in Importing => IsFile(ask.file),
           next = "sheet" => ask.file \in Sheets,
           next = "place" => ask.ids \in Orders
    PROVE  Steady'
<1>1. /\ desk' = [e \in Desks |-> desk'[e]]
      /\ desk'[d] = Kept(desk'[d]) /\ Opened(desk'[d], ask, todo, next)
      /\ \A e \in Desks : e # d =>
           \/ desk'[e] = desk[e]
           \/ desk[e].step # "idle" /\ desk'[e] = [desk[e] EXCEPT !.met = @ \union {ask.op}]
  BY BeginIs DEF Steady
<1>2. UNCHANGED cells BY DEF Begin
<1>3. Sound(desk'[d], cells)
  <2>1. \A h \in DOMAIN NoCells : FALSE BY DEF NoCells
  <2>2. QED BY <1>1, <2>1 DEF Sound, Orderly, Pausing, Opened, Stage, Late
<1>4. ASSUME NEW e \in Desks, e # d
      PROVE  desk'[e].step # "idle" => desk'[e] = Kept(desk'[e]) /\ Sound(desk'[e], cells)
  <2>1. CASE desk'[e] = desk[e] BY <2>1 DEF Steady, Shaped
  <2>2. CASE desk[e].step # "idle" /\ desk'[e] = [desk[e] EXCEPT !.met = @ \union {ask.op}]
    <3> DEFINE w == desk[e]
               m == w.met \union {ask.op}
               v == [w EXCEPT !.met = m]
    <3>1. w = Kept(w) /\ Sound(w, cells) BY <2>2 DEF Steady, Shaped
    <3>2. desk'[e] = v /\ w.met \subseteq m BY <2>2
    <3> HIDE DEF m, w
    <3>3. /\ v = Kept(v) /\ v.ask = w.ask /\ v.step = w.step /\ v.todo = w.todo /\ v.next = w.next
          /\ v.ok = w.ok /\ v.heard = w.heard /\ v.met = m
      BY <3>1, MetIs
    <3> HIDE DEF v
    <3>4. QED BY <3>1, <3>2, <3>3 DEF Sound, Orderly, Pausing, Stage, w
  <2>3. QED BY <1>1, <1>4, <2>1, <2>2
<1>5. QED BY <1>1, <1>2, <1>3, <1>4 DEF Steady, Shaped

LEMMA SendStays ==
    ASSUME Steady, NEW d \in Desks, NEW todo, NEW next, Send(d, todo, next), cells' = cells, shelf' = shelf,
           Calm(todo), desk[d].step \notin {"idle", "pipe"}, next \notin {"sheet", "place"},
           next \in Importing => desk[d].step \in Importing,
           next \in Late => desk[d].step \in Late \union {"clear"},
           next = "clear" => todo # <<>> /\ Head(todo) = HSet("box", "frozen", TRUE)
    PROVE  Steady'
<1> DEFINE q == desk[d]
           w == Turned(q, "pipe", todo, next, q.ok, q.heard, q.wrote, q.reply)
<1>1. Sound(q, cells) /\ Turns(d, "pipe", todo, next, q.ok, q.heard, q.wrote, q.reply) BY SendIs DEF Steady
<1>2. w.ask = q.ask /\ w.step = "pipe" /\ w.todo = todo /\ w.next = next /\ w.heard = q.heard /\ w.met = q.met BY DEF Turned
<1>3. Sound(w, cells)
  <2> HIDE DEF q, w
  <2>1. q.step \notin {"idle", "pipe"} /\ (next \in Importing => q.step \in Importing) /\ (next \in Late => q.step \in Late \union {"clear"})
    BY DEF q
  <2>2. QED BY <1>1, <1>2, <2>1 DEF Sound, Orderly, Pausing, Stage, Late
<1>4. Quietly BY DEF Quietly, Steady
<1>5. QED BY <1>1, <1>3, <1>4, TurnsStay

LEMMA CloseStays ==
    ASSUME Steady, NEW d \in Desks, NEW fine, Close(d, fine), UNCHANGED cells, shelf' = shelf \/ IsFile(shelf'.file),
           desk[d].step # "idle"
    PROVE  Steady'
<1> DEFINE q == desk[d]
           w == Turned(q, "closed", <<>>, "closed", fine, NoCells, q.wrote, q.reply)
<1>1. Turns(d, "closed", <<>>, "closed", fine, NoCells, q.wrote, q.reply) BY CloseIs DEF Steady
<1>2. w.step = "closed" /\ w.todo = <<>> /\ w.heard = NoCells BY DEF Turned
<1>3. Sound(w, cells)
  <2>1. \A h \in DOMAIN NoCells : FALSE BY DEF NoCells
  <2> HIDE DEF w
  <2>2. QED BY <1>2, <2>1, CalmNone DEF Sound, Orderly, Pausing, Stage, Importing, Late
<1>4. Quietly BY DEF Quietly, Steady
<1>5. QED BY <1>1, <1>3, <1>4, TurnsStay

LEMMA RunNextStays == ASSUME Steady, NEW d \in Desks, RunNext(d), UNCHANGED shelf PROVE Steady'
<1> DEFINE q == desk[d]
           c == Head(q.todo)
           rest == Tail(q.todo)
           wrote == q.wrote \/ c.do # "read"
           w == Turned(q, "pipe", rest, q.next, q.ok, Hears(q, c), wrote, q.reply)
<1>1. Turns(d, "pipe", rest, q.next, q.ok, Hears(q, c), wrote, q.reply) /\ q.step = "pipe" /\ q.todo # <<>> /\ cells' = Effect(cells, c)
  BY RunNextIs DEF Steady
<1>2. Sound(q, cells) BY <1>1 DEF Steady
<1>3. Gentle(c) /\ Calm(rest) BY <1>1, <1>2, CalmRest DEF Sound, Orderly
<1>4. w.ask = q.ask /\ w.step = "pipe" /\ w.todo = rest /\ w.next = q.next /\ w.ok = q.ok /\ w.heard = Hears(q, c) /\ w.met = q.met
  BY DEF Turned
<1>5. IsFiniteSet(DOMAIN cells') /\ (Frozen(cells) => Frozen(cells'))
  <2> HIDE DEF c
  <2>1. QED BY <1>1, <1>3, EffectKeeps DEF Steady
<1>6. c = HSet("box", "frozen", TRUE) => Frozen(cells') BY <1>1, PauseIsSet
<1>7. \A h \in DOMAIN Hears(q, c) : IsFiniteSet(DOMAIN Hears(q, c)[h])
  <2>1. \A h \in DOMAIN q.heard : IsFiniteSet(DOMAIN q.heard[h]) BY <1>2 DEF Sound, Orderly
  <2>2. IsFiniteSet(DOMAIN Hash(cells, c.at[1])) BY HashIsFinite DEF Steady
  <2> HIDE DEF q, c
  <2> DEFINE n == Put(q.heard, c.at[1], Hash(cells, c.at[1]))
  <2>3. \A h \in DOMAIN n : n[h] = Hash(cells, c.at[1]) \/ (h \in DOMAIN q.heard /\ n[h] = q.heard[h]) BY DEF Put
  <2> HIDE DEF n
  <2>4. \A h \in DOMAIN n : IsFiniteSet(DOMAIN n[h]) BY <2>1, <2>2, <2>3
  <2>5. QED BY <2>1, <2>4 DEF Hears, n
<1>8. Sound(w, cells')
  <2> HIDE DEF w
  <2>1. Orderly(w) BY <1>1, <1>2, <1>3, <1>4, <1>7 DEF Sound, Orderly, Stage
  <2>2. Pausing(w, cells') BY <1>1, <1>2, <1>4, <1>5, <1>6 DEF Sound, Pausing, Late
  <2>3. QED BY <2>1, <2>2 DEF Sound
<1> HIDE DEF c, rest, wrote
<1>9. Quietly BY <1>5 DEF Quietly
<1>10. QED BY <1>1, <1>8, <1>9, TurnsStay

LEMMA NextRefusedStays == ASSUME Steady, NEW d \in Desks, NextRefused(d), UNCHANGED shelf PROVE Steady'
<1> DEFINE q == desk[d]
           ok == q.ok /\ Head(q.todo).lax
           rest == Tail(q.todo)
           w == Turned(q, "pipe", rest, q.next, ok, q.heard, q.wrote, q.reply)
<1>1. Turns(d, "pipe", rest, q.next, ok, q.heard, q.wrote, q.reply) /\ q.step = "pipe" /\ q.todo # <<>> BY NextRefusedIs DEF Steady
<1>2. Sound(q, cells) BY <1>1 DEF Steady
<1>3. Calm(rest) BY <1>1, <1>2, CalmRest DEF Sound, Orderly
<1>4. w.ask = q.ask /\ w.step = "pipe" /\ w.todo = rest /\ w.next = q.next /\ w.ok = ok /\ w.heard = q.heard /\ w.met = q.met
  BY DEF Turned
<1>5. Head(q.todo) = HSet("box", "frozen", TRUE) => ~ok BY DEF HSet
<1>6. ok => q.ok OBVIOUS
<1> HIDE DEF w, rest, ok
<1>7. Sound(w, cells)
  <2>1. Orderly(w) BY <1>1, <1>2, <1>3, <1>4 DEF Sound, Orderly, Stage
  <2>2. Pausing(w, cells) BY <1>1, <1>2, <1>4, <1>5, <1>6 DEF Sound, Pausing, Late
  <2>3. QED BY <2>1, <2>2 DEF Sound
<1>8. UNCHANGED cells /\ Quietly BY DEF NextRefused, Quietly, Steady
<1>9. QED BY <1>1, <1>7, <1>8, TurnsStay DEF w

LEMMA PipelineDoneStays == ASSUME Steady, NEW d \in Desks, PipelineDone(d), UNCHANGED shelf PROVE Steady'
<1> DEFINE q == desk[d]
           w == Turned(q, q.next, q.todo, q.next, q.ok, q.heard, q.wrote, q.reply)
<1>1. UNCHANGED cells /\ Quietly BY DEF PipelineDone, Quietly, Steady
<1>2. CASE ~q.ok \/ q.next = "closed" BY <1>1, <1>2, CloseStays DEF PipelineDone
<1>3. CASE ~(~q.ok \/ q.next = "closed")
  <2>1. Turns(d, q.next, q.todo, q.next, q.ok, q.heard, q.wrote, q.reply) /\ q.step = "pipe" /\ q.todo = <<>>
    BY <1>3, GoesOnIs DEF Steady
  <2>2. Sound(q, cells) BY <2>1 DEF Steady
  <2>3. w.ask = q.ask /\ w.step = q.next /\ w.todo = q.todo /\ w.next = q.next /\ w.ok = q.ok /\ w.heard = q.heard /\ w.met = q.met
    BY DEF Turned
  <2>4. q.ok BY <1>3
  <2>5. Sound(w, cells)
    <3> HIDE DEF q, w
    <3>1. Orderly(w) BY <2>1, <2>2, <2>3 DEF Sound, Orderly, Stage
    <3>2. Pausing(w, cells) BY <2>1, <2>2, <2>3, <2>4 DEF Sound, Pausing, Late
    <3>3. QED BY <3>1, <3>2 DEF Sound
  <2>6. QED BY <1>1, <2>1, <2>5, TurnsStay
<1>4. QED BY <1>2, <1>3

\* No request of the banks, of sponsors or of images touches the pause.
LEMMA CalmReads == ASSUME NEW h PROVE Calm(<<Get(h)>>) /\ Calm(<<GetOrEmpty(h)>>)
BY CalmOne, GentleCommands
LEMMA CalmSet == ASSUME NEW h, h # "box", NEW i, NEW v PROVE Calm(<<HSet(h, i, v)>>)
BY CalmOne, GentleCommands

LEMMA CalmPair == ASSUME NEW a, NEW b, Gentle(a), Gentle(b) PROVE Calm(<<a, b>>)
<1> DEFINE S == {a, b}
<1>1. <<a, b>> \in Seq(S) /\ \A c \in S : Gentle(c) OBVIOUS
<1> HIDE DEF S
<1>2. QED BY <1>1 DEF Calm

LEMMA CalmEach == ASSUME NEW N \in Nat, NEW p, DOMAIN p = 1..N, p = [k \in 1..N |-> p[k]], \A k \in 1..N : Gentle(p[k])
                  PROVE  Calm(p)
<1> DEFINE S == {p[k] : k \in 1..N}
<1>1. p \in Seq(S) /\ \A c \in S : Gentle(c) OBVIOUS
<1> HIDE DEF S
<1>2. QED BY <1>1 DEF Calm

LEMMA CalmMoves == ASSUME NEW D, IsFiniteSet(D), NEW row PROVE Calm(SetToSeq({HSet("record", a, row[a]) : a \in D}))
<1> DEFINE as(a) == HSet("record", a, row[a])
           S == {as(a) : a \in D}
<1>1. \A a : Gentle(as(a)) BY GentleCommands
<1> HIDE DEF as
<1>2. IsFiniteSet(S)
  <2> DEFINE f == [a \in D |-> as(a)]
  <2>1. f \in Surjection(D, S) BY DEF Surjection
  <2> HIDE DEF f, S
  <2>2. QED BY <2>1, FS_Surjection
<1>3. \A c \in S : Gentle(c) BY <1>1
<1> HIDE DEF S
<1>4. SetToSeq(S) \in Seq(S) BY <1>2, LaidOut
<1>5. Calm(SetToSeq(S)) BY <1>3, <1>4 DEF Calm
<1>6. QED BY <1>5 DEF S, as

LEMMA CalmPlaces == ASSUME NEW held, NEW ids, ids \in Seq(Range(ids))
                    PROVE  LET row(k) == HSet("sponsor", ids[k], [held[ids[k]] EXCEPT !.place = k - 1])
                           IN  Calm(FlattenSeq([k \in DOMAIN ids |-> IF ids[k] \in DOMAIN held THEN <<row(k)>> ELSE <<>>]))
<1> DEFINE row(k) == HSet("sponsor", ids[k], [held[ids[k]] EXCEPT !.place = k - 1])
           p == [k \in DOMAIN ids |-> IF ids[k] \in DOMAIN held THEN <<row(k)>> ELSE <<>>]
<1>1. Len(ids) \in Nat /\ DOMAIN ids = 1..Len(ids) OBVIOUS
<1>2. \A k : Calm(<<row(k)>>) BY CalmOne, GentleCommands
<1> HIDE DEF row
<1>3. \A k \in 1..Len(ids) : Calm(p[k]) BY <1>1, <1>2, CalmNone
<1>4. DOMAIN p = 1..Len(ids) /\ p = [k \in 1..Len(ids) |-> p[k]] BY <1>1
<1> HIDE DEF p
<1>5. Calm(FlattenSeq(p)) BY <1>1, <1>3, <1>4, CalmFlattened
<1>6. QED BY <1>5 DEF p, row

LEMMA BanksStay == ASSUME Steady, NEW d \in Desks, Handlers(d) \/ Pipelines(d), UNCHANGED shelf PROVE Steady'
<1> USE DEF Importing, Late
<1>1. CASE PostQuestion(d) BY <1>1, BeginStays, CalmPairs DEF PostQuestion
<1>2. CASE DropQuestion(d) BY <1>2, BeginStays, CalmPair, GentleCommands DEF DropQuestion
<1>3. CASE PostSheet(d) BY <1>3, BeginStays, CalmReads, CalmSet DEF PostSheet
<1>4. CASE PostDraft(d)
  <2>1. PICK a \in Targets, f \in Drafts : Begin(d, [op |-> "draft", id |-> a, draft |-> f], <<GetOrEmpty("list")>>, "admit")
    BY <1>4 DEF PostDraft
  <2>2. Calm(<<GetOrEmpty("list")>>) BY CalmReads
  <2>3. QED BY <2>1, <2>2, BeginStays
<1>5. CASE Rotate(d) BY <1>5, BeginStays, CalmReads, CalmSet DEF Rotate
<1>6. CASE DropTarget(d)
  <2>1. PICK a \in Targets :
          Begin(d, [op |-> "dropTarget", id |-> a], [k \in DOMAIN Secrets |-> HDel(Secrets[k], a)], "closed")
    BY <1>6 DEF DropTarget
  <2> DEFINE p == [k \in DOMAIN Secrets |-> HDel(Secrets[k], a)]
  <2>2. DOMAIN Secrets = 1..5 /\ \A k \in 1..5 : Secrets[k] # "box" BY DEF Secrets
  <2>3. DOMAIN p = 1..5 /\ p = [k \in 1..5 |-> p[k]] BY <2>2
  <2>4. \A k \in 1..5 : Gentle(p[k]) BY <2>2, GentleCommands
  <2> HIDE DEF p
  <2>5. Calm(p) BY <2>3, <2>4, CalmEach
  <2>6. QED BY <2>1, <2>5, BeginStays DEF p
<1>7. CASE SetList(d) BY <1>7, BeginStays, CalmReads, CalmSet DEF SetList
<1>8. CASE RenameLabel(d)
  <2>1. PICK from \in Labels, to \in Labels :
          Begin(d, [op |-> "rename", from |-> from, to |-> to], <<GetOrEmpty("list")>>, "collide")
    BY <1>8 DEF RenameLabel
  <2>2. Calm(<<GetOrEmpty("list")>>) BY CalmReads
  <2>3. QED BY <2>1, <2>2, BeginStays
<1>9. CASE WriteSheet(d)
  <2>1. desk[d].ask.file \in Sheets BY <1>9 DEF WriteSheet, Steady, Sound, Orderly, Stage
  <2> DEFINE todo == QuizImport(desk[d].ask.file)
  <2>2. Calm(todo) BY <2>1, CalmQuiz, SheetsAreLists
  <2>3. Send(d, todo, "closed") /\ desk[d].step = "sheet" /\ cells' = cells BY <1>9 DEF WriteSheet
  <2> HIDE DEF todo
  <2>4. QED BY <2>2, <2>3, SendStays
<1>10. CASE Admit(d)
  <2> DEFINE todo == <<Unchecked(HSetNx("sign", desk[d].ask.id, Fresh(desk[d].ask.id))), Get("sign")>>
  <2>1. Calm(todo) BY CalmPair, GentleCommands
  <2>2. /\ desk[d].step = "admit" /\ cells' = cells
        /\ Send(d, todo, "keyed") \/ Close(d, FALSE)
    BY <1>10 DEF Admit
  <2> HIDE DEF todo
  <2>3. CASE Send(d, todo, "keyed") BY <2>1, <2>2, <2>3, SendStays
  <2>4. CASE Close(d, FALSE) BY <2>2, <2>4, CloseStays
  <2>5. QED BY <2>2, <2>3, <2>4
<1>11. CASE Keyed(d)
  <2>1. CASE desk[d].ask.id \in DOMAIN Heard(d, "sign")
    <3> DEFINE q == desk[d]
               todo == TargetWrites(q.ask.id, q.ask.draft)
               key == Heard(d, "sign")[q.ask.id]
               w == Turned(q, "pipe", todo, "closed", q.ok, q.heard, q.wrote, key)
    <3>1. Turns(d, "pipe", todo, "closed", q.ok, q.heard, q.wrote, key) BY <1>11, <2>1, KeyedIs DEF Steady
    <3>2. Calm(todo) BY CalmTarget
    <3>3. UNCHANGED cells /\ q.step = "keyed" /\ Sound(q, cells) BY <1>11 DEF Keyed, Steady
    <3>4. w.step = "pipe" /\ w.todo = todo /\ w.next = "closed" /\ w.heard = q.heard BY DEF Turned
    <3> HIDE DEF w, todo, key, q
    <3>5. Sound(w, cells) BY <3>2, <3>3, <3>4 DEF Sound, Orderly, Pausing, Stage
    <3>6. Quietly BY <3>3 DEF Quietly, Steady
    <3>7. QED BY <3>1, <3>3, <3>5, <3>6, TurnsStay DEF w, q
  <2>2. CASE ~(desk[d].ask.id \in DOMAIN Heard(d, "sign")) BY <1>11, <2>2, CloseStays DEF Keyed
  <2>3. QED BY <2>1, <2>2
<1>12. CASE Known(d)
  <2> DEFINE todo == <<HSet("sign", desk[d].ask.id, Fresh(desk[d].ask.id))>>
  <2>1. Calm(todo) BY CalmSet
  <2>2. /\ desk[d].step = "known" /\ cells' = cells
        /\ Send(d, todo, "closed") \/ Close(d, FALSE)
    BY <1>12 DEF Known
  <2> HIDE DEF todo
  <2>3. CASE Send(d, todo, "closed") BY <2>1, <2>2, <2>3, SendStays
  <2>4. CASE Close(d, FALSE) BY <2>2, <2>4, CloseStays
  <2>5. QED BY <2>2, <2>3, <2>4
<1>13. CASE Collide(d)
  <2> DEFINE todo == <<Get("record")>>
  <2>1. Calm(todo) BY CalmReads
  <2>2. /\ desk[d].step = "collide" /\ cells' = cells
        /\ Send(d, todo, "move") \/ Close(d, FALSE)
    BY <1>13 DEF Collide
  <2> HIDE DEF todo
  <2>3. CASE Send(d, todo, "move") BY <2>1, <2>2, <2>3, SendStays
  <2>4. CASE Close(d, FALSE) BY <2>2, <2>4, CloseStays
  <2>5. QED BY <2>2, <2>3, <2>4
<1>14. CASE Move(d)
  <2>1. IsFiniteSet(DOMAIN Heard(d, "record")) BY <1>14, HeardIsFinite DEF Move, Steady, Sound
  <2> DEFINE held == Heard(d, "record")
             as(a) == HSet("record", a, [held[a] EXCEPT !.cat = desk[d].ask.to])
             moving == {a \in DOMAIN held : held[a].cat = desk[d].ask.from}
             row == [a \in moving |-> [held[a] EXCEPT !.cat = desk[d].ask.to]]
             S == {as(a) : a \in moving}
             todo == SetToSeq(S)
  <2>2. IsFiniteSet(moving) BY <2>1, FS_Subset
  <2>3. S = {HSet("record", a, row[a]) : a \in moving} OBVIOUS
  <2>4. desk[d].step = "move" /\ cells' = cells /\ Send(d, todo, "relist") BY <1>14 DEF Move
  <2> HIDE DEF moving, row, S
  <2>5. Calm(todo) BY <2>2, <2>3, CalmMoves
  <2> HIDE DEF todo
  <2>6. QED BY <2>4, <2>5, SendStays
<1>15. CASE Relist(d)
  <2> DEFINE list == Categories(d)
             todo == <<HSet("list", "all", [list EXCEPT ![Entry(list, desk[d].ask.from)] = desk[d].ask.to])>>
  <2>1. Calm(todo) BY CalmSet
  <2>2. desk[d].step = "relist" /\ cells' = cells /\ Send(d, todo, "closed") BY <1>15 DEF Relist
  <2> HIDE DEF todo
  <2>3. QED BY <2>1, <2>2, SendStays
<1>16. CASE RestLost(d) BY <1>16, CloseStays DEF RestLost
<1>17. QED
  BY <1>1, <1>2, <1>3, <1>4, <1>5, <1>6, <1>7, <1>8, <1>9, <1>10, <1>11, <1>12, <1>13, <1>14, <1>15, <1>16,
     RunNextStays, NextRefusedStays, PipelineDoneStays DEF Handlers, Pipelines

LEMMA BrandsStay == ASSUME Steady, NEW d \in Desks, BrandHandlers(d), UNCHANGED shelf PROVE Steady'
<1> USE DEF Importing, Late
<1>1. CASE PostSponsor(d)
  <2>1. PICK s, ask, row :
          Begin(d, ask, <<Get("sponsor")>>, "keep") \/ Begin(d, ask, SponsorWrites(s, row), "closed")
    BY <1>1 DEF PostSponsor
  <2>2. Calm(<<Get("sponsor")>>) /\ Calm(SponsorWrites(s, row)) BY CalmReads, CalmPairs
  <2>3. CASE Begin(d, ask, <<Get("sponsor")>>, "keep") BY <2>2, <2>3, BeginStays
  <2>4. CASE Begin(d, ask, SponsorWrites(s, row), "closed") BY <2>2, <2>4, BeginStays
  <2>5. QED BY <2>1, <2>3, <2>4
<1>2. CASE KeepLogo(d)
  <2>1. PICK row : Send(d, <<HSet("sponsor", desk[d].ask.id, row)>>, "closed") BY <1>2 DEF KeepLogo
  <2> DEFINE todo == <<HSet("sponsor", desk[d].ask.id, row)>>
  <2>2. Calm(todo) BY CalmSet
  <2>3. desk[d].step = "keep" /\ cells' = cells BY <1>2 DEF KeepLogo
  <2>4. Send(d, todo, "closed") BY <2>1
  <2> HIDE DEF todo
  <2>5. QED BY <2>2, <2>3, <2>4, SendStays
<1>3. CASE DropSponsor(d) BY <1>3, BeginStays, CalmPair, GentleCommands DEF DropSponsor
<1>4. CASE Reorder(d) BY <1>4, BeginStays, CalmReads, CalmSet DEF Reorder
<1>5. CASE Place(d)
  <2>1. desk[d].ask.ids \in Orders BY <1>5 DEF Place, Steady, Sound, Orderly, Stage
  <2> DEFINE ids == desk[d].ask.ids
             held == Heard(d, "sponsor")
             row(k) == HSet("sponsor", ids[k], [held[ids[k]] EXCEPT !.place = k - 1])
             todo == FlattenSeq([k \in DOMAIN ids |-> IF ids[k] \in DOMAIN held THEN <<row(k)>> ELSE <<>>])
  <2>2. ids \in Seq(Range(ids)) BY <2>1, OrdersAreLists
  <2>3. Calm(todo) BY <2>2, CalmPlaces
  <2>4. desk[d].step = "place" /\ cells' = cells /\ Send(d, todo, "closed") BY <1>5 DEF Place
  <2> HIDE DEF todo
  <2>5. QED BY <2>3, <2>4, SendStays
<1>6. CASE SetImage(d) BY <1>6, BeginStays, CalmPairs DEF SetImage
<1>7. CASE ClearImage(d) BY <1>7, BeginStays, CalmPair, GentleCommands DEF ClearImage
<1>8. QED BY <1>1, <1>2, <1>3, <1>4, <1>5, <1>6, <1>7 DEF BrandHandlers

\* An import goes from its checks to its last section, the pause set on the way.
LEMMA ArchiveStays == ASSUME Steady, NEW d \in Desks, ArchiveHandlers(d) PROVE Steady'
<1>0. desk[d].step \in Importing => IsFile(desk[d].ask.file) BY DEF Importing, Late, Steady, Sound, Orderly, Stage
<1> USE DEF Importing, Late
<1>1. CASE ExportArchive(d)
  <2>1. Len(ExportReads) = 11 /\ DOMAIN ExportReads = 1..11 /\ ExportReads = [k \in 1..11 |-> ExportReads[k]] BY DEF ExportReads
  <2>2. \A k \in 1..11 : Gentle(ExportReads[k]) BY GentleCommands DEF ExportReads
  <2>3. Calm(ExportReads) BY <2>1, <2>2, CalmEach
  <2>4. QED BY <1>1, <2>3, BeginStays DEF ExportArchive
<1>2. CASE Assemble(d)
  <2>1. IsFile(FileOf(d)) BY <1>2, ExportsAreFiles DEF Assemble, Steady, Sound
  <2> DEFINE file == FileOf(d)
             whole == /\ desk[d].met = {} /\ damaged = {}
                      /\ \A k \in DOMAIN ExportReads : ExportReads[k].at[1] \in DOMAIN desk[d].heard
  <2>0. /\ desk[d].step = "assemble" /\ cells' = cells
        /\ shelf' = shelf \/ shelf' = [file |-> file, whole |-> whole]
    BY <1>2 DEF Assemble
  <2> HIDE DEF file, whole
  <2>2. desk[d].step = "assemble" /\ cells' = cells /\ (shelf' = shelf \/ shelf'.file = FileOf(d)) BY <2>0 DEF file
  <2>3. shelf' = shelf \/ IsFile(shelf'.file) BY <2>1, <2>2
  <2>4. Close(d, TRUE) \/ Close(d, FALSE) BY <1>2 DEF Assemble
  <2>5. CASE Close(d, TRUE) BY <2>2, <2>3, <2>5, CloseStays
  <2>6. CASE Close(d, FALSE) BY <2>2, <2>3, <2>6, CloseStays
  <2>7. QED BY <2>4, <2>5, <2>6
<1>3. CASE PostArchive(d)
  <2>1. PICK file \in Archives \union {shelf.file} :
          ArchiveParses(file) /\ Begin(d, [op |-> "restore", file |-> file], <<Get("box")>>, "guard") /\ UNCHANGED shelf
    BY <1>3 DEF PostArchive
  <2>2. IsFile(file) BY <2>1, ArchivesAreFiles DEF ArchiveParses, Steady
  <2>3. QED BY <2>1, <2>2, BeginStays, CalmReads, CalmSet
<1>4. CASE Guard(d)
  <2> DEFINE todo == <<HSet("settings", "policy", desk[d].ask.file.settings)>>
  <2>1. Calm(todo) BY CalmSet
  <2>2. /\ desk[d].step = "guard" /\ cells' = cells /\ shelf' = shelf
        /\ Send(d, todo, "pictures") \/ Close(d, FALSE)
    BY <1>4 DEF Guard
  <2> HIDE DEF todo
  <2>3. CASE Send(d, todo, "pictures") BY <2>1, <2>2, <2>3, SendStays
  <2>4. CASE Close(d, FALSE) BY <2>2, <2>4, CloseStays
  <2>5. QED BY <2>2, <2>3, <2>4
<1>5. CASE Pictures(d)
  <2> DEFINE todo == ImagesImport(desk[d].ask.file.images)
  <2>1. /\ desk[d].step = "pictures" /\ cells' = cells /\ shelf' = shelf
        /\ Send(d, todo, "reset")
    BY <1>5 DEF Pictures, Continue
  <2>2. Calm(todo) BY <1>0, <2>1, CalmImages DEF IsFile
  <2> HIDE DEF todo
  <2>3. QED BY <2>1, <2>2, SendStays
<1>6. CASE Reset(d)
  <2> DEFINE a == HSet("box", "frozen", TRUE)
             b == HDel("box", "progress")
             e == Del("sponsor")
             f == Del("bytes")
             todo == <<a, b, e, f>>
  <2>1. Gentle(a) /\ Gentle(b) /\ Gentle(e) /\ Gentle(f) BY GentleCommands
  <2> HIDE DEF a, b, e, f
  <2>2. DOMAIN todo = 1..4 /\ todo = [k \in 1..4 |-> todo[k]] /\ (\A k \in 1..4 : Gentle(todo[k])) /\ todo # <<>> /\ Head(todo) = a
    BY <2>1
  <2>3. Calm(todo) BY <2>2, CalmEach
  <2>4. desk[d].step = "reset" /\ Send(d, todo, "clear") /\ UNCHANGED <<cells, shelf>>
    BY <1>6 DEF Reset, Continue, a, b, e, f
  <2> HIDE DEF todo
  <2>5. QED BY <2>2, <2>3, <2>4, SendStays DEF a
<1>7. CASE Clear(d)
  <2> DEFINE todo == <<Del("question"), Del("key"),
                       Del("record"), Del("flag"), Del("norm"), Del("hint"), Del("sign"), Del("list")>>
  <2>1. DOMAIN todo = 1..8 /\ todo = [k \in 1..8 |-> todo[k]] OBVIOUS
  <2>2. /\ Gentle(todo[1]) /\ Gentle(todo[2]) /\ Gentle(todo[3]) /\ Gentle(todo[4])
        /\ Gentle(todo[5]) /\ Gentle(todo[6]) /\ Gentle(todo[7]) /\ Gentle(todo[8])
    BY GentleCommands
  <2>3. desk[d].step = "clear" /\ Send(d, todo, "quizIds") /\ UNCHANGED <<cells, shelf>> BY <1>7 DEF Clear, Continue
  <2> HIDE DEF todo
  <2>4. \A k \in 1..8 : Gentle(todo[k]) BY <2>2
  <2>5. Calm(todo) BY <2>1, <2>4, CalmEach
  <2>6. QED BY <2>3, <2>5, SendStays
<1>8. CASE QuizIds(d)
  <2> DEFINE todo == <<Get("question")>>
  <2>1. /\ desk[d].step = "quizIds" /\ cells' = cells /\ shelf' = shelf
        /\ Send(d, todo, "quiz")
    BY <1>8 DEF QuizIds, Continue
  <2>2. Calm(todo) BY CalmReads
  <2> HIDE DEF todo
  <2>3. QED BY <2>1, <2>2, SendStays
<1>9. CASE Quiz(d)
  <2> DEFINE todo == QuizImport(desk[d].ask.file.quiz)
  <2>1. /\ desk[d].step = "quiz" /\ cells' = cells /\ shelf' = shelf
        /\ Send(d, todo, "aiIds")
    BY <1>9 DEF Quiz, Continue
  <2>2. Calm(todo) BY <1>0, <2>1, CalmQuiz DEF IsFile
  <2> HIDE DEF todo
  <2>3. QED BY <2>1, <2>2, SendStays
<1>10. CASE AiIds(d)
  <2> DEFINE todo == <<Get("record"), Get("list")>>
  <2>1. /\ desk[d].step = "aiIds" /\ cells' = cells /\ shelf' = shelf
        /\ Send(d, todo, "ai")
    BY <1>10 DEF AiIds, Continue
  <2>2. Calm(todo) BY CalmPair, GentleCommands
  <2> HIDE DEF todo
  <2>3. QED BY <2>1, <2>2, SendStays
<1>11. CASE Ai(d)
  <2> DEFINE todo == AiImport(desk[d].ask.file.ai, Categories(d))
  <2>1. /\ desk[d].step = "ai" /\ cells' = cells /\ shelf' = shelf
        /\ Send(d, todo, "sponsors")
    BY <1>11 DEF Ai
  <2>2. Calm(todo) BY <1>0, <2>1, CalmAi DEF IsFile
  <2> HIDE DEF todo
  <2>3. QED BY <2>1, <2>2, SendStays
<1>12. CASE Section(d)
  <2> DEFINE todo == SponsorsImport(desk[d].ask.file.sponsors)
  <2>1. /\ desk[d].step = "sponsors" /\ cells' = cells /\ shelf' = shelf
        /\ Send(d, todo, "closed")
    BY <1>12 DEF Section, Continue
  <2>2. Calm(todo) BY <1>0, <2>1, CalmSponsors DEF IsFile
  <2> HIDE DEF todo
  <2>3. QED BY <2>1, <2>2, SendStays
<1>13. QED BY <1>1, <1>2, <1>3, <1>4, <1>5, <1>6, <1>7, <1>8, <1>9, <1>10, <1>11, <1>12 DEF ArchiveHandlers

\* ArchiveSpec => []FrozenWhileReplacing: from its first clear to its answer an
\* import runs on a frozen box, whoever else edits or imports and whatever fails,
\* unless an organizer resumes scoring (importEventBundle after resetEvent).
THEOREM ImportsRunFrozen == ArchiveSpec => []FrozenWhileReplacing
<1>1. ASSUME ArchiveInit PROVE Steady
  <2>1. PICK scene \in Scenes : cells = scene.store BY <1>1 DEF ArchiveInit
  <2>2. QED BY <1>1, <2>1, StoresAreFinite DEF ArchiveInit, Steady, Shaped, Idle, NoFile
<1>2. ASSUME Steady, [ArchiveNext]_archiveVars PROVE Steady'
  <2>1. CASE UNCHANGED archiveVars BY <1>2, <2>1 DEF archiveVars, bankVars, Steady, Shaped
  <2>2. CASE Resume
    <3> DEFINE hears(e) == IF desk[e].step = "idle" THEN desk[e] ELSE [desk[e] EXCEPT !.met = @ \union {"resume"}]
    <3>1. desk' = [e \in Desks |-> hears(e)] /\ cells' = Effect(cells, HDel("box", "frozen")) /\ UNCHANGED shelf BY <2>2 DEF Resume
    <3>2. IsFiniteSet(DOMAIN cells')
      <4>1. Effect(cells, HDel("box", "frozen")) = [x \in DOMAIN cells \ {<<"box", "frozen">>} |-> cells[x]]
        BY DEF Effect, HDel, Restrict
      <4>2. DOMAIN cells' = DOMAIN cells \ {<<"box", "frozen">>} BY <3>1, <4>1
      <4>3. QED BY <1>2, <4>2, FS_Subset DEF Steady
    <3>3. ASSUME NEW e \in Desks, hears(e).step # "idle" PROVE hears(e) = Kept(hears(e)) /\ Sound(hears(e), cells')
      <4> DEFINE w == desk[e]
                 m == w.met \union {"resume"}
                 v == [w EXCEPT !.met = m]
      <4>1. w.step # "idle" /\ hears(e) = v BY <3>3
      <4>2. w = Kept(w) /\ Sound(w, cells) BY <1>2, <4>1 DEF Steady, Shaped
      <4>3. /\ v = Kept(v) /\ v.ask = w.ask /\ v.step = w.step /\ v.todo = w.todo /\ v.next = w.next
            /\ v.ok = w.ok /\ v.heard = w.heard /\ v.met = m
        BY <4>2, MetIs
      <4>4. "resume" \in m OBVIOUS
      <4> HIDE DEF v, m, w, hears
      <4>5. QED BY <4>1, <4>2, <4>3, <4>4 DEF Sound, Orderly, Pausing, Stage
    <3> HIDE DEF hears
    <3>4. QED BY <1>2, <3>1, <3>2, <3>3 DEF Steady, Shaped
  <2>3. CASE Score
    <3> DEFINE c == HSet("box", "progress", TRUE)
    <3>1. Gentle(c) BY DEF Gentle, HSet
    <3>2. cells' = Effect(cells, c) /\ UNCHANGED <<desk, shelf>> BY <2>3 DEF Score
    <3> HIDE DEF c
    <3>3. Quietly BY <1>2, <3>1, <3>2, EffectKeeps DEF Quietly, Steady
    <3>4. QED BY <1>2, <3>2, <3>3, OthersStay DEF Steady, Shaped, Quietly
  <2>4. QED BY <1>2, <2>1, <2>2, <2>3, BanksStay, BrandsStay, ArchiveStays DEF ArchiveNext
<1>3. ASSUME Steady PROVE FrozenWhileReplacing
  <2>1. ASSUME NEW d \in Desks, Restoring(d), "resume" \notin desk[d].met, desk[d].step \in Late \union {"clear"}
        PROVE  Cell("box", "frozen") # Absent
    <3>1. Frozen(cells) BY <1>3, <2>1 DEF Steady, Sound, Pausing, Restoring
    <3>2. QED BY <3>1, AbsentIsNoFlag DEF Frozen, Cell
  <2>2. QED BY <2>1 DEF FrozenWhileReplacing, Late
<1>4. QED BY <1>1, <1>2, <1>3, PTL DEF ArchiveSpec

=============================================================================
