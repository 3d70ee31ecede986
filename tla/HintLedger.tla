----------------------------- MODULE HintLedger -----------------------------
(***************************************************************************)
(* Buying a hint with points (apps/web/src/lib/hint-store.ts) while         *)
(* organizers lower scores.  A purchase reads a balance over many round     *)
(* trips (hint-balance.ts, the leaderboard fold) and charges in one script. *)
(* What keeps the two together is shared: a score revision and a marker     *)
(* raised around every operation that lowers a score                        *)
(* (leaderboard/fold-cache.ts).                                             *)
(*                                                                          *)
(* The model is about one contestant, with requests from several tabs.      *)
(***************************************************************************)
EXTENDS Integers, Sequences, Functions, FiniteSetsExt

CONSTANTS
    Requests,      \* reveals the contestant's tabs send, each at most one
    Hints,         \* hints for sale, all of the app-side module
    Quotes,        \* prices a tab may have confirmed, NoQuote among them
    NoQuote,
    Operations,    \* slots of organizer requests in flight
    Patches,       \* settings writes: records over some of the settings' fields
    Budget,        \* how many operations of each kind organizers start (a bound)
    FirstSettings, \* the settings at the start
    MaxPoints, MaxFaults, MaxTime   \* bounds

Sources == {"solves", "app"}    \* the scorer's points, the app-side modules' points
Kinds == {"settings", "reset", "delete", "master"}
Settings == [price : Nat, paused : BOOLEAN, endsAt : Nat, hints : BOOLEAN, live : SUBSET Sources]

\* The settings s with the fields of a patch written over them.
Patched(s, patch) ==
    [field \in DOMAIN s |-> IF field \in DOMAIN patch THEN patch[field] ELSE s[field]]

ASSUME HintAssumption ==
    /\ Hints # {} /\ IsFiniteSet(Hints) /\ IsFiniteSet(Operations)
    /\ FirstSettings \in Settings
    /\ \A patch \in Patches : Patched(FirstSettings, patch) \in Settings
    /\ Budget \in [Kinds -> Nat]
    /\ {MaxPoints, MaxFaults, MaxTime} \subseteq Nat

VARIABLES
    settings,   \* the hash: price, paused, endsAt, hints (enabled), live modules
    points,     \* the contestant's points in each source
    owned,      \* ctf:user:<login>:hints
    spent,      \* ctf:hints:spent of this contestant
    rev,        \* ctf:admin:score-rev
    lowering,   \* ctf:admin:score-lowering, 0 when the key is gone
    guard,      \* that key's expiry: off, fresh, or aged, when it is about to fire
    request,    \* per request, what revealHint holds between two awaits
    op,         \* per organizer request: brackets to open, open ones, writes left
    now,
    faults, budget,
    paid,       \* history: what each hint owned now was charged
    unread      \* history: a price was charged by a request that read no balance

redisVars == <<settings, points, owned, spent, rev, lowering, guard>>
historyVars == <<paid, unread>>
boundVars == <<now, faults, budget>>
hintVars == <<redisVars, request, op, boundVars, historyVars>>

-----------------------------------------------------------------------------
(* The contestant's score, as the fold adds it up.                          *)
Worth(src) == IF src \in settings.live THEN points[src] ELSE 0
Counted == Worth("solves") + Worth("app")

\* Scoring is closed: the scheduled end has passed.
Ended(end) == now > end

-----------------------------------------------------------------------------
(* revealHint: one record per request.  price and ends are what its first   *)
(* read of the settings gave, need is the gate's own read of the price,     *)
(* read says whether the gate read a balance, which is gross under revision *)
(* seen.                                                                    *)
NoBalance == [read |-> FALSE, seen |-> 0, gross |-> 0]
Blank == [at |-> "idle", hint |-> CHOOSE h \in Hints : TRUE, quote |-> NoQuote,
          price |-> 0, ends |-> 0, need |-> 0, balance |-> NoBalance, retried |-> FALSE]
Finished == [Blank EXCEPT !.at = "done"]

Goto(r, place) == request' = [request EXCEPT ![r].at = place]
Finish(r) == request' = [request EXCEPT ![r] = Finished]
OnlyRequest == UNCHANGED <<redisVars, op, boundVars, historyVars>>

\* The first read of the settings.
Reveal(r, h, q) ==
    /\ request[r].at = "idle"
    /\ request' = [request EXCEPT ![r] =
          IF settings.hints
          THEN [Blank EXCEPT !.at = "gate", !.hint = h, !.quote = q,
                             !.price = settings.price, !.ends = settings.endsAt]
          ELSE Finished]
    /\ OnlyRequest

\* hintGate up to its first read of anything but settings.  While scoring is
\* closed only a hint already owned may pass, and a free one needs no balance.
Gate(r) ==
    /\ request[r].at = "gate"
    /\ request' = [request EXCEPT ![r] =
          IF ~settings.hints \/ "app" \notin settings.live THEN Finished
          ELSE [@ EXCEPT !.need = settings.price, !.balance = NoBalance,
                         !.at = IF Ended(settings.endsAt) \/ settings.paused THEN "owner"
                                ELSE IF settings.price > 0 THEN "rev"
                                ELSE "script"]]
    /\ OnlyRequest

\* currentScoreRevision: two GETs of one pipeline, the revision first.
ReadRevision(r) ==
    /\ request[r].at = "rev"
    /\ request' = [request EXCEPT ![r].at = "marker",
                                  ![r].balance = [read |-> TRUE, seen |-> rev, gross |-> 0]]
    /\ OnlyRequest

ReadMarker(r) ==
    /\ request[r].at = "marker"
    /\ IF lowering > 0 THEN Finish(r) ELSE Goto(r, "solves")
    /\ OnlyRequest

\* The fold: the scorer's rows, then the app-side totals, then the penalty.
FoldSource(r) ==
    /\ \/ /\ request[r].at = "solves"
          /\ request' = [request EXCEPT ![r].balance.gross = Worth("solves"), ![r].at = "app"]
       \/ /\ request[r].at = "app"
          /\ request' = [request EXCEPT ![r].balance.gross = @ + Worth("app"), ![r].at = "penalty"]
    /\ OnlyRequest

\* The row's points are net and floored at 0, so points plus penalty is never
\* less than the penalty.
FoldPenalty(r) ==
    /\ request[r].at = "penalty"
    /\ LET penalty == IF settings.hints THEN spent ELSE 0 IN
       request' = [request EXCEPT ![r].at = "spend",
                                  ![r].balance.gross = Max({@, penalty})]
    /\ OnlyRequest

\* The gate's own read of the spend, and its verdict on the balance.
Afford(r) ==
    /\ request[r].at = "spend"
    /\ Goto(r, IF request[r].balance.gross - spent < request[r].need THEN "owner" ELSE "script")
    /\ OnlyRequest

\* ownsHint, which lets a hint already owned past a closed event or a short
\* balance.
AskOwner(r) ==
    /\ request[r].at = "owner"
    /\ IF request[r].hint \in owned THEN Goto(r, "script") ELSE Finish(r)
    /\ OnlyRequest

\* The gates on progress and time, the story lock, a hidden or missing hint, a
\* failed read, a task that dies: each ends the request with nothing written.
Refuse(r) ==
    /\ request[r].at \notin {"idle", "done"}
    /\ Finish(r)
    /\ OnlyRequest

-----------------------------------------------------------------------------
(* REVEAL_SCRIPT, in its order.                                             *)
Closed(q) == Ended(q.ends) \/ settings.paused
Repriced(q) == \/ q.quote # NoQuote /\ q.quote # settings.price
               \/ settings.price > 0 /\ q.price = 0 /\ ~q.balance.read
\* Defect: the script looks at the marker alone.
StaleByMarker(q) == q.balance.read /\ lowering > 0
Stale(q) == q.balance.read /\ (lowering > 0 \/ rev # q.balance.seen)
Short(q) == q.balance.read /\ q.balance.gross - spent < settings.price

Turned(q) == q.hint \notin owned /\ (Closed(q) \/ Repriced(q))
Charges(q) == q.hint \notin owned /\ ~Turned(q) /\ ~Stale(q) /\ ~Short(q)

\* A stale balance runs the attempt once more, gate included.
Retry(r) ==
    /\ request[r].at = "script" /\ ~Turned(request[r]) /\ Stale(request[r])
    /\ IF request[r].retried THEN Finish(r)
       ELSE request' = [request EXCEPT ![r].at = "gate", ![r].retried = TRUE]
    /\ OnlyRequest

\* Refused by the script, or a hint already owned shown again.
Answer(r) ==
    /\ request[r].at = "script"
    /\ ~Charges(request[r]) /\ (Turned(request[r]) \/ ~Stale(request[r]))
    /\ Finish(r)
    /\ OnlyRequest

Charge(r) ==
    /\ request[r].at = "script" /\ Charges(request[r])
    /\ owned' = owned \union {request[r].hint}
    /\ spent' = spent + settings.price
    /\ paid' = [paid EXCEPT ![request[r].hint] = settings.price]
    /\ unread' = (unread \/ (settings.price > 0 /\ ~request[r].balance.read))
    /\ Finish(r)
    /\ UNCHANGED <<settings, points, rev, lowering, guard, op, boundVars>>

-----------------------------------------------------------------------------
(* The operations that lower scores, each inside its bracket.               *)
Rest == [need |-> 0, open |-> 0, todo |-> <<>>, kind |-> "settings"]
Idle(o) == op[o] = Rest
Running(o) == op[o].open > 0 /\ op[o].todo # <<>>

\* deleteUser opens a bracket of its own around the reset's.
Brackets(kind) == IF kind = "delete" THEN 2 ELSE 1

\* The writes that matter here, in the order the code sends them.
Writes(kind) ==
    CASE kind = "settings" -> <<"patch">>
      [] kind = "master"   -> <<"solves", "owned", "spent", "app", "freeze">>
      [] OTHER             -> <<"solves", "app", "owned", "spent">>

Close(q) == IF q.need = 0 THEN Rest ELSE q
\* A throw: no further write, and the finally of each bracket still open.
Thrown(q) == Close([q EXCEPT !.todo = <<>>, !.need = q.open])
OneClosed(q) == Close([q EXCEPT !.open = @ - 1, !.need = @ - 1])
Past(q) == [q EXCEPT !.todo = Tail(@)]
OnlyOp == UNCHANGED <<request, now>>

StartOperation(o, kind) ==
    /\ Idle(o) /\ budget[kind] > 0
    /\ budget' = [budget EXCEPT ![kind] = @ - 1]
    /\ op' = [op EXCEPT ![o] = [need |-> Brackets(kind), open |-> 0,
                                todo |-> Writes(kind), kind |-> kind]]
    /\ UNCHANGED <<redisVars, faults, historyVars>> /\ OnlyOp

\* Defect: the counter is raised and the expiry not set.
BeginUnguarded == rev' = rev + 1 /\ lowering' = lowering + 1 /\ guard' = guard

\* BEGIN_SCORE_LOWERING_SCRIPT.  The expiry is set only where there is none.
BeginScript == /\ rev' = rev + 1
               /\ lowering' = lowering + 1
               /\ guard' = IF guard = "off" THEN "fresh" ELSE guard

\* Defect: the marker is a flag, not a counter.
EndClears == rev' = rev + 1 /\ lowering' = 0 /\ guard' = "off"
\* END_SCORE_LOWERING_SCRIPT.  The key goes when the count is back at 0.
EndScript == /\ rev' = rev + 1
             /\ lowering' = Max({lowering - 1, 0})
             /\ guard' = IF lowering > 1 THEN guard ELSE "off"

Begin(o) ==
    /\ op[o].open < op[o].need
    /\ BeginScript
    /\ op' = [op EXCEPT ![o].open = @ + 1]
    /\ UNCHANGED <<settings, points, owned, spent, faults, budget, historyVars>> /\ OnlyOp

End(o) ==
    /\ op[o].todo = <<>> /\ op[o].open > 0
    /\ EndScript
    /\ op' = [op EXCEPT ![o] = OneClosed(@)]
    /\ UNCHANGED <<settings, points, owned, spent, faults, budget, historyVars>> /\ OnlyOp

\* One write of an operation.
ClearPoints(src) == /\ points' = [points EXCEPT ![src] = 0]
                    /\ UNCHANGED <<settings, owned, spent, paid>>
ClearOwned == /\ owned' = {} /\ paid' = [h \in Hints |-> 0]
              /\ UNCHANGED <<settings, points, spent>>
ClearSpent == /\ spent' = 0
              /\ UNCHANGED <<settings, points, owned, paid>>
WriteSettings(patch) == /\ settings' = Patched(settings, patch)
                        /\ UNCHANGED <<points, owned, spent, paid>>

Write(o) ==
    /\ op[o].open = op[o].need /\ op[o].todo # <<>>
    /\ LET write == Head(op[o].todo) IN
       \/ write \in Sources /\ ClearPoints(write)
       \/ write = "owned" /\ ClearOwned
       \/ write = "spent" /\ ClearSpent
       \/ write = "freeze" /\ WriteSettings([paused |-> TRUE])
       \/ write = "patch" /\ \E patch \in Patches : WriteSettings(patch)
    /\ op' = [op EXCEPT ![o] = Past(@)]
    /\ UNCHANGED <<rev, lowering, guard, faults, budget, unread>> /\ OnlyOp

-----------------------------------------------------------------------------
(* What goes wrong.                                                         *)
Fault == faults < MaxFaults /\ faults' = faults + 1 /\ UNCHANGED <<budget, historyVars>> /\ OnlyOp

\* A begin that throws, landed or not: the caller writes nothing.
BeginFails(o) ==
    /\ op[o].open < op[o].need
    /\ op' = [op EXCEPT ![o] = Thrown(@)]
    /\ UNCHANGED <<settings, points, owned, spent>>
    /\ \/ BeginScript
       \/ UNCHANGED <<rev, lowering, guard>>
    /\ Fault

\* A write fails and throws; but the replies of the pipeline that clears a
\* contestant's hints are counted, not checked, and the next command runs.
WriteFails(o) ==
    /\ op[o].open = op[o].need /\ op[o].todo # <<>>
    /\ op' = [op EXCEPT ![o] = IF op[o].kind # "master" /\ Head(@.todo) \in {"owned", "spent"}
                               THEN Past(@) ELSE Thrown(@)]
    /\ UNCHANGED redisVars
    /\ Fault

\* endScoreLowering cannot reach Redis, and only logs it.
EndFails(o) ==
    /\ op[o].todo = <<>> /\ op[o].open > 0
    /\ op' = [op EXCEPT ![o] = OneClosed(@)]
    /\ UNCHANGED redisVars
    /\ Fault

TaskDies(o) ==
    /\ ~Idle(o)
    /\ op' = [op EXCEPT ![o] = Rest]
    /\ UNCHANGED redisVars
    /\ Fault

\* The expiry of the marker, five minutes after the begin that armed it.  An
\* operation takes seconds, so the time is taken to pass while none runs: what
\* keeps the marker up is a bracket nobody is left to close.
GuardAges ==
    /\ guard = "fresh" /\ \A o \in Operations : Idle(o)
    /\ guard' = "aged"
    /\ UNCHANGED <<settings, points, owned, spent, rev, lowering, request, op, boundVars, historyVars>>

GuardExpires ==
    /\ guard = "aged"
    /\ lowering' = 0 /\ guard' = "off"
    /\ UNCHANGED <<settings, points, owned, spent, rev, request, op, boundVars, historyVars>>

-----------------------------------------------------------------------------
(* The contestant scores in a module; the clock.                            *)
Award(src) ==
    /\ points[src] < MaxPoints
    /\ points' = [points EXCEPT ![src] = @ + 1]
    /\ UNCHANGED <<settings, owned, spent, rev, lowering, guard, request, op, boundVars, historyVars>>

Tick ==
    /\ now < MaxTime /\ now' = now + 1
    /\ UNCHANGED <<redisVars, request, op, faults, budget, historyVars>>

Init ==
    /\ settings = FirstSettings
    /\ points \in [Sources -> 0..MaxPoints]
    /\ owned = {} /\ spent = 0
    /\ rev = 0 /\ lowering = 0 /\ guard = "off"
    /\ request = [r \in Requests |-> Blank]
    /\ op = [o \in Operations |-> Rest]
    /\ now = 0 /\ faults = 0 /\ budget = Budget
    /\ paid = [h \in Hints |-> 0] /\ unread = FALSE

ReadStep(r) == \/ Gate(r) \/ ReadRevision(r) \/ ReadMarker(r) \/ FoldSource(r)
               \/ FoldPenalty(r) \/ Afford(r) \/ AskOwner(r)
ScriptStep(r) == Retry(r) \/ Answer(r) \/ Charge(r)
OperationStep(o) == Begin(o) \/ Write(o) \/ End(o)
FaultStep(o) == BeginFails(o) \/ WriteFails(o) \/ EndFails(o) \/ TaskDies(o)

Next ==
    \/ \E r \in Requests : \/ \E h \in Hints, q \in Quotes : Reveal(r, h, q)
                           \/ ReadStep(r) \/ Refuse(r) \/ ScriptStep(r)
    \/ \E o \in Operations : \/ \E kind \in Kinds : StartOperation(o, kind)
                             \/ OperationStep(o) \/ FaultStep(o)
    \/ GuardAges \/ GuardExpires
    \/ \E src \in Sources : Award(src)
    \/ Tick

Spec == Init /\ [][Next]_hintVars

\* An organizer's request goes on to its end or fails; the marker expires.
FairSpec == Spec /\ WF_hintVars(GuardAges) /\ WF_hintVars(GuardExpires)
                 /\ \A o \in Operations : WF_hintVars(OperationStep(o))

-----------------------------------------------------------------------------
Places == {"idle", "gate", "rev", "marker", "solves", "app", "penalty", "spend",
           "owner", "script", "done"}

HintTypeOK ==
    /\ settings \in Settings
    /\ points \in [Sources -> Nat] /\ owned \subseteq Hints
    /\ {spent, rev, lowering, now, faults} \subseteq Nat
    /\ guard \in {"off", "fresh", "aged"} /\ unread \in BOOLEAN
    /\ paid \in [Hints -> Nat] /\ budget \in [Kinds -> Nat]
    /\ request \in [Requests ->
          [at : Places, hint : Hints, quote : Quotes \union {NoQuote}, price : Nat, ends : Nat,
           need : Nat, balance : [read : BOOLEAN, seen : Nat, gross : Nat], retried : BOOLEAN]]
    /\ op \in [Operations -> [need : 0..2, open : 0..2, kind : Kinds,
                              todo : Seq(Sources \union {"owned", "spent", "freeze", "patch"})]]

\* While an operation still has writes to make, the marker is up, however many
\* nest and in whatever order they end.
MarkerWhileWriting == \A o \in Operations : Running(o) => lowering > 0

\* Once no operation runs, the spend is exactly what the hints owned were
\* charged: no charge fell between a reset's two deletes, none was counted
\* twice.  A charge that skipped the checks is excepted (see AllAffordable).
SpendBacked == (\A o \in Operations : Idle(o)) /\ ~unread
               => spent = SumFunction(paid)

\* The types, a marker over every write, and a spend that its hints account for.
HintInv == HintTypeOK /\ MarkerWhileWriting /\ SpendBacked

\* A charge never takes the spend above the points that count at that moment,
\* whatever was lowered between the fold and the script.
Affordable == spent' > spent => spent' <= Counted'
ChargesAffordable == [][unread' \/ Affordable]_hintVars

\* No price is charged while scoring is paused or past its end, by the settings
\* of that moment and not those the request read.
ChargesInWindow == [][unread' \/ (spent' > spent => ~settings.paused /\ ~Ended(settings.endsAt))]_hintVars

\* hint-store.ts: "the charge is refused unless gross - the spend read HERE >=
\* cost", of every charge.
AllAffordable == [][Affordable]_hintVars

\* fold-cache.ts: a task that dies in an operation cannot close the shop for
\* good.
MarkerComesDown == lowering > 0 ~> lowering = 0
=============================================================================
