-------------------------- MODULE HintLedger_proofs --------------------------
(***************************************************************************)
(* Proofs about buying hints (HintLedger), for any number of tabs, hints    *)
(* and organizer requests, any prices and any settings patches.             *)
(***************************************************************************)
EXTENDS HintLedger, Sums

\* A patch over settings leaves settings.
LEMMA PatchFacts ==
    ASSUME NEW patch \in Patches, NEW s \in Settings
    PROVE  Patched(s, patch) \in Settings
<1> DEFINE p == Patched(s, patch)
           f == Patched(FirstSettings, patch)
           fields == {"price", "paused", "endsAt", "hints", "live"}
<1>1. DOMAIN s = fields /\ DOMAIN FirstSettings = fields BY HintAssumption DEF Settings
<1>2. f \in Settings BY HintAssumption
<1>3. \A x \in fields : f[x] = IF x \in DOMAIN patch THEN patch[x] ELSE FirstSettings[x]
  BY <1>1 DEF Patched
<1>4. \A x \in fields : p[x] = IF x \in DOMAIN patch THEN patch[x] ELSE s[x]
  BY <1>1 DEF Patched
<1>5. p = [x \in fields |-> p[x]] BY <1>1 DEF Patched
<1> HIDE DEF p, f
<1>6. p["price"] \in Nat /\ p["paused"] \in BOOLEAN /\ p["endsAt"] \in Nat
      /\ p["hints"] \in BOOLEAN /\ p["live"] \in SUBSET Sources
  BY <1>2, <1>3, <1>4 DEF Settings
<1>7. p = [price |-> p["price"], paused |-> p["paused"], endsAt |-> p["endsAt"],
           hints |-> p["hints"], live |-> p["live"]]
  BY <1>5
<1>8. QED BY <1>6, <1>7 DEF p, Settings

(***************************************************************************)
(* Types, and the shape of an organizer's request.                          *)
(***************************************************************************)
RequestType == [at : Places, hint : Hints, quote : Quotes \union {NoQuote}, price : Nat, ends : Nat,
                need : Nat, balance : [read : BOOLEAN, seen : Nat, gross : Nat], retried : BOOLEAN]
OpType == [need : 0..2, open : 0..2, kind : Kinds,
           todo : Seq(Sources \union {"owned", "spent", "freeze", "patch"})]

\* No more brackets are open than were to be opened, and writes are left only
\* to an operation that has brackets around them.
OpsInShape == \A o \in Operations : /\ op[o].open <= op[o].need
                                    /\ op[o].todo # <<>> => op[o].need > 0

LEMMA BlankFacts ==
    /\ Blank \in RequestType /\ Blank.at = "idle" /\ ~Blank.balance.read
    /\ Finished \in RequestType /\ Finished.at = "done" /\ ~Finished.balance.read
<1>1. (CHOOSE h \in Hints : TRUE) \in Hints BY HintAssumption
<1>2. Blank \in RequestType /\ Blank.at = "idle" /\ ~Blank.balance.read
  BY <1>1 DEF Blank, NoBalance, RequestType, Places
<1>3. QED BY <1>2 DEF Finished, RequestType, Places

LEMMA WritesFacts ==
    \A kind \in Kinds :
        /\ Writes(kind) \in Seq(Sources \union {"owned", "spent", "freeze", "patch"})
        /\ Brackets(kind) \in 1..2
<1> DEFINE T == Sources \union {"owned", "spent", "freeze", "patch"}
<1>1. /\ "patch" \in T /\ "solves" \in T /\ "owned" \in T /\ "spent" \in T
      /\ "app" \in T /\ "freeze" \in T
  BY DEF Sources
<1> HIDE DEF T
<1>2. /\ <<"patch">> \in Seq(T)
      /\ <<"solves", "owned", "spent", "app", "freeze">> \in Seq(T)
      /\ <<"solves", "app", "owned", "spent">> \in Seq(T)
  BY <1>1
<1>3. \A kind \in Kinds : Writes(kind) \in Seq(T) /\ Brackets(kind) \in 1..2
  BY <1>2 DEF Kinds, Writes, Brackets
<1>4. QED BY <1>3 DEF T

LEMMA RestFacts == Rest \in OpType /\ Rest.open = 0 /\ Rest.need = 0 /\ Rest.todo = <<>>
BY DEF Rest, OpType, Kinds

LEMMA ThrownFacts ==
    ASSUME NEW q \in OpType
    PROVE  /\ Thrown(q) \in OpType /\ Thrown(q).open <= q.open
           /\ Thrown(q).open <= Thrown(q).need /\ Thrown(q).todo = <<>>
           /\ q.open > 0 => Thrown(q).open = q.open
<1> DEFINE t == [q EXCEPT !.todo = <<>>, !.need = q.open]
<1>1. <<>> \in Seq(Sources \union {"owned", "spent", "freeze", "patch"}) OBVIOUS
<1>2. t \in OpType /\ t.open = q.open /\ t.need = q.open /\ t.todo = <<>> BY <1>1 DEF OpType
<1>3. q.open \in 0..2 BY DEF OpType
<1> HIDE DEF t
<1>4. Close(t) \in OpType /\ Close(t).open <= q.open /\ Close(t).open <= Close(t).need
      /\ Close(t).todo = <<>> /\ (q.open > 0 => Close(t).open = q.open)
  BY <1>2, <1>3, RestFacts DEF Close
<1>5. QED BY <1>4 DEF Thrown, t

\* Closing a bracket leaves one fewer open.
LEMMA ClosedFacts ==
    ASSUME NEW q \in OpType, q.todo = <<>>, q.open > 0, q.open <= q.need
    PROVE  LET c == OneClosed(q)
           IN  c \in OpType /\ c.open = q.open - 1 /\ c.open <= c.need /\ c.todo = <<>>
<1> DEFINE t == [q EXCEPT !.open = @ - 1, !.need = @ - 1]
<1>1. /\ q.open \in 0..2 /\ q.need \in 0..2
      /\ q.open - 1 \in 0..2 /\ q.need - 1 \in 0..2
  BY DEF OpType
<1>2. t \in OpType /\ t.open = q.open - 1 /\ t.need = q.need - 1 /\ t.todo = <<>> BY <1>1 DEF OpType
<1> HIDE DEF t
<1>3. t.need = 0 => t.open = 0 BY <1>1, <1>2
<1>4. QED BY <1>1, <1>2, <1>3, RestFacts DEF OneClosed, Close, t

LEMMA MaxFacts ==
    ASSUME NEW a \in Nat, NEW b \in Int
    PROVE  /\ Max({a, b}) \in Nat
           /\ Max({a, b}) = a \/ Max({a, b}) = b
           /\ a <= Max({a, b}) /\ b <= Max({a, b})
<1>1. \E x \in {a, b} : \A y \in {a, b} : x >= y
  <2>1. CASE a >= b BY <2>1
  <2>2. CASE ~(a >= b) BY <2>2
  <2>3. QED BY <2>1, <2>2
<1>2. Max({a, b}) \in {a, b} /\ \A y \in {a, b} : Max({a, b}) >= y BY <1>1 DEF Max
<1>3. QED BY <1>2

(***************************************************************************)
(* The brackets open, and how the marker counts them.                       *)
(***************************************************************************)
OpenBrackets == {b \in Operations \X (1..2) : b[2] <= op[b[1]].open}

LEMMA BracketSlots == IsFiniteSet(Operations \X (1..2))
<1>1. IsFiniteSet(1..2)
  <2>1. 1 \in Int /\ 2 \in Int OBVIOUS
  <2>2. QED BY <2>1, FS_Interval, Zenon
<1>2. IsFiniteSet(Operations) BY HintAssumption
<1>3. QED BY <1>1, <1>2, FS_Product

LEMMA BracketsFacts ==
    ASSUME op \in [Operations -> OpType]
    PROVE  /\ IsFiniteSet(OpenBrackets) /\ Cardinality(OpenBrackets) \in Nat
           /\ (\A o \in Operations : op[o].open = 0) => Cardinality(OpenBrackets) = 0
           /\ \A o \in Operations : op[o].open > 0 => Cardinality(OpenBrackets) > 0
<1>1. IsFiniteSet(Operations \X (1..2)) BY BracketSlots
<1>2. IsFiniteSet(OpenBrackets) BY <1>1, FS_Subset DEF OpenBrackets
<1>3. Cardinality(OpenBrackets) \in Nat BY <1>2, FS_CardinalityType
<1>4. Cardinality(OpenBrackets) = 0 <=> OpenBrackets = {} BY <1>2, FS_EmptySet
<1>5. (\A o \in Operations : op[o].open = 0) => OpenBrackets = {} BY DEF OpenBrackets
<1>6. ASSUME NEW o \in Operations, op[o].open > 0 PROVE OpenBrackets # {}
  <2>1. op[o].open \in 0..2 BY DEF OpType
  <2>2. <<o, 1>> \in OpenBrackets BY <1>6, <2>1 DEF OpenBrackets
  <2>3. QED BY <2>2
<1>7. QED BY <1>2, <1>3, <1>4, <1>5, <1>6

\* Opening a bracket adds one to the count of those open, closing one takes
\* one from it.
LEMMA BracketCount ==
    ASSUME op \in [Operations -> OpType], NEW o \in Operations, NEW new \in OpType,
           op' = [op EXCEPT ![o] = new]
    PROVE  /\ op' \in [Operations -> OpType]
           /\ new.open = op[o].open => Cardinality(OpenBrackets') = Cardinality(OpenBrackets)
           /\ new.open = op[o].open + 1 => Cardinality(OpenBrackets') = Cardinality(OpenBrackets) + 1
           /\ new.open = op[o].open - 1 => Cardinality(OpenBrackets') = Cardinality(OpenBrackets) - 1
           /\ new.open <= op[o].open => Cardinality(OpenBrackets') <= Cardinality(OpenBrackets)
<1> DEFINE B == OpenBrackets
<1>1. /\ op' \in [Operations -> OpType] /\ op'[o] = new
      /\ \A p \in Operations : p # o => op'[p] = op[p]
  OBVIOUS
<1>2. op[o].open \in 0..2 /\ new.open \in 0..2 BY DEF OpType
<1>3. IsFiniteSet(B) /\ Cardinality(B) \in Nat BY BracketsFacts
<1>4. new.open = op[o].open => B' = B BY <1>1 DEF OpenBrackets
<1>5. ASSUME new.open = op[o].open + 1 PROVE Cardinality(B') = Cardinality(B) + 1
  <2>1. B' = B \union {<<o, new.open>>}
    <3>1. \A b \in Operations \X (1..2) : b \in B' <=> b \in B \/ b = <<o, new.open>>
      <4> SUFFICES ASSUME NEW p \in Operations, NEW i \in 1..2
                   PROVE  i <= op'[p].open <=> i <= op[p].open \/ (p = o /\ i = new.open)
        BY DEF OpenBrackets
      <4>1. CASE p = o BY <1>1, <1>2, <1>5, <4>1
      <4>2. CASE p # o BY <1>1, <4>2
      <4>3. QED BY <4>1, <4>2
    <3>2. <<o, new.open>> \in Operations \X (1..2) BY <1>2, <1>5
    <3>3. B \subseteq Operations \X (1..2) /\ B' \subseteq Operations \X (1..2) BY DEF OpenBrackets
    <3> HIDE DEF B
    <3>4. QED BY <3>1, <3>2, <3>3
  <2>2. <<o, new.open>> \notin B BY <1>2, <1>5 DEF OpenBrackets
  <2> HIDE DEF B
  <2>3. QED BY <1>3, <2>1, <2>2, FS_AddElement
<1>6. ASSUME new.open = op[o].open - 1 PROVE Cardinality(B') = Cardinality(B) - 1
  <2>1. B' = B \ {<<o, op[o].open>>}
    <3>1. \A b \in Operations \X (1..2) : b \in B' <=> b \in B /\ b # <<o, op[o].open>>
      <4> SUFFICES ASSUME NEW p \in Operations, NEW i \in 1..2
                   PROVE  i <= op'[p].open <=> i <= op[p].open /\ ~(p = o /\ i = op[o].open)
        BY DEF OpenBrackets
      <4>1. CASE p = o BY <1>1, <1>2, <1>6, <4>1
      <4>2. CASE p # o BY <1>1, <4>2
      <4>3. QED BY <4>1, <4>2
    <3>2. B \subseteq Operations \X (1..2) /\ B' \subseteq Operations \X (1..2) BY DEF OpenBrackets
    <3> HIDE DEF B
    <3>3. QED BY <3>1, <3>2
  <2>2. <<o, op[o].open>> \in B
    <3>1. op[o].open \in 1..2 BY <1>2, <1>6
    <3>2. op[o].open <= op[o].open BY <3>1
    <3>3. QED BY <3>1, <3>2 DEF OpenBrackets
  <2> HIDE DEF B
  <2>3. QED BY <1>3, <2>1, <2>2, FS_RemoveElement
<1>7. ASSUME new.open <= op[o].open PROVE Cardinality(B') <= Cardinality(B)
  <2>1. \A p \in Operations : op'[p].open <= op[p].open \/ op'[p] = op[p] BY <1>1, <1>7
  <2>2. B' \subseteq B
    <3> SUFFICES ASSUME NEW p \in Operations, NEW i \in 1..2, i <= op'[p].open
                 PROVE  i <= op[p].open
      BY DEF OpenBrackets
    <3>1. op'[p].open \in 0..2 /\ op[p].open \in 0..2 BY <1>1 DEF OpType
    <3>2. QED BY <2>1, <3>1
  <2> HIDE DEF B
  <2>3. QED BY <1>3, <2>2, FS_Subset
<1>8. QED BY <1>1, <1>4, <1>5, <1>6, <1>7

\* What each step of an organizer's request makes of it.
OpStep(o, new) == /\ new \in OpType /\ op' = [op EXCEPT ![o] = new]
                  /\ new.open <= new.need /\ (new.todo # <<>> => new.need > 0)

LEMMA OperationSteps ==
    ASSUME HintTypeOK, OpsInShape, NEW o \in Operations
    PROVE  /\ \A kind \in Kinds : StartOperation(o, kind) =>
                 OpStep(o, op'[o]) /\ op'[o].open = op[o].open
           /\ Begin(o) => OpStep(o, op'[o]) /\ op'[o].open = op[o].open + 1
           /\ End(o) \/ EndFails(o) => OpStep(o, op'[o]) /\ op'[o].open = op[o].open - 1
           /\ Write(o) => OpStep(o, op'[o]) /\ op'[o].open = op[o].open /\ op[o].open > 0
           /\ BeginFails(o) \/ WriteFails(o) => OpStep(o, op'[o]) /\ op'[o].open = op[o].open
           /\ TaskDies(o) => OpStep(o, op'[o]) /\ op'[o].open <= op[o].open
<1> DEFINE Todo == Sources \union {"owned", "spent", "freeze", "patch"}
<1>1. op[o] \in OpType /\ op \in [Operations -> OpType] BY DEF HintTypeOK, OpType
<1>2. op[o].open <= op[o].need /\ op[o].open \in 0..2 /\ op[o].need \in 0..2
      /\ op[o].todo \in Seq(Todo) /\ (op[o].todo # <<>> => op[o].need > 0)
  BY <1>1 DEF OpsInShape, OpType
<1>3. ASSUME NEW new, op' = [op EXCEPT ![o] = new], new \in OpType,
             new.open <= new.need, new.todo # <<>> => new.need > 0
      PROVE  op'[o] = new /\ OpStep(o, op'[o])
  <2>1. op'[o] = new BY <1>1, <1>3
  <2>2. QED BY <1>3, <2>1 DEF OpStep
<1>4. ASSUME NEW kind \in Kinds, StartOperation(o, kind)
      PROVE  OpStep(o, op'[o]) /\ op'[o].open = op[o].open
  <2> DEFINE new == [need |-> Brackets(kind), open |-> 0, todo |-> Writes(kind), kind |-> kind]
  <2>1. op' = [op EXCEPT ![o] = new] /\ op[o].open = 0
    BY <1>4, RestFacts DEF StartOperation, Idle
  <2>2. Writes(kind) \in Seq(Todo) /\ Brackets(kind) \in 1..2 BY WritesFacts
  <2>3. new \in OpType /\ new.open = 0 /\ new.need = Brackets(kind) BY <2>2 DEF OpType
  <2> HIDE DEF new
  <2>4. new.open <= new.need /\ new.need > 0 BY <2>2, <2>3
  <2>5. QED BY <1>3, <2>1, <2>3, <2>4
<1>5. ASSUME Begin(o)
      PROVE  OpStep(o, op'[o]) /\ op'[o].open = op[o].open + 1
  <2> DEFINE new == [op[o] EXCEPT !.open = op[o].open + 1]
  <2>1. op' = [op EXCEPT ![o] = new] /\ op[o].open < op[o].need BY <1>1, <1>5 DEF Begin
  <2>2. op[o].open + 1 \in 0..2 /\ op[o].open + 1 <= op[o].need BY <1>2, <2>1
  <2>3. new \in OpType /\ new.open = op[o].open + 1 /\ new.need = op[o].need /\ new.todo = op[o].todo
    BY <1>1, <2>2 DEF OpType
  <2> HIDE DEF new
  <2>4. QED BY <1>2, <1>3, <2>1, <2>2, <2>3
<1>6. ASSUME End(o) \/ EndFails(o)
      PROVE  OpStep(o, op'[o]) /\ op'[o].open = op[o].open - 1
  <2> DEFINE new == OneClosed(op[o])
  <2>1. op' = [op EXCEPT ![o] = new] /\ op[o].todo = <<>> /\ op[o].open > 0
    BY <1>6 DEF End, EndFails
  <2>2. new \in OpType /\ new.open = op[o].open - 1 /\ new.open <= new.need /\ new.todo = <<>>
    BY <1>1, <1>2, <2>1, ClosedFacts
  <2> HIDE DEF new
  <2>3. QED BY <1>3, <2>1, <2>2
<1>7. ASSUME op[o].todo # <<>>, op' = [op EXCEPT ![o] = Past(op[o])]
      PROVE  OpStep(o, op'[o]) /\ op'[o].open = op[o].open
  <2> DEFINE new == Past(op[o])
  <2>1. Tail(op[o].todo) \in Seq(Todo) BY <1>2, <1>7
  <2>2. new \in OpType /\ new.open = op[o].open /\ new.need = op[o].need
    BY <1>1, <2>1 DEF OpType, Past
  <2> HIDE DEF new
  <2>3. op' = [op EXCEPT ![o] = new] BY <1>7 DEF new
  <2>4. QED BY <1>2, <1>3, <1>7, <2>2, <2>3
<1>8. ASSUME op' = [op EXCEPT ![o] = Thrown(op[o])]
      PROVE  OpStep(o, op'[o]) /\ op'[o].open = op[o].open
  <2> DEFINE new == Thrown(op[o])
  <2>1. /\ new \in OpType /\ new.open <= op[o].open
        /\ new.open <= new.need /\ new.todo = <<>>
        /\ op[o].open > 0 => new.open = op[o].open
    BY <1>1, ThrownFacts
  <2> HIDE DEF new
  <2>2. new.open = op[o].open BY <1>2, <2>1 DEF OpType
  <2>3. op' = [op EXCEPT ![o] = new] BY <1>8 DEF new
  <2>4. QED BY <1>3, <2>1, <2>2, <2>3
<1>9. ASSUME Write(o) PROVE OpStep(o, op'[o]) /\ op'[o].open = op[o].open /\ op[o].open > 0
  <2>1. op[o].todo # <<>> /\ op[o].open = op[o].need /\ op' = [op EXCEPT ![o] = Past(op[o])]
    BY <1>9 DEF Write
  <2>2. QED BY <1>2, <1>7, <2>1
<1>10. ASSUME BeginFails(o) \/ WriteFails(o)
       PROVE  OpStep(o, op'[o]) /\ op'[o].open = op[o].open
  <2>1. \/ op' = [op EXCEPT ![o] = Thrown(op[o])]
        \/ op' = [op EXCEPT ![o] = Past(op[o])] /\ op[o].todo # <<>>
    <3>1. CASE BeginFails(o) BY <3>1 DEF BeginFails
    <3>2. CASE WriteFails(o) BY <3>2 DEF WriteFails
    <3>3. QED BY <1>10, <3>1, <3>2
  <2>2. QED BY <1>7, <1>8, <2>1
<1>11. ASSUME TaskDies(o) PROVE OpStep(o, op'[o]) /\ op'[o].open <= op[o].open
  <2>1. op' = [op EXCEPT ![o] = Rest] BY <1>11 DEF TaskDies
  <2>2. Rest \in OpType /\ Rest.open <= Rest.need /\ Rest.todo = <<>> /\ Rest.open <= op[o].open
    BY <1>2, RestFacts
  <2>3. op'[o] = Rest /\ OpStep(o, op'[o]) BY <1>3, <2>1, <2>2
  <2>4. QED BY <2>2, <2>3
<1>12. QED BY <1>4, <1>5, <1>6, <1>9, <1>10, <1>11

(***************************************************************************)
(* The balance a request holds.                                             *)
(***************************************************************************)
\* As long as the revision the fold was read under is the current one, the
\* marker is down and the fold is no more than what counts now, or no more
\* than what is spent: then nothing is left to charge.
FreshNow(q) == q.balance.read /\ q.balance.seen = rev
Fresh(q) ==
    /\ q.balance.read => q.balance.seen <= rev
    /\ FreshNow(q) /\ q.at \in {"solves", "app", "penalty", "spend", "owner", "script"} =>
          /\ lowering = 0
          /\ q.at = "app" => q.balance.gross <= Worth("solves")
          /\ q.at = "penalty" => q.balance.gross <= Counted
          /\ q.at \in {"spend", "owner", "script"} =>
                q.balance.gross <= Counted \/ q.balance.gross <= spent

BalancesFresh == \A r \in Requests : Fresh(request[r])

LEMMA WorthFacts ==
    ASSUME HintTypeOK
    PROVE  /\ \A src \in Sources : Worth(src) \in Nat
           /\ Counted \in Nat /\ Worth("solves") \in Nat /\ Worth("app") \in Nat
           /\ Counted = Worth("solves") + Worth("app")
<1>1. \A src \in Sources : Worth(src) \in Nat BY DEF HintTypeOK, Worth
<1>2. "solves" \in Sources /\ "app" \in Sources BY DEF Sources
<1>3. QED BY <1>1, <1>2 DEF Counted

\* A request's own step leaves it typed, and its balance fresh if it was.
LEMMA RequestSteps ==
    ASSUME HintTypeOK, NEW r \in Requests,
           \/ \E h \in Hints, q \in Quotes : Reveal(r, h, q)
           \/ ReadStep(r) \/ Refuse(r) \/ Retry(r) \/ Answer(r)
    PROVE  /\ OnlyRequest
           /\ request' = [request EXCEPT ![r] = request'[r]]
           /\ request'[r] \in RequestType
           /\ Fresh(request[r]) => Fresh(request'[r])
<1> DEFINE q == request[r]
<1>1. request \in [Requests -> RequestType] /\ q \in RequestType BY DEF HintTypeOK, RequestType
<1>3. OnlyRequest
  BY DEF Reveal, ReadStep, Gate, ReadRevision, ReadMarker, FoldSource, FoldPenalty, Afford, AskOwner,
         Refuse, Retry, Answer
<1>4. /\ settings.price \in Nat /\ settings.endsAt \in Nat /\ rev \in Nat /\ lowering \in Nat
      /\ spent \in Nat
  BY DEF HintTypeOK, Settings
<1>5. /\ q.balance \in [read : BOOLEAN, seen : Nat, gross : Nat]
      /\ q.balance.read \in BOOLEAN /\ q.balance.seen \in Nat /\ q.balance.gross \in Nat
  BY <1>1 DEF RequestType
<1> DEFINE Good(new) == /\ request' = [request EXCEPT ![r] = new]
                        /\ new \in RequestType /\ (Fresh(q) => Fresh(new))
<1>6. ASSUME NEW new, Good(new) PROVE Good(request'[r])
  <2>1. request'[r] = new BY <1>1, <1>6
  <2>2. QED BY <1>6, <2>1
<1>7. ASSUME NEW new, request' = [request EXCEPT ![r] = new], new \in RequestType, ~new.balance.read
      PROVE  Good(request'[r])
  <2>1. Fresh(q) => Fresh(new) BY <1>7 DEF Fresh, FreshNow
  <2>2. QED BY <1>6, <1>7, <2>1
<1>8. ASSUME Finish(r) PROVE Good(request'[r])
  <2>1. request' = [request EXCEPT ![r] = Finished] BY <1>8 DEF Finish
  <2>2. QED BY <1>7, <2>1, BlankFacts
\* A request that only moves on to a place that asks no more of its balance.
<1>9. ASSUME NEW place \in Places, Goto(r, place),
             \/ place \in {"gate", "rev", "marker"}
             \/ q.at \in {"spend", "owner", "script"} /\ place \in {"owner", "script"}
      PROVE  Good(request'[r])
  <2> DEFINE new == [q EXCEPT !.at = place]
  <2>1. request' = [request EXCEPT ![r] = new] BY <1>1, <1>9 DEF Goto
  <2>2. new \in RequestType /\ new.at = place /\ new.balance = q.balance BY <1>1 DEF RequestType
  <2>3. Fresh(q) => Fresh(new)
    <3> HIDE DEF new
    <3>1. CASE place \in {"gate", "rev", "marker"} BY <2>2, <3>1 DEF Fresh, FreshNow
    <3>2. CASE q.at \in {"spend", "owner", "script"} /\ place \in {"owner", "script"}
      BY <2>2, <3>2 DEF Fresh, FreshNow
    <3>3. QED BY <1>9, <3>1, <3>2
  <2> HIDE DEF new
  <2>4. QED BY <1>6, <2>1, <2>2, <2>3
<1>10. CASE \E h \in Hints, quote \in Quotes : Reveal(r, h, quote)
  <2>1. PICK h \in Hints, quote \in Quotes : Reveal(r, h, quote) BY <1>10
  <2> DEFINE new == [Blank EXCEPT !.at = "gate", !.hint = h, !.quote = quote,
                                  !.price = settings.price, !.ends = settings.endsAt]
  <2>2. new \in RequestType /\ ~new.balance.read BY <1>4, BlankFacts DEF RequestType, Places
  <2>3. request' = [request EXCEPT ![r] = new] \/ request' = [request EXCEPT ![r] = Finished]
    BY <2>1 DEF Reveal
  <2> HIDE DEF new
  <2>4. QED BY <1>7, <1>3, <2>2, <2>3, BlankFacts
<1>11. CASE Gate(r)
  <2> DEFINE place == IF Ended(settings.endsAt) \/ settings.paused THEN "owner"
                      ELSE IF settings.price > 0 THEN "rev" ELSE "script"
             new == [q EXCEPT !.need = settings.price, !.balance = NoBalance, !.at = place]
  <2>1. place \in Places BY DEF Places
  <2>2. request' = [request EXCEPT ![r] = new] \/ request' = [request EXCEPT ![r] = Finished]
    BY <1>11 DEF Gate
  <2> HIDE DEF place
  <2>3. NoBalance \in [read : BOOLEAN, seen : Nat, gross : Nat] /\ ~NoBalance.read BY DEF NoBalance
  <2>4. new \in RequestType /\ ~new.balance.read BY <1>1, <1>4, <2>1, <2>3 DEF RequestType
  <2> HIDE DEF new
  <2>5. QED BY <1>3, <1>7, <2>2, <2>4, BlankFacts
<1>12. CASE ReadRevision(r)
  <2> DEFINE b == [read |-> TRUE, seen |-> rev, gross |-> 0]
             new == [q EXCEPT !.at = "marker", !.balance = b]
  <2>1. request' = [request EXCEPT ![r] = new] BY <1>1, <1>12 DEF ReadRevision
  <2>2. b \in [read : BOOLEAN, seen : Nat, gross : Nat] /\ b.seen = rev BY <1>4
  <2>3. new \in RequestType /\ new.at = "marker" /\ new.balance = b
    BY <1>1, <2>2 DEF RequestType, Places
  <2> HIDE DEF new, b
  <2>4. Fresh(q) => Fresh(new) BY <1>4, <2>2, <2>3 DEF Fresh
  <2>5. QED BY <1>3, <1>6, <2>1, <2>3, <2>4
<1>13. CASE ReadMarker(r)
  <2>1. CASE lowering > 0 BY <1>3, <1>8, <1>13, <2>1 DEF ReadMarker
  <2>2. CASE ~(lowering > 0)
    <3> DEFINE new == [q EXCEPT !.at = "solves"]
    <3>1. request' = [request EXCEPT ![r] = new] BY <1>1, <1>13, <2>2 DEF ReadMarker, Goto
    <3>2. new \in RequestType /\ new.at = "solves" /\ new.balance = q.balance
      BY <1>1 DEF RequestType, Places
    <3>3. lowering = 0 BY <1>4, <2>2
    <3> HIDE DEF new
    <3>4. Fresh(q) => Fresh(new) BY <3>2, <3>3 DEF Fresh
    <3>5. QED BY <1>3, <1>6, <3>1, <3>2, <3>4
  <2>3. QED BY <2>1, <2>2
<1>14. CASE FoldSource(r)
  <2>1. ASSUME NEW place \in {"app", "penalty"}, NEW gross \in Nat,
               request' = [request EXCEPT ![r] = [q EXCEPT !.balance = [q.balance EXCEPT !.gross = gross],
                                                           !.at = place]],
               \/ q.at = "solves" /\ place = "app" /\ gross = Worth("solves")
               \/ q.at = "app" /\ place = "penalty" /\ gross = q.balance.gross + Worth("app")
        PROVE  Good(request'[r])
    <3> DEFINE b == [q.balance EXCEPT !.gross = gross]
               new == [q EXCEPT !.balance = b, !.at = place]
    <3>1. b \in [read : BOOLEAN, seen : Nat, gross : Nat] /\ b.gross = gross
          /\ b.read = q.balance.read /\ b.seen = q.balance.seen
      BY <1>5
    <3>2. new \in RequestType /\ new.at = place /\ new.balance = b
      BY <1>1, <3>1 DEF RequestType, Places
    <3>3. request' = [request EXCEPT ![r] = new] BY <2>1
    <3> HIDE DEF new, b
    <3>4. Fresh(q) => Fresh(new) BY <1>5, <2>1, <3>1, <3>2, WorthFacts DEF Fresh, FreshNow
    <3>5. QED BY <1>6, <3>2, <3>3, <3>4
  <2>2. CASE q.at = "solves"
    <3>1. request' = [request EXCEPT ![r] = [q EXCEPT !.balance = [q.balance EXCEPT !.gross = Worth("solves")],
                                                      !.at = "app"]]
      BY <1>1, <1>5, <1>14, <2>2 DEF FoldSource, RequestType
    <3>2. QED BY <1>3, <2>1, <2>2, <3>1, WorthFacts
  <2>3. CASE q.at = "app"
    <3>1. request' = [request EXCEPT ![r] = [q EXCEPT !.balance = [q.balance EXCEPT !.gross = q.balance.gross + Worth("app")],
                                                      !.at = "penalty"]]
      BY <1>1, <1>5, <1>14, <2>3 DEF FoldSource, RequestType
    <3>2. q.balance.gross + Worth("app") \in Nat BY <1>5, WorthFacts
    <3>3. QED BY <1>3, <2>1, <2>3, <3>1, <3>2
  <2>4. QED BY <1>14, <2>2, <2>3 DEF FoldSource
<1>15. CASE FoldPenalty(r)
  <2> DEFINE penalty == IF settings.hints THEN spent ELSE 0
             gross == Max({q.balance.gross, penalty})
             b == [q.balance EXCEPT !.gross = gross]
             new == [q EXCEPT !.balance = b, !.at = "spend"]
  <2>1. penalty \in Nat /\ penalty <= spent BY <1>4
  <2>2. request' = [request EXCEPT ![r] = new] /\ q.at = "penalty"
    BY <1>1, <1>5, <1>15 DEF FoldPenalty, RequestType
  <2> HIDE DEF penalty
  <2> DEFINE g == q.balance.gross
  <2>g. g \in Nat BY <1>5
  <2>3. gross \in Nat /\ (gross = q.balance.gross \/ gross = penalty)
    <3> HIDE DEF g
    <3>1. Max({g, penalty}) \in {g, penalty} BY <2>g, <2>1, MaxFacts
    <3>2. QED BY <2>g, <2>1, <3>1 DEF g
  <2> HIDE DEF gross
  <2>4. b \in [read : BOOLEAN, seen : Nat, gross : Nat] /\ b.gross = gross
        /\ b.read = q.balance.read /\ b.seen = q.balance.seen
    BY <1>5, <2>3
  <2>5. new \in RequestType /\ new.at = "spend" /\ new.balance = b
    BY <1>1, <2>4 DEF RequestType, Places
  <2> HIDE DEF new, b
  <2>6. Fresh(q) => Fresh(new) BY <2>1, <2>2, <2>3, <2>4, <2>5 DEF Fresh, FreshNow
  <2>7. QED BY <1>3, <1>6, <2>2, <2>5, <2>6
<1>16. CASE Afford(r)
  <2>1. q.at = "spend" /\ (Goto(r, "owner") \/ Goto(r, "script")) BY <1>16 DEF Afford
  <2>2. "owner" \in Places /\ "script" \in Places BY DEF Places
  <2>3. QED BY <1>3, <1>9, <2>1, <2>2
<1>17. CASE AskOwner(r)
  <2>1. q.at = "owner" /\ (Goto(r, "script") \/ Finish(r)) BY <1>17 DEF AskOwner
  <2>2. "script" \in Places BY DEF Places
  <2>3. QED BY <1>3, <1>8, <1>9, <2>1, <2>2
<1>18. CASE Refuse(r) \/ Answer(r) BY <1>3, <1>8, <1>18 DEF Refuse, Answer
<1>19. CASE Retry(r)
  <2>1. CASE q.retried BY <1>3, <1>8, <1>19, <2>1 DEF Retry
  <2>2. CASE ~q.retried
    <3> DEFINE new == [q EXCEPT !.at = "gate", !.retried = TRUE]
    <3>1. request' = [request EXCEPT ![r] = new] BY <1>1, <1>19, <2>2 DEF Retry
    <3>2. new \in RequestType /\ new.at = "gate" /\ new.balance = q.balance
      BY <1>1 DEF RequestType, Places
    <3> HIDE DEF new
    <3>3. Fresh(q) => Fresh(new) BY <3>2 DEF Fresh
    <3>4. QED BY <1>3, <1>6, <3>1, <3>2, <3>3
  <2>3. QED BY <2>1, <2>2
<1>20. QED
  BY <1>10, <1>11, <1>12, <1>13, <1>14, <1>15, <1>16, <1>17, <1>18, <1>19 DEF ReadStep

\* A step that raises the revision makes no balance more current than it was;
\* a step that leaves it keeps what a current balance relies on, or falls in a
\* bracket, where no balance is current.
LEMMA FreshStays ==
    ASSUME HintTypeOK, HintTypeOK', NEW r \in Requests, request'[r] = request[r], Fresh(request[r]),
           \/ rev' > rev
           \/ /\ rev' = rev /\ lowering' \in {lowering, 0}
              /\ Worth("solves")' >= Worth("solves") /\ Counted' >= Counted /\ spent' >= spent
           \/ rev' = rev /\ lowering' = lowering /\ lowering > 0
    PROVE  Fresh(request[r])'
<1> DEFINE q == request[r]
<1>1. q \in RequestType BY DEF HintTypeOK, RequestType
<1>2. /\ q.balance.read \in BOOLEAN /\ q.balance.seen \in Nat /\ q.balance.gross \in Nat
  BY <1>1 DEF RequestType
<1>3. rev \in Nat /\ rev' \in Nat /\ lowering \in Nat /\ lowering' \in Nat /\ spent \in Nat /\ spent' \in Nat
  BY DEF HintTypeOK
<1>4. /\ Worth("solves") \in Nat /\ Counted \in Nat
      /\ Worth("solves")' \in Nat /\ Counted' \in Nat
  <2>1. points' \in [Sources -> Nat] /\ "solves" \in Sources /\ "app" \in Sources
    BY DEF HintTypeOK, Sources
  <2>2. points'["solves"] \in Nat /\ points'["app"] \in Nat BY <2>1
  <2>3. Worth("solves")' \in Nat /\ Worth("app")' \in Nat BY <2>2 DEF Worth
  <2>4. QED BY <2>3, WorthFacts DEF Counted
<1>5. CASE rev' > rev BY <1>2, <1>3, <1>5 DEF Fresh, FreshNow
<1>6. CASE rev' = rev /\ lowering' = lowering /\ lowering > 0
  BY <1>2, <1>3, <1>6 DEF Fresh, FreshNow
<1>7. CASE /\ rev' = rev /\ lowering' \in {lowering, 0}
           /\ Worth("solves")' >= Worth("solves") /\ Counted' >= Counted /\ spent' >= spent
  <2>1. q.balance.read => q.balance.seen <= rev' BY <1>7 DEF Fresh
  <2>2. ASSUME FreshNow(q), q.at \in {"solves", "app", "penalty", "spend", "owner", "script"}
        PROVE  /\ lowering' = 0
               /\ q.at = "app" => q.balance.gross <= Worth("solves")'
               /\ q.at = "penalty" => q.balance.gross <= Counted'
               /\ q.at \in {"spend", "owner", "script"} =>
                     q.balance.gross <= Counted' \/ q.balance.gross <= spent'
    <3>1. /\ lowering = 0
          /\ q.at = "app" => q.balance.gross <= Worth("solves")
          /\ q.at = "penalty" => q.balance.gross <= Counted
          /\ q.at \in {"spend", "owner", "script"} =>
                q.balance.gross <= Counted \/ q.balance.gross <= spent
      BY <2>2 DEF Fresh
    <3> HIDE DEF q
    <3>2. QED BY <1>2, <1>3, <1>4, <1>7, <3>1
  <2>3. FreshNow(q)' <=> FreshNow(q) BY <1>7 DEF FreshNow
  <2>4. q' = q OBVIOUS
  <2>5. QED BY <2>1, <2>2, <2>3, <2>4 DEF Fresh
<1>8. QED BY <1>5, <1>6, <1>7

(***************************************************************************)
(* Type correctness.                                                        *)
(***************************************************************************)
StoreOK ==
    /\ settings \in Settings
    /\ points \in [Sources -> Nat] /\ owned \subseteq Hints
    /\ {spent, rev, lowering, now, faults} \subseteq Nat
    /\ guard \in {"off", "fresh", "aged"} /\ unread \in BOOLEAN
    /\ paid \in [Hints -> Nat] /\ budget \in [Kinds -> Nat]

LEMMA TypeParts ==
    HintTypeOK <=> /\ StoreOK
                   /\ request \in [Requests -> RequestType]
                   /\ op \in [Operations -> OpType]
BY DEF HintTypeOK, StoreOK, RequestType, OpType

\* The three ways a step treats the requests in flight, and what each leaves
\* to the parts that follow.
LEMMA BracketScripts ==
    ASSUME StoreOK, UNCHANGED <<settings, points, owned, spent, now, faults, budget, paid, unread>>
    PROVE  /\ BeginScript => /\ StoreOK' /\ rev' = rev + 1 /\ lowering' = lowering + 1
           /\ EndScript => /\ StoreOK' /\ rev' = rev + 1
                           /\ lowering' \in Nat /\ lowering' >= lowering - 1
<1>1. rev \in Nat /\ lowering \in Nat /\ guard \in {"off", "fresh", "aged"} BY DEF StoreOK
<1>2. ASSUME BeginScript PROVE /\ StoreOK' /\ rev' = rev + 1 /\ lowering' = lowering + 1
  BY <1>1, <1>2 DEF BeginScript, StoreOK
<1>3. ASSUME EndScript PROVE /\ StoreOK' /\ rev' = rev + 1
                             /\ lowering' \in Nat /\ lowering' >= lowering - 1
  <2>1. lowering - 1 \in Int /\ 0 \in Nat /\ {lowering - 1, 0} = {0, lowering - 1} BY <1>1
  <2>2. lowering' \in Nat /\ lowering' >= lowering - 1 BY <1>3, <2>1, MaxFacts DEF EndScript
  <2>3. rev' = rev + 1 /\ guard' \in {"off", "fresh", "aged"} BY <1>1, <1>3 DEF EndScript
  <2>4. QED BY <1>1, <2>2, <2>3 DEF StoreOK
<1>4. QED BY <1>2, <1>3

LEMMA WriteTypes ==
    ASSUME HintTypeOK, NEW o \in Operations, Write(o)
    PROVE  StoreOK'
<1>1. StoreOK BY TypeParts
<1>2. UNCHANGED <<rev, lowering, guard, faults, budget, unread, now>> BY DEF Write, OnlyOp
<1> DEFINE Moved(st) == settings' = st /\ UNCHANGED <<points, owned, spent, paid>>
<1>3. ASSUME NEW st \in Settings, Moved(st) PROVE StoreOK' BY <1>1, <1>2, <1>3 DEF StoreOK
<1>4. ASSUME NEW src \in Sources, ClearPoints(src) PROVE StoreOK'
  <2>1. points' \in [Sources -> Nat] BY <1>1, <1>4 DEF ClearPoints, StoreOK
  <2>2. QED BY <1>1, <1>2, <1>4, <2>1 DEF ClearPoints, StoreOK
<1>5. ASSUME ClearOwned PROVE StoreOK' BY <1>1, <1>2, <1>5 DEF ClearOwned, StoreOK
<1>6. ASSUME ClearSpent PROVE StoreOK' BY <1>1, <1>2, <1>6 DEF ClearSpent, StoreOK
<1>7. ASSUME NEW patch \in Patches, WriteSettings(patch) PROVE StoreOK'
  <2>1. Patched(settings, patch) \in Settings BY <1>1, PatchFacts DEF StoreOK
  <2>2. QED BY <1>3, <1>7, <2>1 DEF WriteSettings
<1>8. ASSUME WriteSettings([paused |-> TRUE]) PROVE StoreOK'
  <2> DEFINE patch == [paused |-> TRUE]
             fields == {"price", "paused", "endsAt", "hints", "live"}
             st == Patched(settings, patch)
  <2>1. DOMAIN patch = {"paused"} /\ patch["paused"] = TRUE OBVIOUS
  <2>2. settings \in Settings /\ DOMAIN settings = fields BY <1>1 DEF StoreOK, Settings
  <2> HIDE DEF patch
  <2>3. st = [x \in fields |-> IF x = "paused" THEN TRUE ELSE settings[x]]
    BY <2>1, <2>2 DEF Patched
  <2> HIDE DEF st
  <2>4. st["paused"] = TRUE /\ \A x \in fields \ {"paused"} : st[x] = settings[x] BY <2>3
  <2>5. st = [price |-> st["price"], paused |-> st["paused"], endsAt |-> st["endsAt"],
              hints |-> st["hints"], live |-> st["live"]]
    BY <2>3
  <2>6. st \in Settings BY <2>2, <2>4, <2>5 DEF Settings
  <2>7. QED BY <1>3, <1>8, <2>6 DEF WriteSettings, st, patch
<1>9. QED BY <1>4, <1>5, <1>6, <1>7, <1>8 DEF Write

\* What a charge writes.
LEMMA ChargeTypes ==
    ASSUME HintTypeOK, NEW r \in Requests, Charge(r)
    PROVE  /\ StoreOK' /\ request' = [request EXCEPT ![r] = Finished]
           /\ spent' = spent + settings.price /\ settings.price \in Nat
<1>1. StoreOK /\ request[r] \in RequestType BY TypeParts
<1>2. request[r].hint \in Hints BY <1>1 DEF RequestType
<1>3. settings.price \in Nat BY <1>1 DEF StoreOK, Settings
<1>4. paid' \in [Hints -> Nat] BY <1>1, <1>2, <1>3 DEF Charge, StoreOK
<1>5. owned' \subseteq Hints BY <1>1, <1>2 DEF Charge, StoreOK
<1>6. spent' \in Nat /\ unread' \in BOOLEAN BY <1>1, <1>3 DEF Charge, StoreOK
<1>7. UNCHANGED <<settings, points, rev, lowering, guard, now, faults, budget>> BY DEF Charge, boundVars
<1>8. QED BY <1>1, <1>3, <1>4, <1>5, <1>6, <1>7 DEF StoreOK, Charge, Finish

\* The steps, by what they write: a request's own fields; a charge; an
\* organizer's request; the marker's expiry, a score, the clock.
RequestStep(r) == \/ \E h \in Hints, q \in Quotes : Reveal(r, h, q)
                  \/ ReadStep(r) \/ Refuse(r) \/ Retry(r) \/ Answer(r)
OrganizerStep(o) == \/ \E kind \in Kinds : StartOperation(o, kind)
                    \/ Begin(o) \/ Write(o) \/ End(o)
                    \/ BeginFails(o) \/ WriteFails(o) \/ EndFails(o) \/ TaskDies(o)
WorldStep == GuardAges \/ GuardExpires \/ (\E src \in Sources : Award(src)) \/ Tick

LEMMA NextCases ==
    Next <=> \/ \E r \in Requests : RequestStep(r) \/ Charge(r)
             \/ \E o \in Operations : OrganizerStep(o)
             \/ WorldStep
BY DEF Next, RequestStep, OrganizerStep, WorldStep, ScriptStep, OperationStep, FaultStep

LEMMA OrganizerTypes ==
    ASSUME HintTypeOK, OpsInShape, NEW o \in Operations, OrganizerStep(o)
    PROVE  /\ StoreOK' /\ UNCHANGED request
           /\ OpStep(o, op'[o])
           /\ op' \in [Operations -> OpType] /\ OpsInShape'
<1>1. StoreOK /\ op \in [Operations -> OpType] BY TypeParts
<1>2. UNCHANGED <<request, now>>
  BY DEF OrganizerStep, StartOperation, Begin, Write, End, BeginFails, WriteFails, EndFails, TaskDies,
         Fault, OnlyOp
<1>3. OpStep(o, op'[o]) BY OperationSteps DEF OrganizerStep
<1>4. op' \in [Operations -> OpType] /\ OpsInShape'
  <2>1. op'[o] \in OpType /\ op' = [op EXCEPT ![o] = op'[o]] BY <1>3 DEF OpStep
  <2>2. \A p \in Operations : p # o => op'[p] = op[p] BY <1>1, <2>1
  <2>3. QED BY <1>1, <1>3, <2>1, <2>2 DEF OpsInShape, OpStep
<1>5. StoreOK'
  <2>1. CASE \E kind \in Kinds : StartOperation(o, kind)
    BY <1>1, <1>2, <2>1 DEF StartOperation, redisVars, historyVars, StoreOK
  <2>2. CASE Begin(o) BY <1>1, <1>2, <2>2, BracketScripts DEF Begin, historyVars
  <2>3. CASE Write(o) BY <2>3, WriteTypes
  <2>4. CASE End(o) BY <1>1, <1>2, <2>4, BracketScripts DEF End, historyVars
  <2>5. CASE BeginFails(o)
    <3>1. faults' = faults + 1 /\ UNCHANGED <<settings, points, owned, spent, budget, paid, unread>>
          /\ (BeginScript \/ UNCHANGED <<rev, lowering, guard>>)
      BY <2>5 DEF BeginFails, Fault, historyVars
    <3>2. QED BY <1>1, <1>2, <3>1 DEF BeginScript, StoreOK
  <2>6. CASE WriteFails(o) \/ EndFails(o) \/ TaskDies(o)
    BY <1>1, <1>2, <2>6 DEF WriteFails, EndFails, TaskDies, Fault, redisVars, historyVars, StoreOK
  <2>7. QED BY <2>1, <2>2, <2>3, <2>4, <2>5, <2>6 DEF OrganizerStep
<1>6. QED BY <1>2, <1>3, <1>4, <1>5

LEMMA WorldTypes ==
    ASSUME HintTypeOK, WorldStep
    PROVE  /\ StoreOK' /\ UNCHANGED <<request, op, settings, spent, rev>>
           /\ \A src \in Sources : points'[src] >= points[src]
<1>1. StoreOK BY TypeParts
<1>2. UNCHANGED <<request, op, settings, spent, rev>>
  BY DEF WorldStep, GuardAges, GuardExpires, Award, Tick, redisVars
<1>3. CASE \E src \in Sources : Award(src)
  <2>1. PICK src \in Sources : Award(src) BY <1>3
  <2>2. points' = [points EXCEPT ![src] = @ + 1] BY <2>1 DEF Award
  <2>3. points' \in [Sources -> Nat] /\ \A x \in Sources : points'[x] >= points[x]
    BY <1>1, <2>2 DEF StoreOK
  <2>4. QED BY <1>1, <1>2, <2>1, <2>3 DEF Award, boundVars, historyVars, StoreOK
<1>4. CASE Tick
  <2>1. points' = points BY <1>4 DEF Tick, redisVars
  <2>2. \A x \in Sources : points[x] \in Nat BY <1>1 DEF StoreOK
  <2>3. QED BY <1>1, <1>2, <1>4, <2>1, <2>2 DEF Tick, redisVars, historyVars, StoreOK
<1>5. CASE GuardAges \/ GuardExpires
  <2>1. points' = points BY <1>5 DEF GuardAges, GuardExpires
  <2>2. \A x \in Sources : points[x] \in Nat BY <1>1 DEF StoreOK
  <2>3. QED BY <1>1, <1>2, <1>5, <2>1, <2>2 DEF GuardAges, GuardExpires, boundVars, historyVars, StoreOK
<1>6. QED BY <1>3, <1>4, <1>5 DEF WorldStep

TypesInv == HintTypeOK /\ OpsInShape

LEMMA TypesInit == ASSUME Init PROVE TypesInv
<1>1. StoreOK
  <2>1. points \in [Sources -> Nat] BY HintAssumption DEF Init
  <2>2. settings \in Settings /\ budget \in [Kinds -> Nat] BY HintAssumption DEF Init
  <2>3. {spent, rev, lowering, now, faults} \subseteq Nat /\ guard \in {"off", "fresh", "aged"}
    BY DEF Init
  <2>4. owned \subseteq Hints /\ paid \in [Hints -> Nat] /\ unread \in BOOLEAN BY DEF Init
  <2>5. QED BY <2>1, <2>2, <2>3, <2>4 DEF StoreOK
<1>2. request \in [Requests -> RequestType] /\ op \in [Operations -> OpType]
  BY BlankFacts, RestFacts DEF Init
<1>3. OpsInShape BY RestFacts DEF Init, OpsInShape
<1>4. QED BY <1>1, <1>2, <1>3, TypeParts DEF TypesInv

LEMMA TypesStep == ASSUME TypesInv, [Next]_hintVars PROVE TypesInv'
<1>1. HintTypeOK /\ OpsInShape BY DEF TypesInv
<1>2. StoreOK /\ request \in [Requests -> RequestType] /\ op \in [Operations -> OpType]
  BY <1>1, TypeParts
<1>3. SUFFICES /\ StoreOK' /\ request' \in [Requests -> RequestType]
               /\ op' \in [Operations -> OpType] /\ OpsInShape'
  BY DEF TypesInv, HintTypeOK, StoreOK, RequestType, OpType
<1>4. ASSUME UNCHANGED op PROVE op' \in [Operations -> OpType] /\ OpsInShape'
  BY <1>1, <1>2, <1>4 DEF OpsInShape
<1>5. CASE \E r \in Requests : RequestStep(r)
  <2>1. PICK r \in Requests : RequestStep(r) BY <1>5
  <2>2. /\ OnlyRequest /\ request' = [request EXCEPT ![r] = request'[r]]
        /\ request'[r] \in RequestType
    BY <1>1, <2>1, RequestSteps DEF RequestStep
  <2>3. request' \in [Requests -> RequestType] BY <1>2, <2>2
  <2>4. StoreOK' /\ UNCHANGED op
    BY <1>2, <2>2 DEF OnlyRequest, redisVars, boundVars, historyVars, StoreOK
  <2>5. QED BY <1>4, <2>3, <2>4
<1>6. CASE \E r \in Requests : Charge(r)
  <2>1. PICK r \in Requests : Charge(r) BY <1>6
  <2>2. StoreOK' /\ request' = [request EXCEPT ![r] = Finished] BY <1>1, <2>1, ChargeTypes
  <2>3. request' \in [Requests -> RequestType] BY <1>2, <2>2, BlankFacts
  <2>4. UNCHANGED op BY <2>1 DEF Charge
  <2>5. QED BY <1>4, <2>2, <2>3, <2>4
<1>7. CASE \E o \in Operations : OrganizerStep(o) BY <1>1, <1>2, <1>7, OrganizerTypes
<1>8. CASE WorldStep BY <1>1, <1>2, <1>4, <1>8, WorldTypes
<1>9. CASE UNCHANGED hintVars
  BY <1>2, <1>4, <1>9 DEF hintVars, redisVars, boundVars, historyVars, StoreOK
<1>10. QED BY <1>5, <1>6, <1>7, <1>8, <1>9, NextCases

\* Every variable keeps its type, whatever organizers do and whatever fails.
THEOREM LedgerTypes == Spec => []HintTypeOK
<1>1. Init => TypesInv BY TypesInit
<1>2. TypesInv /\ [Next]_hintVars => TypesInv' BY TypesStep
<1>3. TypesInv => HintTypeOK BY DEF TypesInv
<1>4. QED BY <1>1, <1>2, <1>3, PTL DEF Spec

(***************************************************************************)
(* The marker counts every bracket open, so that no balance is current      *)
(* while one is; and every balance that is current is one the contestant    *)
(* really has.  What can break the first is the marker's expiry: it takes   *)
(* the key of a bracket nobody closed, and with it the count of an          *)
(* operation that began between the key's ageing and its end.               *)
(***************************************************************************)
NoLateStart == guard = "aged" => \A o \in Operations : Idle(o)

Shop == TypesInv /\ Cardinality(OpenBrackets) <= lowering /\ BalancesFresh

LEMMA OrganizerMarks ==
    ASSUME Shop, NEW o \in Operations, OrganizerStep(o)
    PROVE  /\ Cardinality(OpenBrackets') <= lowering'
           /\ \/ rev' > rev
              \/ rev' = rev /\ lowering' = lowering /\ UNCHANGED <<settings, points, spent>>
              \/ rev' = rev /\ lowering' = lowering /\ lowering > 0
<1>1. HintTypeOK /\ OpsInShape /\ StoreOK BY TypeParts DEF Shop, TypesInv
<1>2. op \in [Operations -> OpType] BY <1>1, TypeParts
<1>3. rev \in Nat /\ lowering \in Nat BY <1>1 DEF StoreOK
<1>4. Cardinality(OpenBrackets) \in Nat /\ Cardinality(OpenBrackets) <= lowering
  BY <1>2, BracketsFacts DEF Shop
<1>5. op'[o] \in OpType /\ op' = [op EXCEPT ![o] = op'[o]]
  BY <1>1, OrganizerTypes DEF OpStep
<1>6. /\ op'[o].open = op[o].open => Cardinality(OpenBrackets') = Cardinality(OpenBrackets)
      /\ op'[o].open = op[o].open + 1 => Cardinality(OpenBrackets') = Cardinality(OpenBrackets) + 1
      /\ op'[o].open = op[o].open - 1 => Cardinality(OpenBrackets') = Cardinality(OpenBrackets) - 1
      /\ op'[o].open <= op[o].open => Cardinality(OpenBrackets') <= Cardinality(OpenBrackets)
  BY <1>2, <1>5, BracketCount
<1>7. op'[o].open \in Nat /\ op[o].open \in Nat
  <2>1. \A x \in OpType : x.open \in 0..2 BY DEF OpType
  <2>2. op[o] \in OpType BY <1>2
  <2>3. op'[o].open \in 0..2 /\ op[o].open \in 0..2 BY <1>5, <2>1, <2>2
  <2>4. QED BY <2>3
<1>8. CASE \E kind \in Kinds : StartOperation(o, kind)
  <2>1. op'[o].open = op[o].open BY <1>1, <1>8, OperationSteps
  <2>2. UNCHANGED redisVars BY <1>8 DEF StartOperation
  <2>3. QED BY <1>4, <1>6, <2>1, <2>2 DEF redisVars
<1>9. CASE Begin(o)
  <2>1. op'[o].open = op[o].open + 1 BY <1>1, <1>9, OperationSteps
  <2>2. rev' = rev + 1 /\ lowering' = lowering + 1 BY <1>9 DEF Begin, BeginScript
  <2>3. QED BY <1>3, <1>4, <1>6, <2>1, <2>2
<1>10. CASE End(o)
  <2>1. op'[o].open = op[o].open - 1 BY <1>1, <1>10, OperationSteps
  <2>2. UNCHANGED <<settings, points, owned, spent, now, faults, budget, paid, unread>>
    BY <1>10 DEF End, OnlyOp, historyVars
  <2>3. rev' = rev + 1 /\ lowering' \in Nat /\ lowering' >= lowering - 1
    BY <1>1, <1>10, <2>2, BracketScripts DEF End
  <2>4. QED BY <1>3, <1>4, <1>6, <2>1, <2>3
<1>11. CASE Write(o)
  <2>1. op'[o].open = op[o].open /\ op[o].open > 0 BY <1>1, <1>11, OperationSteps
  <2>2. Cardinality(OpenBrackets) > 0 BY <1>2, <2>1, BracketsFacts
  <2>3. rev' = rev /\ lowering' = lowering BY <1>11 DEF Write
  <2>4. QED BY <1>3, <1>4, <1>6, <2>1, <2>2, <2>3
<1>12. CASE BeginFails(o)
  <2>1. op'[o].open = op[o].open BY <1>1, <1>12, OperationSteps
  <2>2. UNCHANGED <<settings, points, spent>> BY <1>12 DEF BeginFails
  <2>3. \/ rev' = rev + 1 /\ lowering' = lowering + 1
        \/ rev' = rev /\ lowering' = lowering
    BY <1>12 DEF BeginFails, BeginScript
  <2>4. QED BY <1>3, <1>4, <1>6, <2>1, <2>2, <2>3
<1>13. CASE WriteFails(o) \/ EndFails(o) \/ TaskDies(o)
  <2>1. op'[o].open <= op[o].open BY <1>1, <1>7, <1>13, OperationSteps
  <2>2. UNCHANGED redisVars BY <1>13 DEF WriteFails, EndFails, TaskDies
  <2>3. Cardinality(OpenBrackets') <= Cardinality(OpenBrackets) BY <1>6, <2>1
  <2>4. op' \in [Operations -> OpType] BY <1>1, OrganizerTypes
  <2>5. Cardinality(OpenBrackets') \in Nat
    <3>1. IsFiniteSet(OpenBrackets')
      <4>1. OpenBrackets' \subseteq Operations \X (1..2) BY DEF OpenBrackets
      <4>2. IsFiniteSet(Operations \X (1..2)) BY BracketSlots
      <4>3. QED BY <4>1, <4>2, FS_Subset
    <3>2. QED BY <3>1, FS_CardinalityType
  <2>6. QED BY <1>3, <1>4, <2>2, <2>3, <2>5 DEF redisVars
<1>14. QED BY <1>8, <1>9, <1>10, <1>11, <1>12, <1>13 DEF OrganizerStep

LEMMA ShopInit == ASSUME Init PROVE Shop
<1>1. TypesInv BY TypesInit
<1>2. op \in [Operations -> OpType] BY <1>1, TypeParts DEF TypesInv
<1>3. \A o \in Operations : op[o].open = 0 BY RestFacts DEF Init
<1>4. Cardinality(OpenBrackets) <= lowering BY <1>2, <1>3, BracketsFacts DEF Init
<1>5. BalancesFresh BY BlankFacts DEF Init, BalancesFresh, Fresh, FreshNow
<1>6. QED BY <1>1, <1>4, <1>5 DEF Shop

LEMMA ShopStep == ASSUME Shop, NoLateStart, [Next]_hintVars PROVE Shop'
<1>1. HintTypeOK /\ OpsInShape /\ StoreOK BY TypeParts DEF Shop, TypesInv
<1>2. request \in [Requests -> RequestType] /\ op \in [Operations -> OpType] BY <1>1, TypeParts
<1>3. TypesInv' /\ HintTypeOK' BY TypesStep DEF Shop, TypesInv
<1>4. /\ \A r \in Requests : Fresh(request[r])
      /\ Cardinality(OpenBrackets) \in Nat /\ Cardinality(OpenBrackets) <= lowering
  BY <1>2, BracketsFacts DEF Shop, BalancesFresh
<1>5. rev \in Nat /\ lowering \in Nat /\ spent \in Nat BY <1>1 DEF StoreOK
<1>6. /\ Worth("solves") \in Nat /\ Worth("app") \in Nat /\ Counted = Worth("solves") + Worth("app")
  BY <1>1, WorthFacts
<1>7. SUFFICES /\ Cardinality(OpenBrackets') <= lowering'
               /\ \A r \in Requests : Fresh(request[r])'
  BY <1>3 DEF Shop, BalancesFresh
<1>8. ASSUME UNCHANGED op, UNCHANGED lowering PROVE Cardinality(OpenBrackets') <= lowering'
  BY <1>4, <1>8 DEF OpenBrackets
<1>9. ASSUME UNCHANGED <<settings, points>>
      PROVE  Worth("solves")' >= Worth("solves") /\ Counted' >= Counted
  BY <1>6, <1>9 DEF Worth, Counted
<1>10. CASE \E r \in Requests : RequestStep(r)
  <2>1. PICK r \in Requests : RequestStep(r) BY <1>10
  <2>2. /\ OnlyRequest /\ request' = [request EXCEPT ![r] = request'[r]] /\ Fresh(request'[r])
    BY <1>1, <1>4, <2>1, RequestSteps DEF RequestStep
  <2>3. UNCHANGED <<settings, points, spent, rev, lowering, op>>
    BY <2>2 DEF OnlyRequest, redisVars
  <2>4. Fresh(request[r])' BY <2>2, <2>3 DEF Fresh, FreshNow, Worth, Counted
  <2>5. \A x \in Requests : x # r => request'[x] = request[x] BY <1>2, <2>2
  <2>6. \A x \in Requests : x # r => Fresh(request[x])'
    BY <1>1, <1>3, <1>4, <1>5, <1>9, <2>3, <2>5, FreshStays
  <2>7. QED BY <1>8, <2>3, <2>4, <2>6
<1>11. CASE \E r \in Requests : Charge(r)
  <2>1. PICK r \in Requests : Charge(r) BY <1>11
  <2>2. /\ request' = [request EXCEPT ![r] = Finished]
        /\ spent' = spent + settings.price /\ settings.price \in Nat
    BY <1>1, <2>1, ChargeTypes
  <2>3. UNCHANGED <<settings, points, rev, lowering, op>> BY <2>1 DEF Charge
  <2>4. request'[r] = Finished /\ \A x \in Requests : x # r => request'[x] = request[x] BY <1>2, <2>2
  <2>5. Fresh(request[r])' BY <2>4, BlankFacts DEF Fresh, FreshNow
  <2>6. spent' >= spent BY <1>5, <2>2
  <2>7. \A x \in Requests : x # r => Fresh(request[x])'
    BY <1>1, <1>3, <1>4, <1>5, <1>9, <2>3, <2>4, <2>6, FreshStays
  <2>8. QED BY <1>8, <2>3, <2>5, <2>7
<1>12. CASE \E o \in Operations : OrganizerStep(o)
  <2>1. PICK o \in Operations : OrganizerStep(o) BY <1>12
  <2>2. UNCHANGED request BY <1>1, <2>1, OrganizerTypes
  <2>3. Cardinality(OpenBrackets') <= lowering' BY <2>1, OrganizerMarks
  <2>4. \/ rev' > rev
        \/ /\ rev' = rev /\ lowering' = lowering /\ spent' >= spent
           /\ Worth("solves")' >= Worth("solves") /\ Counted' >= Counted
        \/ rev' = rev /\ lowering' = lowering /\ lowering > 0
    BY <1>5, <1>9, <2>1, OrganizerMarks
  <2>5. \A r \in Requests : Fresh(request[r])' BY <1>1, <1>3, <1>4, <2>2, <2>4, FreshStays
  <2>6. QED BY <2>3, <2>5
<1>13. CASE WorldStep
  <2>1. /\ UNCHANGED <<request, op, settings, spent, rev>>
        /\ \A src \in Sources : points'[src] >= points[src]
    BY <1>1, <1>13, WorldTypes
  <2>2. Worth("solves")' >= Worth("solves") /\ Worth("app")' >= Worth("app")
    BY <1>6, <2>1 DEF Worth, Sources
  <2>3. Worth("solves")' \in Nat /\ Worth("app")' \in Nat
    <3>1. \A src \in Sources : points'[src] \in Nat BY <1>3 DEF HintTypeOK
    <3>2. QED BY <3>1 DEF Worth, Sources
  <2>4. Counted' >= Counted BY <1>6, <2>2, <2>3 DEF Counted
  <2>5. lowering' = lowering \/ (lowering' = 0 /\ GuardExpires)
    BY <1>13 DEF WorldStep, GuardAges, GuardExpires, Award, Tick, redisVars
  <2>6. \A r \in Requests : Fresh(request[r])'
    BY <1>1, <1>3, <1>4, <1>5, <2>1, <2>2, <2>4, <2>5, FreshStays
  <2>7. CASE lowering' = lowering BY <1>8, <2>1, <2>6, <2>7
  <2>8. CASE lowering' = 0 /\ GuardExpires
    <3>1. \A o \in Operations : op[o].open = 0 BY <2>8, RestFacts DEF GuardExpires, NoLateStart, Idle
    <3>2. Cardinality(OpenBrackets) = 0 BY <1>2, <3>1, BracketsFacts
    <3>3. OpenBrackets' = OpenBrackets BY <2>1 DEF OpenBrackets
    <3>4. QED BY <2>6, <2>8, <3>2, <3>3
  <2>9. QED BY <2>5, <2>7, <2>8
<1>14. CASE UNCHANGED hintVars
  <2>1. UNCHANGED <<settings, points, spent, rev, lowering, op, request>>
    BY <1>14 DEF hintVars, redisVars
  <2>2. \A r \in Requests : Fresh(request[r])'
    BY <1>1, <1>3, <1>4, <1>5, <1>9, <2>1, FreshStays
  <2>3. QED BY <1>8, <2>1, <2>2
<1>15. QED BY <1>10, <1>11, <1>12, <1>13, <1>14, NextCases

\* The marker is up while an operation writes.
LEMMA ShopMarks == ASSUME Shop PROVE MarkerWhileWriting
<1>1. HintTypeOK /\ op \in [Operations -> OpType] BY TypeParts DEF Shop, TypesInv
<1>2. lowering \in Nat /\ Cardinality(OpenBrackets) <= lowering BY <1>1 DEF Shop, HintTypeOK
<1>3. Cardinality(OpenBrackets) \in Nat BY <1>1, BracketsFacts
<1>4. \A o \in Operations : op[o].open > 0 => Cardinality(OpenBrackets) > 0 BY <1>1, BracketsFacts
<1>5. QED BY <1>2, <1>3, <1>4 DEF MarkerWhileWriting, Running

\* A step that charges a price read the balance it charges under the revision
\* of this moment, so the balance is within the points that count.
LEMMA ShopAffords == ASSUME Shop, [Next]_hintVars PROVE unread' \/ Affordable
<1>1. HintTypeOK /\ OpsInShape /\ StoreOK BY TypeParts DEF Shop, TypesInv
<1>2. request \in [Requests -> RequestType] BY <1>1, TypeParts
<1>3. spent \in Nat /\ rev \in Nat /\ lowering \in Nat /\ Counted \in Nat
  BY <1>1, WorthFacts DEF StoreOK
<1>4. ASSUME spent' = spent \/ spent' = 0 PROVE Affordable BY <1>3, <1>4 DEF Affordable
<1>5. ASSUME NEW r \in Requests, Charge(r), ~unread', spent' > spent
      PROVE  spent' <= Counted'
  <2> DEFINE q == request[r]
  <2>1. q \in RequestType BY <1>2
  <2>2. q.balance.seen \in Nat /\ q.balance.gross \in Nat /\ q.balance.read \in BOOLEAN
    BY <2>1 DEF RequestType
  <2>3. spent' = spent + settings.price /\ settings.price \in Nat BY <1>1, <1>5, ChargeTypes
  <2>4. settings.price > 0 BY <1>3, <1>5, <2>3
  <2>5. q.balance.read BY <1>5, <2>4 DEF Charge
  <2>6. q.at = "script" /\ ~Stale(q) /\ ~Short(q) BY <1>5 DEF Charge, Charges
  <2>7. lowering = 0 /\ rev = q.balance.seen BY <1>3, <2>2, <2>5, <2>6 DEF Stale
  <2>8. q.balance.gross - spent >= settings.price
    <3> HIDE DEF q
    <3>1. ~(q.balance.gross - spent < settings.price) BY <2>5, <2>6 DEF Short
    <3>2. QED BY <1>3, <2>2, <2>3, <3>1
  <2>9. q.balance.gross <= Counted \/ q.balance.gross <= spent
    <3>1. Fresh(q) BY DEF Shop, BalancesFresh
    <3>2. FreshNow(q) BY <2>5, <2>7 DEF FreshNow
    <3>3. QED BY <2>6, <3>1, <3>2 DEF Fresh
  <2>10. Counted' = Counted BY <1>5 DEF Charge, Counted, Worth
  <2> HIDE DEF q
  <2>11. QED BY <1>3, <2>2, <2>3, <2>4, <2>8, <2>9, <2>10
<1>6. CASE \E r \in Requests : RequestStep(r)
  <2>1. PICK r \in Requests : RequestStep(r) BY <1>6
  <2>2. OnlyRequest BY <1>1, <2>1, RequestSteps DEF RequestStep
  <2>3. QED BY <1>4, <2>2 DEF OnlyRequest, redisVars
<1>7. CASE \E r \in Requests : Charge(r) BY <1>5, <1>7 DEF Affordable
<1>8. CASE \E o \in Operations : OrganizerStep(o)
  <2>1. PICK o \in Operations : OrganizerStep(o) BY <1>8
  <2>2. spent' = spent \/ spent' = 0
    <3>1. CASE Write(o)
      BY <3>1 DEF Write, ClearPoints, ClearOwned, ClearSpent, WriteSettings
    <3>2. CASE ~Write(o)
      BY <2>1, <3>2 DEF OrganizerStep, StartOperation, Begin, End, BeginFails, WriteFails, EndFails,
                        TaskDies, redisVars
    <3>3. QED BY <3>1, <3>2
  <2>3. QED BY <1>4, <2>2
<1>9. CASE WorldStep BY <1>1, <1>4, <1>9, WorldTypes
<1>10. CASE UNCHANGED hintVars BY <1>4, <1>10 DEF hintVars, redisVars
<1>11. QED BY <1>6, <1>7, <1>8, <1>9, <1>10, NextCases

\* Whatever fails, as long as no organizer starts an operation while the marker
\* of a bracket nobody closed is about to expire: the marker is over every
\* write, and no charge takes the spend above the points that count, except one
\* whose request read no balance.
THEOREM ShopHolds == Spec /\ []NoLateStart => []MarkerWhileWriting /\ ChargesAffordable
<1>1. Init => Shop BY ShopInit
<1>2. Shop /\ NoLateStart /\ [Next]_hintVars => Shop' BY ShopStep
<1>3. Shop => MarkerWhileWriting BY ShopMarks
<1>4. Shop /\ [Next]_hintVars => [unread' \/ Affordable]_hintVars BY ShopAffords
<1>5. QED BY <1>1, <1>2, <1>3, <1>4, PTL DEF Spec, ChargesAffordable

(***************************************************************************)
(* With no fault, the marker is exactly the count of the open brackets and  *)
(* its expiry never comes near.                                             *)
(***************************************************************************)
Quiet == /\ lowering = Cardinality(OpenBrackets)
         /\ guard # "aged" /\ (guard = "off" <=> lowering = 0)

LEMMA QuietStep ==
    ASSUME MaxFaults = 0, Shop, Quiet, [Next]_hintVars
    PROVE  Quiet'
<1>1. HintTypeOK /\ OpsInShape /\ StoreOK BY TypeParts DEF Shop, TypesInv
<1>2. op \in [Operations -> OpType] BY <1>1, TypeParts
<1>3. lowering \in Nat /\ guard \in {"off", "fresh", "aged"} /\ faults \in Nat BY <1>1 DEF StoreOK
<1>4. ASSUME UNCHANGED <<op, lowering, guard>> PROVE Quiet' BY <1>4 DEF Quiet, OpenBrackets
<1>5. CASE \E r \in Requests : RequestStep(r) \/ Charge(r)
  <2>1. PICK r \in Requests : RequestStep(r) \/ Charge(r) BY <1>5
  <2>2. UNCHANGED <<op, lowering, guard>>
    <3>1. CASE RequestStep(r)
      BY <1>1, <3>1, RequestSteps DEF RequestStep, OnlyRequest, redisVars
    <3>2. CASE Charge(r) BY <3>2 DEF Charge
    <3>3. QED BY <2>1, <3>1, <3>2
  <2>3. QED BY <1>4, <2>2
<1>6. CASE \E o \in Operations : OrganizerStep(o)
  <2>1. PICK o \in Operations : OrganizerStep(o) BY <1>6
  <2>2. op'[o] \in OpType /\ op' = [op EXCEPT ![o] = op'[o]]
    BY <1>1, <2>1, OrganizerTypes DEF OpStep
  <2>3. /\ op'[o].open = op[o].open => Cardinality(OpenBrackets') = Cardinality(OpenBrackets)
        /\ op'[o].open = op[o].open + 1 => Cardinality(OpenBrackets') = Cardinality(OpenBrackets) + 1
        /\ op'[o].open = op[o].open - 1 => Cardinality(OpenBrackets') = Cardinality(OpenBrackets) - 1
    BY <1>2, <2>2, BracketCount
  <2>4. CASE (\E kind \in Kinds : StartOperation(o, kind)) \/ Write(o)
    <3>1. op'[o].open = op[o].open BY <1>1, <2>4, OperationSteps
    <3>2. UNCHANGED <<lowering, guard>> BY <2>4 DEF StartOperation, Write, redisVars
    <3>3. QED BY <2>3, <3>1, <3>2 DEF Quiet
  <2>5. CASE Begin(o)
    <3>1. op'[o].open = op[o].open + 1 BY <1>1, <2>5, OperationSteps
    <3>2. lowering' = lowering + 1 /\ guard' = IF guard = "off" THEN "fresh" ELSE guard
      BY <2>5 DEF Begin, BeginScript
    <3>3. QED BY <1>3, <2>3, <3>1, <3>2 DEF Quiet
  <2>6. CASE End(o)
    <3>1. op'[o].open = op[o].open - 1 /\ op[o].open > 0
      BY <1>1, <2>6, OperationSteps DEF End
    <3>2. lowering > 0 BY <1>2, <3>1, BracketsFacts DEF Quiet
    <3>3. lowering' = Max({lowering - 1, 0}) /\ guard' = IF lowering > 1 THEN guard ELSE "off"
      BY <2>6 DEF End, EndScript
    <3>4. lowering - 1 \in Nat /\ 0 \in Int BY <1>3, <3>2
    <3>5. lowering' = lowering - 1 BY <1>3, <3>2, <3>3, <3>4, MaxFacts
    <3>6. QED BY <1>3, <2>3, <3>1, <3>2, <3>3, <3>5 DEF Quiet
  <2>7. CASE BeginFails(o) \/ WriteFails(o) \/ EndFails(o) \/ TaskDies(o)
    <3>1. faults < MaxFaults BY <2>7 DEF BeginFails, WriteFails, EndFails, TaskDies, Fault
    <3>2. QED BY <1>3, <3>1
  <2>8. QED BY <2>1, <2>4, <2>5, <2>6, <2>7 DEF OrganizerStep
<1>7. CASE WorldStep
  <2>1. CASE GuardAges
    <3>1. guard = "fresh" /\ \A o \in Operations : op[o].open = 0
      BY <2>1, RestFacts DEF GuardAges, Idle
    <3>2. lowering = 0 BY <1>2, <3>1, BracketsFacts DEF Quiet
    <3>3. QED BY <3>1, <3>2 DEF Quiet
  <2>2. CASE GuardExpires BY <2>2 DEF GuardExpires, Quiet
  <2>3. CASE (\E src \in Sources : Award(src)) \/ Tick BY <1>4, <2>3 DEF Award, Tick, redisVars
  <2>4. QED BY <1>7, <2>1, <2>2, <2>3 DEF WorldStep
<1>8. CASE UNCHANGED hintVars BY <1>4, <1>8 DEF hintVars, redisVars
<1>9. QED BY <1>5, <1>6, <1>7, <1>8, NextCases

LEMMA QuietInit == ASSUME Init PROVE Quiet
<1>1. op \in [Operations -> OpType] BY ShopInit, TypeParts DEF Shop, TypesInv
<1>2. \A o \in Operations : op[o].open = 0 BY RestFacts DEF Init
<1>3. QED BY <1>1, <1>2, BracketsFacts DEF Init, Quiet

\* With no fault at all, the same of every behaviour.
THEOREM QuietShopHolds ==
    ASSUME MaxFaults = 0
    PROVE  Spec => []MarkerWhileWriting /\ ChargesAffordable
<1>1. Init => Shop /\ Quiet BY ShopInit, QuietInit
<1>2. Shop /\ Quiet /\ [Next]_hintVars => Shop' /\ Quiet'
  BY ShopStep, QuietStep DEF Quiet, NoLateStart
<1>3. Shop => MarkerWhileWriting BY ShopMarks
<1>4. Shop /\ [Next]_hintVars => [unread' \/ Affordable]_hintVars BY ShopAffords
<1>5. QED BY <1>1, <1>2, <1>3, <1>4, PTL DEF Spec, ChargesAffordable

(***************************************************************************)
(* The spend, and the hints it was charged for.                             *)
(***************************************************************************)
\* The writes an operation may have left; and those of a reset between its
\* delete of the hints and its delete of the spend.
AfterOwned == {<<"spent">>, <<"spent", "app", "freeze">>}
Ahead == AfterOwned \union
         {<<>>, <<"patch">>, <<"freeze">>, <<"app", "freeze">>, <<"owned", "spent">>,
          <<"app", "owned", "spent">>, <<"solves", "app", "owned", "spent">>,
          <<"owned", "spent", "app", "freeze">>, <<"solves", "owned", "spent", "app", "freeze">>}
Between(o) == op[o].todo \in AfterOwned

\* What is not owned was charged nothing; between the two deletes of a reset
\* nothing is charged; and otherwise the spend is what was charged.
Spend ==
    /\ \A o \in Operations : op[o].todo \in Ahead /\ (Between(o) => op[o].open > 0)
    /\ \A h \in Hints \ owned : paid[h] = 0
    /\ ~unread => IF \E o \in Operations : Between(o)
                  THEN \A h \in Hints : paid[h] = 0
                  ELSE spent = Total(paid, Hints)

LEMMA AheadFacts ==
    /\ \A kind \in Kinds : Writes(kind) \in Ahead \ AfterOwned
    /\ <<>> \in Ahead \ AfterOwned
    /\ \A t \in Ahead : t # <<>> =>
          /\ Tail(t) \in Ahead
          /\ Head(t) = "owned" <=> Tail(t) \in AfterOwned
          /\ Head(t) = "spent" <=> t \in AfterOwned
<1>1. \A kind \in Kinds : Writes(kind) \in Ahead \ AfterOwned
  BY DEF Kinds, Writes, Ahead, AfterOwned
<1>2. <<>> \in Ahead \ AfterOwned BY DEF Ahead, AfterOwned
<1> DEFINE Goes(t) == /\ Tail(t) \in Ahead
                      /\ Head(t) = "owned" <=> Tail(t) \in AfterOwned
                      /\ Head(t) = "spent" <=> t \in AfterOwned
<1>3. Goes(<<"spent">>) BY DEF Ahead, AfterOwned
<1>4. Goes(<<"spent", "app", "freeze">>)
  <2>1. Tail(<<"spent", "app", "freeze">>) = <<"app", "freeze">> OBVIOUS
  <2>2. QED BY <2>1 DEF Ahead, AfterOwned
<1>5. Goes(<<"patch">>) /\ Goes(<<"freeze">>) BY DEF Ahead, AfterOwned
<1>6. Goes(<<"app", "freeze">>)
  <2>1. Tail(<<"app", "freeze">>) = <<"freeze">> OBVIOUS
  <2>2. QED BY <2>1 DEF Ahead, AfterOwned
<1>7. Goes(<<"owned", "spent">>)
  <2>1. Tail(<<"owned", "spent">>) = <<"spent">> OBVIOUS
  <2>2. QED BY <2>1 DEF Ahead, AfterOwned
<1>8. Goes(<<"app", "owned", "spent">>)
  <2>1. Tail(<<"app", "owned", "spent">>) = <<"owned", "spent">> OBVIOUS
  <2>2. QED BY <2>1 DEF Ahead, AfterOwned
<1>9. Goes(<<"solves", "app", "owned", "spent">>)
  <2>1. Tail(<<"solves", "app", "owned", "spent">>) = <<"app", "owned", "spent">> OBVIOUS
  <2>2. QED BY <2>1 DEF Ahead, AfterOwned
<1>10. Goes(<<"owned", "spent", "app", "freeze">>)
  <2>1. Tail(<<"owned", "spent", "app", "freeze">>) = <<"spent", "app", "freeze">> OBVIOUS
  <2>2. QED BY <2>1 DEF Ahead, AfterOwned
<1>11. Goes(<<"solves", "owned", "spent", "app", "freeze">>)
  <2>1. Tail(<<"solves", "owned", "spent", "app", "freeze">>) = <<"owned", "spent", "app", "freeze">>
    OBVIOUS
  <2>2. QED BY <2>1 DEF Ahead, AfterOwned
<1> HIDE DEF Goes
<1>12. \A t \in Ahead : t # <<>> => Goes(t)
  BY <1>3, <1>4, <1>5, <1>6, <1>7, <1>8, <1>9, <1>10, <1>11 DEF Ahead, AfterOwned
<1>13. QED BY <1>1, <1>2, <1>12 DEF Goes

\* What each step leaves an operation to write.
LEMMA TodoSteps ==
    ASSUME HintTypeOK, OpsInShape, NEW o \in Operations
    PROVE  /\ \A kind \in Kinds : StartOperation(o, kind) => op'[o].todo = Writes(kind)
           /\ Begin(o) \/ End(o) => op'[o].todo = op[o].todo
           /\ Write(o) => op[o].todo # <<>> /\ op'[o].todo = Tail(op[o].todo)
<1>1. op[o] \in OpType /\ op \in [Operations -> OpType] BY DEF HintTypeOK, OpType
<1>2. ASSUME NEW kind \in Kinds, StartOperation(o, kind) PROVE op'[o].todo = Writes(kind)
  BY <1>1, <1>2 DEF StartOperation
<1>3. ASSUME Begin(o) PROVE op'[o].todo = op[o].todo
  <2>1. op'[o] = [op[o] EXCEPT !.open = op[o].open + 1] BY <1>1, <1>3 DEF Begin
  <2>2. QED BY <1>1, <2>1 DEF OpType
<1>4. ASSUME End(o) PROVE op'[o].todo = op[o].todo
  <2>1. op'[o] = OneClosed(op[o]) /\ op[o].todo = <<>> /\ op[o].open > 0 BY <1>1, <1>4 DEF End
  <2>2. op[o].open <= op[o].need BY DEF OpsInShape
  <2>3. QED BY <1>1, <2>1, <2>2, ClosedFacts
<1>5. ASSUME Write(o) PROVE op[o].todo # <<>> /\ op'[o].todo = Tail(op[o].todo)
  <2>1. op'[o] = [op[o] EXCEPT !.todo = Tail(op[o].todo)] /\ op[o].todo # <<>>
    BY <1>1, <1>5 DEF Write, Past
  <2>2. QED BY <1>1, <2>1 DEF OpType
<1>6. QED BY <1>2, <1>3, <1>4, <1>5

LEMMA SpendInit == ASSUME Init PROVE Spend
<1>1. \A o \in Operations : op[o].todo = <<>> BY RestFacts DEF Init
<1>2. \A o \in Operations : op[o].todo \in Ahead /\ ~Between(o)
  BY <1>1, AheadFacts DEF Between
<1>3. \A h \in Hints : paid[h] = 0 BY DEF Init
<1>4. Total(paid, Hints) = 0 BY <1>3, HintAssumption, TotalZero
<1>5. spent = 0 BY DEF Init
<1>6. QED BY <1>2, <1>3, <1>4, <1>5 DEF Spend

\* A charge of a price finds no reset under way, or it read no balance.
LEMMA SpendCharge ==
    ASSUME Shop, Spend, NEW r \in Requests, Charge(r)
    PROVE  Spend'
<1>1. HintTypeOK /\ StoreOK BY TypeParts DEF Shop, TypesInv
<1>2. request[r] \in RequestType /\ op \in [Operations -> OpType] BY <1>1, TypeParts
<1> DEFINE h == request[r].hint
           price == settings.price
<1>3. h \in Hints /\ h \notin owned BY <1>2 DEF RequestType, Charge, Charges
<1>4. price \in Nat /\ spent' = spent + price BY <1>1, ChargeTypes
<1>5. paid' = [paid EXCEPT ![h] = price] /\ owned' = owned \union {h} /\ UNCHANGED op
  BY DEF Charge
<1>6. unread' = (unread \/ (price > 0 /\ ~request[r].balance.read)) BY DEF Charge
<1>7. paid \in [Hints -> Nat] /\ spent \in Nat /\ lowering \in Nat /\ unread \in BOOLEAN
  BY <1>1 DEF StoreOK
<1>8. paid[h] = 0 BY <1>3 DEF Spend
<1> HIDE DEF h, price
<1>9. \A x \in Hints \ owned' : paid'[x] = 0 BY <1>3, <1>5, <1>7 DEF Spend
<1>10. \A o \in Operations : op'[o].todo \in Ahead /\ (Between(o)' => op'[o].open > 0)
  BY <1>5 DEF Spend, Between
<1>11. ASSUME ~unread', \E o \in Operations : Between(o)' PROVE \A x \in Hints : paid'[x] = 0
  <2>1. PICK o \in Operations : Between(o) BY <1>5, <1>11 DEF Between
  <2>2. op[o].open > 0 BY <2>1 DEF Spend
  <2>3. Cardinality(OpenBrackets) > 0 /\ Cardinality(OpenBrackets) \in Nat
    BY <1>2, <2>2, BracketsFacts
  <2>4. lowering > 0 BY <1>7, <2>3 DEF Shop
  <2>5. ~request[r].balance.read BY <2>4 DEF Charge, Charges, Stale
  <2>6. price = 0 /\ ~unread
    <3>1. ~unread /\ ~(price > 0 /\ ~request[r].balance.read) BY <1>6, <1>11, Zenon
    <3>2. ~(price > 0) BY <2>5, <3>1, Zenon
    <3>3. QED BY <1>4, <3>1, <3>2
  <2>7. \A x \in Hints : paid[x] = 0 BY <2>1, <2>6 DEF Spend
  <2>8. QED BY <1>5, <1>7, <2>6, <2>7
<1>12. ASSUME ~unread', ~\E o \in Operations : Between(o)' PROVE spent' = Total(paid', Hints)
  <2>1. ~unread /\ ~\E o \in Operations : Between(o) BY <1>5, <1>6, <1>7, <1>12 DEF Between
  <2>2. spent = Total(paid, Hints) BY <2>1 DEF Spend
  <2>3. Total(paid', Hints) = Total(paid, Hints) - paid[h] + price
    <3>1. IsFiniteSet(Hints) BY HintAssumption
    <3>2. paid' \in [Hints -> Nat] /\ paid'[h] = price /\ \A x \in Hints : x # h => paid'[x] = paid[x]
      BY <1>3, <1>4, <1>5, <1>7
    <3>3. QED BY <1>3, <1>7, <3>1, <3>2, TotalWrites
  <2>4. QED BY <1>4, <1>7, <1>8, <2>2, <2>3
<1>13. QED BY <1>9, <1>10, <1>11, <1>12 DEF Spend

LEMMA SpendWrite ==
    ASSUME Shop, Spend, NEW o \in Operations, Write(o)
    PROVE  Spend'
<1>1. HintTypeOK /\ OpsInShape /\ StoreOK /\ op \in [Operations -> OpType]
  BY TypeParts DEF Shop, TypesInv
<1>2. op[o].todo # <<>> /\ op'[o].todo = Tail(op[o].todo) BY <1>1, TodoSteps
<1>3. op'[o].open = op[o].open /\ op[o].open > 0 /\ op' = [op EXCEPT ![o] = op'[o]]
  BY <1>1, OperationSteps DEF OpStep
<1>4. \A p \in Operations : p # o => op'[p] = op[p] BY <1>1, <1>3
<1>5. op[o].todo \in Ahead BY DEF Spend
<1> DEFINE write == Head(op[o].todo)
<1>6. /\ op'[o].todo \in Ahead
      /\ write = "owned" <=> Between(o)'
      /\ write = "spent" <=> Between(o)
  BY <1>2, <1>5, AheadFacts DEF Between
<1>7. \A p \in Operations : op'[p].todo \in Ahead /\ (Between(p)' => op'[p].open > 0)
  <2> SUFFICES ASSUME NEW p \in Operations
               PROVE  op'[p].todo \in Ahead /\ (Between(p)' => op'[p].open > 0)
    OBVIOUS
  <2>1. CASE p = o BY <1>3, <1>6, <2>1
  <2>2. CASE p # o BY <1>4, <2>2 DEF Spend, Between
  <2>3. QED BY <2>1, <2>2
<1>8. \A p \in Operations : p # o => (Between(p)' <=> Between(p)) BY <1>4 DEF Between
<1>9. unread' = unread BY DEF Write
<1> HIDE DEF write
<1>10. CASE write = "owned" /\ ClearOwned
  <2>1. \A h \in Hints : paid'[h] = 0 BY <1>10 DEF ClearOwned
  <2>2. Between(o)' BY <1>6, <1>10
  <2>3. QED BY <1>7, <2>1, <2>2 DEF Spend
<1>11. CASE write = "spent" /\ ClearSpent
  <2>1. spent' = 0 /\ UNCHANGED <<owned, paid>> BY <1>11 DEF ClearSpent
  <2>2. Between(o) BY <1>6, <1>11
  <2>3. ~unread => \A h \in Hints : paid[h] = 0 BY <2>2 DEF Spend
  <2>4. ~unread => Total(paid, Hints) = 0 BY <2>3, HintAssumption, TotalZero
  <2>5. \A h \in Hints \ owned : paid[h] = 0 BY DEF Spend
  <2>6. QED BY <1>7, <1>9, <2>1, <2>3, <2>4, <2>5 DEF Spend
<1>12. CASE write \notin {"owned", "spent"} /\ UNCHANGED <<owned, spent, paid>>
  <2>1. \A p \in Operations : Between(p)' <=> Between(p) BY <1>6, <1>8, <1>12
  <2>2. QED BY <1>7, <1>9, <1>12, <2>1 DEF Spend
<1>13. \/ write = "owned" /\ ClearOwned
       \/ write = "spent" /\ ClearSpent
       \/ write \notin {"owned", "spent"} /\ UNCHANGED <<owned, spent, paid>>
  BY DEF Write, write, Sources, ClearPoints, WriteSettings
<1>14. QED BY <1>10, <1>11, <1>12, <1>13

LEMMA SpendStep ==
    ASSUME MaxFaults = 0, Shop, Spend, [Next]_hintVars
    PROVE  Spend'
<1>1. HintTypeOK /\ OpsInShape /\ StoreOK /\ op \in [Operations -> OpType]
  BY TypeParts DEF Shop, TypesInv
<1>2. ASSUME UNCHANGED <<op, paid, owned, spent, unread>> PROVE Spend'
  BY <1>2 DEF Spend, Between
<1>3. CASE \E r \in Requests : RequestStep(r)
  <2>1. PICK r \in Requests : RequestStep(r) BY <1>3
  <2>2. OnlyRequest BY <1>1, <2>1, RequestSteps DEF RequestStep
  <2>3. QED BY <1>2, <2>2 DEF OnlyRequest, redisVars, historyVars
<1>4. CASE \E r \in Requests : Charge(r) BY <1>4, SpendCharge
<1>5. CASE \E o \in Operations : OrganizerStep(o)
  <2>1. PICK o \in Operations : OrganizerStep(o) BY <1>5
  <2>2. op' = [op EXCEPT ![o] = op'[o]] BY <1>1, <2>1, OrganizerTypes DEF OpStep
  <2>3. \A p \in Operations : p # o => op'[p] = op[p] BY <1>1, <2>2
  <2>4. ASSUME UNCHANGED <<paid, owned, spent, unread>>, op'[o].todo \in Ahead,
               Between(o)' <=> Between(o), Between(o) => op'[o].open > 0
        PROVE  Spend'
    <3>1. \A p \in Operations : Between(p)' <=> Between(p) BY <2>3, <2>4 DEF Between
    <3>2. \A p \in Operations : op'[p].todo \in Ahead /\ (Between(p)' => op'[p].open > 0)
      <4> SUFFICES ASSUME NEW p \in Operations
                   PROVE  op'[p].todo \in Ahead /\ (Between(p)' => op'[p].open > 0)
        OBVIOUS
      <4>1. CASE p = o BY <2>4, <4>1
      <4>2. CASE p # o BY <2>3, <4>2 DEF Spend, Between
      <4>3. QED BY <4>1, <4>2
    <3>3. QED BY <2>4, <3>1, <3>2 DEF Spend
  <2>5. CASE \E kind \in Kinds : StartOperation(o, kind)
    <3>1. PICK kind \in Kinds : StartOperation(o, kind) BY <2>5
    <3>2. op'[o].todo = Writes(kind) /\ op[o].todo = <<>>
      BY <1>1, <3>1, TodoSteps, RestFacts DEF StartOperation, Idle
    <3>3. op'[o].todo \in Ahead /\ ~Between(o)' /\ ~Between(o) BY <3>2, AheadFacts DEF Between
    <3>4. UNCHANGED <<paid, owned, spent, unread>> BY <3>1 DEF StartOperation, redisVars, historyVars
    <3>5. QED BY <2>4, <3>3, <3>4
  <2>6. CASE Begin(o) \/ End(o)
    <3>1. op'[o].todo = op[o].todo BY <1>1, <2>6, TodoSteps
    <3>2. UNCHANGED <<paid, owned, spent, unread>> BY <2>6 DEF Begin, End, historyVars
    <3>3. op'[o].todo \in Ahead /\ (Between(o)' <=> Between(o)) BY <3>1 DEF Spend, Between
    <3>4. Between(o) => op'[o].open > 0
      <4>1. CASE Begin(o)
        <5>1. op'[o].open = op[o].open + 1 /\ op[o].open \in 0..2
          BY <1>1, <4>1, OperationSteps DEF OpType
        <5>2. QED BY <5>1
      <4>2. CASE End(o)
        <5>1. op[o].todo = <<>> BY <4>2 DEF End
        <5>2. QED BY <5>1, AheadFacts DEF Between
      <4>3. QED BY <2>6, <4>1, <4>2
    <3>5. QED BY <2>4, <3>2, <3>3, <3>4
  <2>7. CASE Write(o) BY <2>7, SpendWrite
  <2>8. CASE BeginFails(o) \/ WriteFails(o) \/ EndFails(o) \/ TaskDies(o)
    <3>1. faults < MaxFaults /\ faults \in Nat
      BY <1>1, <2>8 DEF BeginFails, WriteFails, EndFails, TaskDies, Fault, StoreOK
    <3>2. QED BY <3>1
  <2>9. QED BY <2>1, <2>5, <2>6, <2>7, <2>8 DEF OrganizerStep
<1>6. CASE WorldStep
  BY <1>2, <1>6 DEF WorldStep, GuardAges, GuardExpires, Award, Tick, redisVars, historyVars
<1>7. CASE UNCHANGED hintVars BY <1>2, <1>7 DEF hintVars, redisVars, historyVars
<1>8. QED BY <1>3, <1>4, <1>5, <1>6, <1>7, NextCases

LEMMA SpendIsBacked == ASSUME Spend, TypesInv PROVE SpendBacked
<1> SUFFICES ASSUME \A o \in Operations : Idle(o), ~unread
             PROVE  spent = SumFunction(paid)
  BY DEF SpendBacked
<1>1. \A o \in Operations : ~Between(o) BY RestFacts, AheadFacts DEF Idle, Between
<1>2. spent = Total(paid, Hints) BY <1>1 DEF Spend
<1>3. DOMAIN paid = Hints BY DEF TypesInv, HintTypeOK
<1>4. QED BY <1>2, <1>3, TotalIsSum

\* With no fault, the whole invariant: the types, a marker over every write,
\* and, once no operation runs, a spend that is what the hints owned cost.
THEOREM HintInvHolds ==
    ASSUME MaxFaults = 0
    PROVE  Spec => []HintInv
<1>1. Init => Shop /\ Quiet /\ Spend BY ShopInit, QuietInit, SpendInit
<1>2. Shop /\ Quiet /\ Spend /\ [Next]_hintVars => Shop' /\ Quiet' /\ Spend'
  BY ShopStep, QuietStep, SpendStep DEF Quiet, NoLateStart
<1>3. Shop /\ Spend => HintInv BY ShopMarks, SpendIsBacked DEF Shop, TypesInv, HintInv
<1>4. QED BY <1>1, <1>2, <1>3, PTL DEF Spec
=============================================================================
