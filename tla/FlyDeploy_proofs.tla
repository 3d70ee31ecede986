-------------------------- MODULE FlyDeploy_proofs --------------------------
(***************************************************************************)
(* For any shells, files, values and interrupts: a command's steps keep      *)
(* their order and what each has behind it, the deployment's own tokens      *)
(* stay, a machine that is up serves, a deploy puts there what is written, a *)
(* refresh settles what it copies, and the wizard keeps its answers.         *)
(***************************************************************************)
EXTENDS FlyDeploy, TLAPS

(***************************************************************************)
(* FlyDeploy: the shape of a command's steps, and what each has behind it.   *)
(***************************************************************************)
\* Where in a command a step stands.
Rank(n) ==
    IF n \in {"create", "set", "basics", "configure"} THEN 1
    ELSE IF n = "org" THEN 2 ELSE IF n = "fly" THEN 3 ELSE IF n = "file" THEN 4 ELSE IF n = "copy" THEN 5
    ELSE IF n \in {"draw", "region", "dir"} THEN 6 ELSE IF n = "hostname" THEN 7
    ELSE IF n = "check" THEN 8 ELSE IF n = "app" THEN 9 ELSE IF n = "volume" THEN 10
    ELSE IF n \in {"build", "mirror"} THEN 11 ELSE IF n = "pin" THEN 12 ELSE IF n = "render" THEN 13
    ELSE IF n = "secrets" THEN 14 ELSE 15
Closings == <<<<"pin", "-">>, <<"render", "-">>, <<"secrets", "-">>, <<"ship", "-">>>>

Ahead(todo, n) == \E i \in DOMAIN todo : todo[i][1] = n
Has(todo, step) == \E i \in DOMAIN todo : todo[i] = step
Orderly(todo) == \A i, j \in DOMAIN todo : i <= j => Rank(todo[i][1]) <= Rank(todo[j][1])
\* A command that deploys ends with the same four steps.
Closing(todo) ==
    (\E i \in DOMAIN todo : Rank(todo[i][1]) >= 8)
        => \A i \in DOMAIN todo : IF Len(todo) - i <= 3 THEN todo[i] = Closings[4 - (Len(todo) - i)]
                                  ELSE Rank(todo[i][1]) <= 11
WellFormed(todo) == todo \in Seq(Steps) /\ Orderly(todo) /\ Closing(todo)

\* The steps that a command may have.
Within(todo, low, high) == \A i \in DOMAIN todo : low <= Rank(todo[i][1]) /\ Rank(todo[i][1]) <= high
Fits(sh) ==
    /\ sh.cmd \in {"init", "refresh"} => Within(sh.todo, 4, 6)
    /\ sh.cmd \in {"deploy", "redeploy"} => Within(sh.todo, 8, 15)
    /\ sh.calls => sh.cmd = "wizard" /\ Within(sh.todo, 4, 15)
    /\ ~sh.calls /\ sh.cmd = "wizard" => Within(sh.todo, 1, 3)
Shaped(sh) == sh \in Shell /\ WellFormed(sh.todo) /\ Fits(sh)

\* What is behind a step: the file is there, and a deploy has looked at it.
Ready(f) == f # NoFile /\ \A k \in Needed : Live(f, k) # Blank
Behind(todo, f) ==
    /\ \A n \in {"copy", "draw", "region", "dir", "hostname"} : Ahead(todo, n) => f # NoFile \/ Ahead(todo, "file")
    /\ \A n \in {"app", "volume", "build", "mirror", "pin", "render", "secrets", "ship"} :
         Ahead(todo, n) => Ready(f) \/ Ahead(todo, "check")
\* A wizard that asks has a file to write the answers into.
HasSource(sh, f) == sh.cmd = "wizard" /\ ~sh.calls => f # NoFile \/ sh.todo = WizardSteps
\* A deploy that has looked at the file knows a region to place its volume in.
Placed(sh) == Ahead(sh.todo, "volume") => Ahead(sh.todo, "check") \/ sh.read["region"] \in Regions \union {DefaultRegion}
FlyShape == FlyTypeOK /\ \A s \in Shells : Runs(s) => /\ Shaped(shell[s]) /\ Behind(shell[s].todo, file)
                                                   /\ HasSource(shell[s], source) /\ Placed(shell[s])

-----------------------------------------------------------------------------
(* The steps that are left once the first is done. *)

LEMMA RanksAre == \A n : Rank(n) \in 1..15
BY DEF Rank

Named(step) ==
    /\ step[1] \in PlainSteps => step[2] = "-"
    /\ step[1] \in PlainSteps \union {"draw", "copy", "build", "set", "configure"}
    /\ step[1] = "draw" => step[2] \in Tokens
    /\ step[1] = "copy" => step[2] \in ToSet(Copied)
    /\ step[1] = "build" => step[2] \in {"app", "sync"}
    /\ step[1] = "set" => step[2] \in Asked
    /\ step[1] = "configure" => step[2] \in {"app", "oauth"}

LEMMA CopiedAre == ToSet(Copied) = {"oauth", "app", "inst", "score", "org", "admins"}
BY DEF Copied, ToSet

LEMMA StepsAreNamed == \A step \in Steps : Named(step)
<1>1. TAKE step \in Steps
<1>2. CASE step \in {<<a, "-">> : a \in PlainSteps} BY <1>2 DEF PlainSteps, Named
<1>3. ASSUME NEW n \in {"draw", "copy", "build", "set", "configure"}, NEW b, step = <<n, b>>,
             n = "draw" => b \in Tokens, n = "copy" => b \in ToSet(Copied), n = "build" => b \in {"app", "sync"},
             n = "set" => b \in Asked, n = "configure" => b \in {"app", "oauth"}
      PROVE  Named(step) BY <1>3 DEF PlainSteps, Named
<1>4. CASE step \in {<<"draw", b>> : b \in Tokens} BY <1>3, <1>4
<1>5. CASE step \in {<<"copy", b>> : b \in ToSet(Copied)} BY <1>3, <1>5
<1>6. CASE step \in {<<"build", b>> : b \in {"app", "sync"}} BY <1>3, <1>6
<1>7. CASE step \in {<<"set", b>> : b \in Asked} BY <1>3, <1>7
<1>8. CASE step \in {<<"configure", b>> : b \in {"app", "oauth"}} BY <1>3, <1>8
<1>9. QED BY <1>1, <1>2, <1>4, <1>5, <1>6, <1>7, <1>8 DEF Steps

LEMMA TailIs ==
    ASSUME NEW todo \in Seq(Steps), todo # <<>>
    PROVE  /\ Tail(todo) \in Seq(Steps) /\ Len(todo) >= 1 /\ Len(Tail(todo)) = Len(todo) - 1
           /\ DOMAIN Tail(todo) = 1..(Len(todo) - 1) /\ DOMAIN todo = 1..Len(todo)
           /\ \A i \in 1..(Len(todo) - 1) : Tail(todo)[i] = todo[i + 1]
           /\ Head(todo) = todo[1] /\ todo[1] \in Steps
OBVIOUS

LEMMA TailWellFormed ==
    ASSUME NEW todo, WellFormed(todo), todo # <<>>
    PROVE  WellFormed(Tail(todo))
<1> DEFINE rest == Tail(todo)
           N == Len(todo)
<1>1. todo \in Seq(Steps) BY DEF WellFormed
<1>2. /\ rest \in Seq(Steps) /\ N >= 1 /\ N \in Nat /\ Len(rest) = N - 1
      /\ DOMAIN rest = 1..(N - 1) /\ DOMAIN todo = 1..N
      /\ \A i \in 1..(N - 1) : rest[i] = todo[i + 1]
  BY <1>1, TailIs
<1> HIDE DEF rest, N
<1>3. Orderly(rest)
  <2>1. SUFFICES ASSUME NEW i \in 1..(N - 1), NEW j \in 1..(N - 1), i <= j
                 PROVE  Rank(rest[i][1]) <= Rank(rest[j][1])
    BY <1>2 DEF Orderly
  <2>2. i + 1 \in 1..N /\ j + 1 \in 1..N /\ i + 1 <= j + 1 BY <1>2, <2>1
  <2>3. Orderly(todo) BY DEF WellFormed
  <2>4. QED BY <1>2, <2>2, <2>3 DEF Orderly
<1>4. Closing(rest)
  <2>1. SUFFICES ASSUME NEW k \in DOMAIN rest, Rank(rest[k][1]) >= 8, NEW i \in DOMAIN rest
                 PROVE  IF Len(rest) - i <= 3 THEN rest[i] = Closings[4 - (Len(rest) - i)] ELSE Rank(rest[i][1]) <= 11
    BY DEF Closing
  <2> DEFINE d == Len(rest) - i
  <2>2. k + 1 \in 1..N /\ i + 1 \in 1..N /\ N - (i + 1) = d BY <1>2, <2>1, SMTT(40)
  <2>3. Rank(todo[k + 1][1]) >= 8 BY <1>2, <2>1
  <2>4. Closing(todo) BY DEF WellFormed
  <2>5. IF N - (i + 1) <= 3 THEN todo[i + 1] = Closings[4 - (N - (i + 1))] ELSE Rank(todo[i + 1][1]) <= 11
    BY <1>2, <2>2, <2>3, <2>4 DEF Closing, N
  <2>6. IF d <= 3 THEN todo[i + 1] = Closings[4 - d] ELSE Rank(todo[i + 1][1]) <= 11 BY <2>2, <2>5
  <2>7. rest[i] = todo[i + 1] BY <1>2, <2>1
  <2>8. QED BY <2>6, <2>7
<1>5. QED BY <1>2, <1>3, <1>4 DEF WellFormed, rest

LEMMA TailAhead ==
    ASSUME NEW todo \in Seq(Steps), todo # <<>>
    PROVE  /\ \A n : Ahead(todo, n) <=> todo[1][1] = n \/ Ahead(Tail(todo), n)
           /\ \A step : Has(todo, step) <=> todo[1] = step \/ Has(Tail(todo), step)
           /\ \A low, high \in Nat : Within(todo, low, high) => Within(Tail(todo), low, high)
<1> DEFINE rest == Tail(todo)
           N == Len(todo)
<1>1. /\ N >= 1 /\ N \in Nat
      /\ DOMAIN rest = 1..(N - 1) /\ DOMAIN todo = 1..N
      /\ \A i \in 1..(N - 1) : rest[i] = todo[i + 1]
  BY TailIs
<1> HIDE DEF rest, N
<1>2. \A i \in 1..N : i = 1 \/ (i - 1 \in 1..(N - 1) /\ rest[i - 1] = todo[i]) BY <1>1
<1>3. \A i \in 1..(N - 1) : i + 1 \in 1..N /\ rest[i] = todo[i + 1] BY <1>1
<1>4. 1 \in 1..N BY <1>1
<1>5. ASSUME NEW n PROVE Ahead(todo, n) <=> todo[1][1] = n \/ Ahead(rest, n)
  <2>1. Ahead(todo, n) => todo[1][1] = n \/ Ahead(rest, n) BY <1>1, <1>2 DEF Ahead
  <2>2. Ahead(rest, n) => Ahead(todo, n) BY <1>1, <1>3 DEF Ahead
  <2>3. todo[1][1] = n => Ahead(todo, n) BY <1>1, <1>4 DEF Ahead
  <2>4. QED BY <2>1, <2>2, <2>3
<1>6. ASSUME NEW step PROVE Has(todo, step) <=> todo[1] = step \/ Has(rest, step)
  <2>1. Has(todo, step) => todo[1] = step \/ Has(rest, step) BY <1>1, <1>2 DEF Has
  <2>2. Has(rest, step) => Has(todo, step) BY <1>1, <1>3 DEF Has
  <2>3. todo[1] = step => Has(todo, step) BY <1>1, <1>4 DEF Has
  <2>4. QED BY <2>1, <2>2, <2>3
<1>7. \A low, high \in Nat : Within(todo, low, high) => Within(rest, low, high) BY <1>1, <1>3 DEF Within
<1>8. QED BY <1>5, <1>6, <1>7 DEF rest

\* What is at the head comes before what is ahead.
LEMMA HeadComesFirst ==
    ASSUME NEW todo, WellFormed(todo), todo # <<>>
    PROVE  /\ \A n : Ahead(todo, n) => Rank(Head(todo)[1]) <= Rank(n)
           /\ Head(todo) = todo[1] /\ Head(todo) \in Steps
           /\ \A n : ~Ahead(<<>>, n)
BY TailIs DEF WellFormed, Orderly, Ahead

-----------------------------------------------------------------------------
(* The steps that a command starts with. *)

LEMMA JoinIs ==
    ASSUME NEW a \in Seq(Steps), NEW b \in Seq(Steps)
    PROVE  /\ a \o b \in Seq(Steps) /\ Len(a \o b) = Len(a) + Len(b)
           /\ DOMAIN a = 1..Len(a) /\ DOMAIN b = 1..Len(b) /\ DOMAIN (a \o b) = 1..(Len(a) + Len(b))
           /\ Len(a) \in Nat /\ Len(b) \in Nat
           /\ \A i \in 1..Len(a) : (a \o b)[i] = a[i]
           /\ \A i \in 1..Len(b) : (a \o b)[Len(a) + i] = b[i]
OBVIOUS

LEMMA JoinSteps ==
    ASSUME NEW a \in Seq(Steps), NEW b \in Seq(Steps), NEW l \in Nat, NEW m \in Nat, NEW h \in Nat, l <= m, m <= h,
           Within(a, l, m), Within(b, m, h), Orderly(a), Orderly(b)
    PROVE  /\ a \o b \in Seq(Steps) /\ Orderly(a \o b) /\ Within(a \o b, l, h)
           /\ \A n : Ahead(a \o b, n) <=> Ahead(a, n) \/ Ahead(b, n)
           /\ \A step : Has(a \o b, step) <=> Has(a, step) \/ Has(b, step)
<1> DEFINE t == a \o b
           M == Len(a)
           N == Len(b)
<1>1. /\ t \in Seq(Steps) /\ DOMAIN a = 1..M /\ DOMAIN b = 1..N /\ DOMAIN t = 1..(M + N) /\ M \in Nat /\ N \in Nat
      /\ \A i \in 1..M : t[i] = a[i]
      /\ \A i \in 1..N : t[M + i] = b[i]
  BY JoinIs
<1> HIDE DEF t, M, N
<1>2. \A i \in 1..(M + N) : \/ i \in 1..M /\ t[i] = a[i]
                            \/ i > M /\ (i - M) \in 1..N /\ t[i] = b[i - M]
  <2>1. TAKE i \in 1..(M + N)
  <2>2. CASE i \in 1..M BY <1>1, <2>2
  <2>3. CASE i \notin 1..M BY <1>1, <2>1, <2>3
  <2>4. QED BY <2>2, <2>3
<1>3. \A n : Rank(n) \in Nat BY RanksAre, SMTT(40)
<1>4. Within(t, l, h)
  <2>1. SUFFICES ASSUME NEW i \in 1..(M + N) PROVE l <= Rank(t[i][1]) /\ Rank(t[i][1]) <= h BY <1>1 DEF Within
  <2>2. CASE i \in 1..M /\ t[i] = a[i] BY <1>1, <1>3, <2>2 DEF Within
  <2>3. CASE (i - M) \in 1..N /\ t[i] = b[i - M]
    <3>1. m <= Rank(b[i - M][1]) /\ Rank(b[i - M][1]) <= h BY <1>1, <2>3 DEF Within
    <3>2. Rank(b[i - M][1]) \in Nat BY <1>3
    <3>3. QED BY <2>3, <3>1, <3>2
  <2>4. QED BY <1>2, <2>2, <2>3
<1>5. Orderly(t)
  <2>1. SUFFICES ASSUME NEW i \in 1..(M + N), NEW j \in 1..(M + N), i <= j
                 PROVE  Rank(t[i][1]) <= Rank(t[j][1])
    BY <1>1 DEF Orderly
  <2>2. CASE i \in 1..M /\ j \in 1..M BY <1>1, <2>1, <2>2 DEF Orderly
  <2>3. CASE i \in 1..M /\ (j - M) \in 1..N /\ t[j] = b[j - M]
    <3>1. Rank(a[i][1]) <= m /\ m <= Rank(b[j - M][1]) BY <1>1, <2>3 DEF Within
    <3>2. QED BY <1>1, <1>3, <2>3, <3>1
  <2>4. CASE (i - M) \in 1..N /\ t[i] = b[i - M] /\ (j - M) \in 1..N /\ t[j] = b[j - M]
    <3>1. i - M <= j - M BY <1>1, <2>1
    <3>2. QED BY <1>1, <2>4, <3>1, ZenonT(60) DEF Orderly
  <2>5. QED BY <1>1, <1>2, <2>1, <2>2, <2>3, <2>4
<1>6. ASSUME NEW n PROVE Ahead(t, n) <=> Ahead(a, n) \/ Ahead(b, n)
  <2>1. ASSUME NEW i \in 1..(M + N), t[i][1] = n PROVE Ahead(a, n) \/ Ahead(b, n) BY <1>1, <2>1, <1>2 DEF Ahead
  <2>2. Ahead(a, n) => Ahead(t, n) BY <1>1, SMTT(30) DEF Ahead
  <2>3. Ahead(b, n) => Ahead(t, n) BY <1>1 DEF Ahead
  <2>4. QED BY <1>1, <2>1, <2>2, <2>3 DEF Ahead
<1>7. ASSUME NEW step PROVE Has(t, step) <=> Has(a, step) \/ Has(b, step)
  <2>1. Has(t, step) => Has(a, step) \/ Has(b, step) BY <1>1, <1>2 DEF Has
  <2>2. Has(a, step) => Has(t, step) BY <1>1 DEF Has
  <2>3. Has(b, step) => Has(t, step)
    <3>1. \A i \in 1..N : M + i \in 1..(M + N) BY <1>1
    <3>2. QED BY <1>1, <3>1 DEF Has
  <2>4. QED BY <2>1, <2>2, <2>3
<1>8. QED BY <1>1, <1>4, <1>5, <1>6, <1>7 DEF t

LEMMA JoinCloses ==
    ASSUME NEW a \in Seq(Steps), NEW b \in Seq(Steps), Within(a, 1, 11), Closing(b), Ahead(b, "ship"), Len(b) >= 4
    PROVE  Closing(a \o b)
<1> DEFINE t == a \o b
           M == Len(a)
           N == Len(b)
<1>1. /\ DOMAIN a = 1..M /\ DOMAIN b = 1..N /\ DOMAIN t = 1..(M + N) /\ M \in Nat /\ N \in Nat /\ N >= 4
      /\ \A i \in 1..M : t[i] = a[i]
      /\ \A i \in 1..N : t[M + i] = b[i]
      /\ Len(t) = M + N
  BY JoinIs
<1>2. \A i \in 1..N : IF N - i <= 3 THEN b[i] = Closings[4 - (N - i)] ELSE Rank(b[i][1]) <= 11
  <2>1. Rank("ship") = 15 BY DEF Rank
  <2>2. \E i \in DOMAIN b : Rank(b[i][1]) >= 8 BY <2>1 DEF Ahead
  <2>3. QED BY <1>1, <2>2 DEF Closing
<1> HIDE DEF t, M, N
<1>3. SUFFICES ASSUME NEW i \in DOMAIN t
               PROVE  IF Len(t) - i <= 3 THEN t[i] = Closings[4 - (Len(t) - i)] ELSE Rank(t[i][1]) <= 11
  BY DEF Closing, t
<1>4. CASE i \in 1..M BY <1>1, <1>4 DEF Within
<1>5. CASE i \notin 1..M
  <2> DEFINE j == i - M
             d == Len(t) - i
  <2>1. j \in 1..N /\ M + j = i /\ N - j = d BY <1>1, <1>3, <1>5
  <2>2. t[M + j] = b[j] BY <1>1, <2>1
  <2>3. IF N - j <= 3 THEN b[j] = Closings[4 - (N - j)] ELSE Rank(b[j][1]) <= 11 BY <1>2, <2>1
  <2>4. IF d <= 3 THEN b[j] = Closings[4 - d] ELSE Rank(b[j][1]) <= 11 BY <2>1, <2>3
  <2>5. t[i] = b[j] BY <2>1, <2>2
  <2>6. QED BY <2>4, <2>5
<1>6. QED BY <1>4, <1>5

Script(t, l, h) == t \in Seq(Steps) /\ Orderly(t) /\ Within(t, l, h)

LEMMA NothingIsAScript == \A l, h \in Nat : Script(<<>>, l, h)
BY DEF Script, Orderly, Within

LEMMA ScriptParts ==
    /\ Script(InitSteps, 4, 4) /\ Ahead(InitSteps, "file")
    /\ Script(TopUps, 6, 6)
    /\ Script(Refreshes, 5, 5) /\ \A k \in ToSet(Copied) : Has(Refreshes, <<"copy", k>>)
    /\ Script(Builds, 11, 11) /\ Has(Builds, <<"build", "app">>) /\ Has(Builds, <<"build", "sync">>) /\ Ahead(Builds, "mirror")
    /\ Script(<<<<"hostname", "-">>>>, 7, 7)
<1>1. /\ <<"file", "-">> \in Steps /\ <<"region", "-">> \in Steps /\ <<"dir", "-">> \in Steps
      /\ <<"mirror", "-">> \in Steps /\ <<"hostname", "-">> \in Steps
      /\ \A b \in Tokens : <<"draw", b>> \in Steps
      /\ \A b \in ToSet(Copied) : <<"copy", b>> \in Steps
      /\ \A b \in {"app", "sync"} : <<"build", b>> \in Steps
  BY DEF Steps, PlainSteps
<1>2. ASSUME NEW t \in Seq(Steps), NEW m \in Nat, Within(t, m, m) PROVE Script(t, m, m)
  <2>1. \A i \in DOMAIN t : Rank(t[i][1]) = m BY <1>2, RanksAre, SMTT(40) DEF Within
  <2>2. QED BY <1>2, <2>1 DEF Script, Orderly
<1>3. Script(InitSteps, 4, 4) /\ Ahead(InitSteps, "file")
  <2>1. InitSteps \in Seq(Steps) /\ DOMAIN InitSteps = 1..1 /\ InitSteps[1] = <<"file", "-">> BY <1>1 DEF InitSteps
  <2>2. Rank("file") = 4 BY DEF Rank
  <2>3. Within(InitSteps, 4, 4) BY <2>1, <2>2 DEF Within
  <2>4. QED BY <1>2, <2>1, <2>3 DEF Ahead
<1>4. Script(TopUps, 6, 6)
  <2>1. /\ TopUps \in Seq(Steps) /\ DOMAIN TopUps = 1..4
        /\ TopUps[1] = <<"draw", "token">> /\ TopUps[2] = <<"region", "-">>
        /\ TopUps[3] = <<"draw", "password">> /\ TopUps[4] = <<"dir", "-">>
    BY <1>1 DEF TopUps, Tokens
  <2>2. Rank("draw") = 6 /\ Rank("region") = 6 /\ Rank("dir") = 6 BY DEF Rank
  <2>3. Within(TopUps, 6, 6) BY <2>1, <2>2 DEF Within
  <2>4. QED BY <1>2, <2>1, <2>3
<1>5. Script(Refreshes, 5, 5) /\ \A k \in ToSet(Copied) : Has(Refreshes, <<"copy", k>>)
  <2>1. DOMAIN Copied = 1..6 BY DEF Copied
  <2>2. ToSet(Copied) = {Copied[i] : i \in 1..6} BY <2>1 DEF ToSet
  <2>3. Refreshes = [i \in 1..6 |-> <<"copy", Copied[i]>>] BY <2>1 DEF Refreshes
  <2>4. \A i \in 1..6 : <<"copy", Copied[i]>> \in Steps BY <1>1, <2>2
  <2>5. Refreshes \in Seq(Steps) /\ DOMAIN Refreshes = 1..6 BY <2>3, <2>4
  <2>6. Rank("copy") = 5 BY DEF Rank
  <2>7. \A i \in 1..6 : Refreshes[i] = <<"copy", Copied[i]>> /\ Refreshes[i][1] = "copy" BY <2>3
  <2>8. Within(Refreshes, 5, 5) BY <2>5, <2>6, <2>7 DEF Within
  <2>9. \A k \in ToSet(Copied) : Has(Refreshes, <<"copy", k>>) BY <2>2, <2>5, <2>7 DEF Has
  <2>10. QED BY <1>2, <2>5, <2>8, <2>9
<1>6. Script(Builds, 11, 11) /\ Has(Builds, <<"build", "app">>) /\ Has(Builds, <<"build", "sync">>) /\ Ahead(Builds, "mirror")
  <2>1. /\ Builds \in Seq(Steps) /\ DOMAIN Builds = 1..3
        /\ Builds[1] = <<"build", "app">> /\ Builds[2] = <<"build", "sync">> /\ Builds[3] = <<"mirror", "-">>
    BY <1>1 DEF Builds
  <2>2. Rank("build") = 11 /\ Rank("mirror") = 11 BY DEF Rank
  <2>3. Within(Builds, 11, 11) BY <2>1, <2>2 DEF Within
  <2>4. 1 \in 1..3 /\ 2 \in 1..3 /\ 3 \in 1..3 OBVIOUS
  <2>5. QED BY <1>2, <2>1, <2>3, <2>4 DEF Has, Ahead
<1>7. Script(<<<<"hostname", "-">>>>, 7, 7)
  <2> DEFINE t == <<<<"hostname", "-">>>>
  <2>1. t \in Seq(Steps) /\ DOMAIN t = 1..1 /\ t[1] = <<"hostname", "-">> BY <1>1
  <2>2. Rank("hostname") = 7 BY DEF Rank
  <2>3. Within(t, 7, 7) BY <2>1, <2>2 DEF Within
  <2>4. QED BY <1>2, <2>1, <2>3
<1>8. QED BY <1>3, <1>4, <1>5, <1>6, <1>7

LEMMA DeployParts ==
    /\ Script(<<<<"check", "-">>, <<"app", "-">>, <<"volume", "-">>>>, 8, 10)
    /\ Ahead(<<<<"check", "-">>, <<"app", "-">>, <<"volume", "-">>>>, "check")
    /\ Script(Closings, 12, 15) /\ Closing(Closings) /\ Len(Closings) = 4
    /\ \A n \in {"pin", "render", "secrets", "ship"} : Ahead(Closings, n)
<1> DEFINE t == <<<<"check", "-">>, <<"app", "-">>, <<"volume", "-">>>>
<1>1. /\ <<"check", "-">> \in Steps /\ <<"app", "-">> \in Steps /\ <<"volume", "-">> \in Steps
      /\ <<"pin", "-">> \in Steps /\ <<"render", "-">> \in Steps /\ <<"secrets", "-">> \in Steps /\ <<"ship", "-">> \in Steps
  BY DEF Steps, PlainSteps
<1>2. /\ t \in Seq(Steps) /\ DOMAIN t = 1..3
      /\ t[1] = <<"check", "-">> /\ t[2] = <<"app", "-">> /\ t[3] = <<"volume", "-">>
  BY <1>1
<1>3. Rank("check") = 8 /\ Rank("app") = 9 /\ Rank("volume") = 10 BY DEF Rank
<1> HIDE DEF t
<1>4. Rank(t[1][1]) = 8 /\ Rank(t[2][1]) = 9 /\ Rank(t[3][1]) = 10 BY <1>2, <1>3
<1>5. Orderly(t) /\ Within(t, 8, 10) BY <1>2, <1>4 DEF Orderly, Within
<1>6. Ahead(t, "check") BY <1>2 DEF Ahead
<1>7. /\ Closings \in Seq(Steps) /\ DOMAIN Closings = 1..4 /\ Len(Closings) = 4
      /\ Closings[1] = <<"pin", "-">> /\ Closings[2] = <<"render", "-">>
      /\ Closings[3] = <<"secrets", "-">> /\ Closings[4] = <<"ship", "-">>
  BY <1>1 DEF Closings
<1>8. Rank("pin") = 12 /\ Rank("render") = 13 /\ Rank("secrets") = 14 /\ Rank("ship") = 15 BY DEF Rank
<1>9. \A i \in DOMAIN Closings : Rank(Closings[i][1]) = i + 11 BY <1>7, <1>8
<1>10. Orderly(Closings) /\ Within(Closings, 12, 15) BY <1>7, <1>9 DEF Orderly, Within
<1>11. Closing(Closings) BY <1>7 DEF Closing
<1>12. \A n \in {"pin", "render", "secrets", "ship"} : Ahead(Closings, n) BY <1>7 DEF Ahead
<1>13. QED BY <1>2, <1>5, <1>6, <1>7, <1>10, <1>11, <1>12 DEF Script, t

LEMMA LowScriptsClose ==
    ASSUME NEW t, Script(t, 1, 7)
    PROVE  WellFormed(t)
<1>1. \A i \in DOMAIN t : ~(Rank(t[i][1]) >= 8) BY RanksAre DEF Script, Within
<1>2. QED BY <1>1 DEF Script, WellFormed, Closing

LEMMA ScriptsWiden ==
    ASSUME NEW t, NEW l \in Nat, NEW h \in Nat, NEW l2 \in Nat, NEW h2 \in Nat, l2 <= l, h <= h2, Script(t, l, h)
    PROVE  Script(t, l2, h2)
BY RanksAre, SMTT(40) DEF Script, Within

\* Two scripts, one after the other.
LEMMA ScriptsJoin ==
    ASSUME NEW a, NEW b, NEW l \in Nat, NEW m \in Nat, NEW h \in Nat, l <= m, m <= h, Script(a, l, m), Script(b, m, h)
    PROVE  /\ Script(a \o b, l, h)
           /\ \A n : Ahead(a \o b, n) <=> Ahead(a, n) \/ Ahead(b, n)
           /\ \A step : Has(a \o b, step) <=> Has(a, step) \/ Has(b, step)
BY JoinSteps DEF Script

LEMMA InitScript ==
    /\ Script(InitSteps \o TopUps, 4, 6) /\ Ahead(InitSteps \o TopUps, "file")
BY ScriptParts, ScriptsWiden, ScriptsJoin

LEMMA RefreshScript ==
    /\ Script(InitSteps \o Refreshes \o TopUps, 4, 6) /\ Ahead(InitSteps \o Refreshes \o TopUps, "file")
    /\ \A k \in ToSet(Copied) : Has(InitSteps \o Refreshes \o TopUps, <<"copy", k>>)
BY ScriptParts, ScriptsWiden, ScriptsJoin

LEMMA DeployScript ==
    ASSUME NEW builds \in {Builds, <<>>}
    PROVE  /\ Script(DeploySteps(builds), 8, 15) /\ Closing(DeploySteps(builds))
           /\ Ahead(DeploySteps(builds), "ship") /\ Len(DeploySteps(builds)) >= 4
           /\ \A n \in {"check", "pin", "render", "secrets", "ship"} : Ahead(DeploySteps(builds), n)
           /\ builds = Builds => /\ Has(DeploySteps(builds), <<"build", "app">>) /\ Has(DeploySteps(builds), <<"build", "sync">>)
                                 /\ Ahead(DeploySteps(builds), "mirror")
<1> DEFINE head == <<<<"check", "-">>, <<"app", "-">>, <<"volume", "-">>>>
           most == head \o builds
           t == most \o Closings
<1>1. t = DeploySteps(builds) BY DEF DeploySteps, Closings
<1>2. Script(head, 8, 11) /\ Ahead(head, "check") BY DeployParts, ScriptsWiden
<1>3. Script(builds, 11, 11) BY ScriptParts, NothingIsAScript
<1>4. Script(Closings, 11, 15) BY DeployParts, ScriptsWiden
<1> HIDE DEF head
<1>5. /\ Script(most, 8, 11) /\ Ahead(most, "check")
      /\ builds = Builds => Has(most, <<"build", "app">>) /\ Has(most, <<"build", "sync">>) /\ Ahead(most, "mirror")
  BY <1>2, <1>3, ScriptParts, ScriptsJoin
<1> HIDE DEF most
<1>6. /\ Script(t, 8, 15) /\ \A n \in {"check", "pin", "render", "secrets", "ship"} : Ahead(t, n)
      /\ builds = Builds => Has(t, <<"build", "app">>) /\ Has(t, <<"build", "sync">>) /\ Ahead(t, "mirror")
  BY <1>4, <1>5, DeployParts, ScriptsJoin
<1>7. Closing(t) /\ Len(t) >= 4
  <2>1. Script(most, 1, 11) BY <1>5, ScriptsWiden
  <2>3. most \in Seq(Steps) /\ Closings \in Seq(Steps) /\ Within(most, 1, 11) BY <1>4, <1>5, <2>1 DEF Script
  <2>6. Closing(Closings) /\ Ahead(Closings, "ship") /\ Len(Closings) >= 4 BY DeployParts
  <2>2. Closing(t) BY <2>3, <2>6, JoinCloses
  <2>4. Len(t) = Len(most) + Len(Closings) /\ Len(most) \in Nat BY <2>3
  <2>5. QED BY <2>2, <2>4, DeployParts
<1>8. QED BY <1>1, <1>6, <1>7

LEMMA FlyScripts ==
    /\ Script(InitSteps \o TopUps \o <<<<"hostname", "-">>>>, 4, 7)
    /\ Ahead(InitSteps \o TopUps \o <<<<"hostname", "-">>>>, "file")
    /\ Script(InitSteps \o TopUps \o <<<<"hostname", "-">>>> \o DeploySteps(Builds), 4, 15)
    /\ Closing(InitSteps \o TopUps \o <<<<"hostname", "-">>>> \o DeploySteps(Builds))
    /\ Ahead(InitSteps \o TopUps \o <<<<"hostname", "-">>>> \o DeploySteps(Builds), "file")
    /\ Ahead(InitSteps \o TopUps \o <<<<"hostname", "-">>>> \o DeploySteps(Builds), "check")
<1> DEFINE host == <<<<"hostname", "-">>>>
           first == InitSteps \o TopUps
           most == first \o host
           rest == DeploySteps(Builds)
<1>1. Script(first, 4, 6) /\ Ahead(first, "file") BY InitScript
<1>2. Script(host, 6, 7) BY ScriptParts, ScriptsWiden
<1> HIDE DEF first, host
<1>3. Script(most, 4, 7) /\ Ahead(most, "file") BY <1>1, <1>2, ScriptsJoin
<1>4. Script(rest, 7, 15) /\ Closing(rest) /\ Len(rest) >= 4 /\ Ahead(rest, "ship") /\ Ahead(rest, "check")
  BY DeployScript, ScriptsWiden
<1> HIDE DEF most, rest
<1>5. Script(most \o rest, 4, 15) /\ Ahead(most \o rest, "file") /\ Ahead(most \o rest, "check")
  BY <1>3, <1>4, ScriptsJoin
<1>6. Script(most, 1, 11) BY <1>3, ScriptsWiden
<1>7. Closing(most \o rest) BY <1>4, <1>6, JoinCloses DEF Script
<1>8. QED BY <1>3, <1>5, <1>7 DEF most, rest, first, host

-----------------------------------------------------------------------------
(* Env files. *)

LEMMA KeysAre ==
    /\ \A k \in Answered \union Asked \union Tokens \union Kept \union Needed \union ToSet(Copied) \union {"url", "dir", "region"} : k \in Keys
    /\ "region" \notin ToSet(Copied) \union {"url", "dir"} \union Tokens
    /\ \A k \in ToSet(Copied) \union {"url", "dir"} : k \notin Kept
    /\ \A k \in Kept \ Tokens : k \in {"auth", "region"}
    /\ \A k \in Tokens : k \in Kept /\ k \in Needed /\ k \notin ToSet(Copied)
BY CopiedAre DEF Keys, Kept, Tokens, Needed, Answered, Asked

LEMMA EnvIsAFile ==
    ASSUME NEW f \in Env
    PROVE  f # NoFile /\ DOMAIN f = Keys /\ \A k \in Keys : f[k] \in Seq(Texts) /\ Len(f[k]) \in Nat
BY KeysAre DEF Env, NoFile

LEMMA LiveIs ==
    ASSUME NEW f \in Env, NEW k \in Keys
    PROVE  /\ f[k] = <<>> => Live(f, k) = Blank
           /\ f[k] # <<>> => Len(f[k]) >= 1 /\ Live(f, k) = f[k][Len(f[k])]
           /\ Live(f, k) \in Texts
<1>1. f # NoFile /\ f[k] \in Seq(Texts) BY EnvIsAFile
<1>2. Blank \in Texts BY DEF Texts
<1>3. f[k] # <<>> => Len(f[k]) >= 1 /\ Len(f[k]) \in DOMAIN f[k] /\ f[k][Len(f[k])] \in Texts BY <1>1
<1>4. QED BY <1>1, <1>2, <1>3 DEF Live, Last

\* One key is given a value.
LEMMA WithIs ==
    ASSUME NEW f \in Env, NEW k \in Keys, NEW v \in Texts
    PROVE  /\ With(f, k, v) \in Env /\ Live(With(f, k, v), k) = v /\ Len(With(f, k, v)[k]) = 1
           /\ With(f, k, v)[k] # <<>>
           /\ \A j \in Keys : j # k => With(f, k, v)[j] = f[j] /\ Live(With(f, k, v), j) = Live(f, j)
           /\ k # "region" /\ Sound(f) => Sound(With(f, k, v))
<1> DEFINE g == With(f, k, v)
<1>1. <<v>> \in Seq(Texts) /\ Len(<<v>>) = 1 /\ <<v>> # <<>> /\ <<v>>[1] = v OBVIOUS
<1>2. g \in Env /\ g[k] = <<v>> /\ \A j \in Keys : j # k => g[j] = f[j] BY <1>1 DEF Env, With
<1>3. f # NoFile /\ g # NoFile BY <1>2, EnvIsAFile
<1> HIDE DEF g
<1>4. Live(g, k) = v BY <1>1, <1>2, LiveIs
<1>5. \A j \in Keys : j # k => Live(g, j) = Live(f, j) BY <1>2, <1>3 DEF Live
<1>6. k # "region" /\ Sound(f) => Sound(g) BY <1>2, KeysAre DEF Sound
<1>7. QED BY <1>1, <1>2, <1>4, <1>5, <1>6 DEF g

LEMMA AddedIs ==
    ASSUME NEW f \in Env, NEW k \in Keys, NEW v \in Texts
    PROVE  /\ Added(f, k, v) \in Env /\ Live(Added(f, k, v), k) = v
           /\ \A j \in Keys : j # k => Added(f, k, v)[j] = f[j] /\ Live(Added(f, k, v), j) = Live(f, j)
           /\ Sound(f) /\ (k = "region" => v \in Regions) => Sound(Added(f, k, v))
<1> DEFINE g == Added(f, k, v)
           new == Append(f[k], v)
<1>1. f[k] \in Seq(Texts) BY EnvIsAFile
<1>2. new \in Seq(Texts) /\ Len(new) = Len(f[k]) + 1 /\ new[Len(new)] = v /\ new # <<>> BY <1>1
<1>3. g \in Env /\ g[k] = new /\ \A j \in Keys : j # k => g[j] = f[j] BY <1>2 DEF Env, Added
<1>4. f # NoFile /\ g # NoFile BY <1>3, EnvIsAFile
<1>5. Sound(f) /\ (k = "region" => v \in Regions) => Sound(g)
  <2>1. CASE k # "region" BY <1>3, <2>1, KeysAre DEF Sound
  <2>2. ASSUME k = "region", v \in Regions, Sound(f) PROVE \A r \in ToSet(g["region"]) : r \in Regions \union {Blank}
    BY <1>1, <1>3, <2>2 DEF ToSet, Sound
  <2>3. QED BY <1>3, <2>1, <2>2 DEF Sound
<1> HIDE DEF g, new
<1>6. Live(g, k) = v BY <1>2, <1>3, LiveIs
<1>7. \A j \in Keys : j # k => Live(g, j) = Live(f, j) BY <1>3, <1>4 DEF Live
<1>8. QED BY <1>3, <1>5, <1>6, <1>7 DEF g

\* The first assignment of a key is edited.
LEMMA FirstEditedIs ==
    ASSUME NEW f \in Env, NEW k \in Keys, NEW v \in Texts, f[k] # <<>>
    PROVE  LET g == [f EXCEPT ![k][1] = v] IN
           /\ g \in Env /\ Live(g, k) \in {v, Live(f, k)}
           /\ \A j \in Keys : j # k => g[j] = f[j] /\ Live(g, j) = Live(f, j)
           /\ k # "region" /\ Sound(f) => Sound(g)
<1> DEFINE g == [f EXCEPT ![k][1] = v]
           new == [f[k] EXCEPT ![1] = v]
<1>1. f[k] \in Seq(Texts) BY EnvIsAFile
<1>2. new \in Seq(Texts) /\ Len(new) = Len(f[k]) /\ new # <<>> /\ new[Len(new)] \in {v, f[k][Len(f[k])]} BY <1>1
<1>3. g \in Env /\ g[k] = new /\ \A j \in Keys : j # k => g[j] = f[j] BY <1>2 DEF Env
<1>4. f # NoFile /\ g # NoFile BY <1>3, EnvIsAFile
<1> HIDE DEF g, new
<1>5. Live(g, k) \in {v, Live(f, k)} BY <1>2, <1>3, LiveIs
<1>6. \A j \in Keys : j # k => Live(g, j) = Live(f, j) BY <1>3, <1>4 DEF Live
<1>7. k # "region" /\ Sound(f) => Sound(g) BY <1>3, KeysAre DEF Sound
<1>8. QED BY <1>3, <1>5, <1>6, <1>7 DEF g

-----------------------------------------------------------------------------
(* A shell that goes on. *)

\* One step of a command is done, and nothing else of the shell has changed
\* but what it has read.
Onward(old, new) ==
    /\ Shaped(new) /\ new.cmd = old.cmd /\ new.calls = old.calls /\ new.asked = old.asked /\ new.alone = old.alone
    /\ \A n : Ahead(old.todo, n) <=> old.todo[1][1] = n \/ Ahead(new.todo, n)
    /\ \A step : Has(old.todo, step) <=> old.todo[1] = step \/ Has(new.todo, step)
    /\ \A n : Ahead(new.todo, n) => Rank(old.todo[1][1]) <= Rank(n)
    /\ new.todo = Tail(old.todo)

LEMMA NoRunIsNoShell == \A sh \in Shell : sh # NoRun /\ sh.cmd \in Commands
BY DEF Shell, NoRun, Commands

LEMMA AtIs ==
    ASSUME FlyShape, NEW s \in Shells, NEW n, At(s, n)
    PROVE  /\ shell[s] \in Shell /\ Shaped(shell[s]) /\ Behind(shell[s].todo, file)
           /\ shell[s].todo \in Seq(Steps) /\ shell[s].todo # <<>>
           /\ shell[s].todo[1][1] = n /\ shell[s].todo[1][2] = Arg(s) /\ shell[s].todo[1] \in Steps /\ Named(shell[s].todo[1])
           /\ Ahead(shell[s].todo, n)
           /\ \A m : Ahead(shell[s].todo, m) => Rank(n) <= Rank(m)
<1> DEFINE todo == shell[s].todo
<1>1. shell[s] \in Shell /\ Shaped(shell[s]) /\ Behind(todo, file) BY DEF FlyShape, At, Runs, Shaped
<1>2. WellFormed(todo) /\ todo \in Seq(Steps) /\ todo # <<>> /\ Head(todo)[1] = n /\ Arg(s) = Head(todo)[2]
  BY <1>1 DEF Shaped, WellFormed, At, Arg
<1> HIDE DEF todo
<1>3. Head(todo) = todo[1] /\ todo[1] \in Steps BY <1>2, HeadComesFirst
<1>4. Ahead(todo, n) BY <1>2, <1>3 DEF Ahead
<1>5. \A m : Ahead(todo, m) => Rank(n) <= Rank(m) BY <1>2, HeadComesFirst
<1>6. Named(todo[1]) BY <1>3, StepsAreNamed
<1>7. QED BY <1>1, <1>2, <1>3, <1>4, <1>5, <1>6 DEF todo

LEMMA OnwardBy ==
    ASSUME NEW old, Shaped(old), old.todo # <<>>, NEW new \in Shell, new.todo = Tail(old.todo),
           new.cmd = old.cmd, new.calls = old.calls, new.asked = old.asked, new.alone = old.alone
    PROVE  Onward(old, new)
<1>1. WellFormed(old.todo) /\ old.todo \in Seq(Steps) BY DEF Shaped, WellFormed
<1>2. WellFormed(new.todo) BY <1>1, TailWellFormed
<1>3. Fits(new) BY <1>1, TailAhead DEF Shaped, Fits
<1>4. \A n : Ahead(old.todo, n) <=> old.todo[1][1] = n \/ Ahead(new.todo, n) BY <1>1, TailAhead
<1>5. \A step : Has(old.todo, step) <=> old.todo[1] = step \/ Has(new.todo, step) BY <1>1, TailAhead
<1>6. \A n : Ahead(new.todo, n) => Rank(old.todo[1][1]) <= Rank(n) BY <1>1, HeadComesFirst, <1>4
<1>7. QED BY <1>2, <1>3, <1>4, <1>5, <1>6 DEF Onward, Shaped

LEMMA AdvanceIs ==
    ASSUME FlyShape, NEW s \in Shells, NEW n, At(s, n), Advance(s)
    PROVE  /\ shell' \in [Shells -> Shell \union {NoRun}] /\ shell'[s] \in Shell /\ Onward(shell[s], shell'[s])
           /\ shell'[s].read = shell[s].read /\ shell'[s].stamp = shell[s].stamp
           /\ shell'[s].images = shell[s].images /\ shell'[s].pinned = shell[s].pinned
           /\ \A r \in Shells : r # s => shell'[r] = shell[r]
<1> DEFINE old == shell[s]
           new == [old EXCEPT !.todo = Tail(old.todo)]
<1>1. old \in Shell /\ Shaped(old) /\ old.todo \in Seq(Steps) /\ old.todo # <<>> BY AtIs
<1>2. Tail(old.todo) \in Seq(Steps) BY <1>1
<1>3. /\ new \in Shell /\ new.todo = Tail(old.todo) /\ new.cmd = old.cmd /\ new.calls = old.calls
      /\ new.asked = old.asked /\ new.alone = old.alone
      /\ new.read = old.read /\ new.stamp = old.stamp /\ new.images = old.images /\ new.pinned = old.pinned
  BY <1>1, <1>2 DEF Shell
<1>4. shell \in [Shells -> Shell \union {NoRun}] BY DEF FlyShape, FlyTypeOK
<1>5. shell' = [shell EXCEPT ![s] = new] BY DEF Advance
<1>6. Onward(old, new) BY <1>1, <1>3, OnwardBy
<1> HIDE DEF new
<1>7. QED BY <1>3, <1>4, <1>5, <1>6

\* A shell that stops runs no more, or is a wizard that goes on behind what it
\* has called.
LEMMA QuitIs ==
    ASSUME FlyShape, NEW s \in Shells, Runs(s), Quit(s)
    PROVE  /\ shell' \in [Shells -> Shell \union {NoRun}]
           /\ \/ shell'[s] = NoRun
              \/ /\ shell[s].cmd = "wizard" /\ shell[s].calls /\ shell'[s] \in Shell /\ Shaped(shell'[s])
                 /\ shell'[s].todo = <<>> /\ shell'[s].cmd = "wizard" /\ shell'[s].calls
                 /\ shell'[s].alone = shell[s].alone /\ shell'[s].asked = shell[s].asked
           /\ \A r \in Shells : r # s => shell'[r] = shell[r]
<1> DEFINE old == shell[s]
           new == [old EXCEPT !.todo = <<>>]
<1>1. old \in Shell /\ Shaped(old) BY DEF FlyShape, Runs, Shaped
<1>2. shell \in [Shells -> Shell \union {NoRun}] BY DEF FlyShape, FlyTypeOK
<1>3. CASE ~(old.cmd = "wizard" /\ old.calls) BY <1>3, <1>2 DEF Quit
<1>4. CASE old.cmd = "wizard" /\ old.calls
  <2>1. <<>> \in Seq(Steps) OBVIOUS
  <2>2. /\ new \in Shell /\ new.todo = <<>> /\ new.cmd = old.cmd /\ new.calls = old.calls
        /\ new.asked = old.asked /\ new.alone = old.alone
    BY <1>1, <2>1 DEF Shell
  <2>3. shell' = [shell EXCEPT ![s] = new] BY <1>4 DEF Quit
  <2>4. WellFormed(<<>>) BY DEF WellFormed, Orderly, Closing
  <2>5. \A l, h : Within(<<>>, l, h) BY DEF Within
  <2>6. Fits(new) BY <1>4, <2>2, <2>5 DEF Fits
  <2>7. Shaped(new) BY <2>2, <2>4, <2>6 DEF Shaped
  <2> HIDE DEF new
  <2>8. QED BY <1>2, <1>4, <2>2, <2>3, <2>7
<1>5. QED BY <1>3, <1>4

LEMMA AheadIsWithin ==
    ASSUME NEW t, NEW l, NEW h, Within(t, l, h), NEW n, Ahead(t, n)
    PROVE  l <= Rank(n) /\ Rank(n) <= h
BY DEF Within, Ahead

LEMMA RanksOfNames ==
    /\ Rank("create") = 1 /\ Rank("set") = 1 /\ Rank("basics") = 1 /\ Rank("configure") = 1
    /\ Rank("org") = 2 /\ Rank("fly") = 3 /\ Rank("file") = 4 /\ Rank("copy") = 5
    /\ Rank("draw") = 6 /\ Rank("region") = 6 /\ Rank("dir") = 6 /\ Rank("hostname") = 7
    /\ Rank("check") = 8 /\ Rank("app") = 9 /\ Rank("volume") = 10 /\ Rank("build") = 11 /\ Rank("mirror") = 11
    /\ Rank("pin") = 12 /\ Rank("render") = 13 /\ Rank("secrets") = 14 /\ Rank("ship") = 15
BY DEF Rank

LEMMA BehindAtFirst ==
    /\ \A t, f : Within(t, 4, 7) /\ Ahead(t, "file") => Behind(t, f)
    /\ \A t, f : Within(t, 1, 4) => Behind(t, f)
    /\ \A t, f : Within(t, 8, 15) /\ Ahead(t, "check") => Behind(t, f)
    /\ \A t, f : Ahead(t, "file") /\ Ahead(t, "check") => Behind(t, f)
<1>1. ASSUME NEW t, NEW n \in {"app", "volume", "build", "mirror", "pin", "render", "secrets", "ship"},
             Within(t, 4, 7) \/ Within(t, 1, 4), Ahead(t, n)
      PROVE  FALSE BY RanksOfNames, RanksAre, <1>1, AheadIsWithin
<1>2. ASSUME NEW t, NEW n \in {"copy", "draw", "region", "dir", "hostname"},
             Within(t, 1, 4) \/ Within(t, 8, 15), Ahead(t, n)
      PROVE  FALSE BY RanksOfNames, RanksAre, <1>2, AheadIsWithin
<1>3. QED BY <1>1, <1>2 DEF Behind

LEMMA WizardScript == Script(WizardSteps, 1, 3)
<1>1. /\ <<"create", "-">> \in Steps /\ <<"basics", "-">> \in Steps /\ <<"org", "-">> \in Steps /\ <<"fly", "-">> \in Steps
      /\ <<"configure", "app">> \in Steps /\ <<"configure", "oauth">> \in Steps
  BY DEF Steps, PlainSteps
<1>2. WizardSteps \in Seq(Steps) /\ DOMAIN WizardSteps = 1..6 BY <1>1 DEF WizardSteps
<1>3. /\ WizardSteps[1] = <<"create", "-">> /\ WizardSteps[2] = <<"basics", "-">>
      /\ WizardSteps[3] = <<"configure", "app">> /\ WizardSteps[4] = <<"configure", "oauth">>
      /\ WizardSteps[5] = <<"org", "-">> /\ WizardSteps[6] = <<"fly", "-">>
  BY DEF WizardSteps
<1>4. /\ Rank(WizardSteps[1][1]) = 1 /\ Rank(WizardSteps[2][1]) = 1 /\ Rank(WizardSteps[3][1]) = 1
      /\ Rank(WizardSteps[4][1]) = 1 /\ Rank(WizardSteps[5][1]) = 2 /\ Rank(WizardSteps[6][1]) = 3
  BY <1>3, RanksOfNames
<1>5. Within(WizardSteps, 1, 3) BY <1>2, <1>4 DEF Within
<1>6. Orderly(WizardSteps) BY <1>2, <1>4 DEF Orderly
<1>7. QED BY <1>2, <1>5, <1>6 DEF Script

LEMMA StepsForIs ==
    ASSUME NEW cmd \in Commands
    PROVE  /\ WellFormed(StepsFor(cmd)) /\ \A f : Behind(StepsFor(cmd), f)
           /\ cmd \in {"init", "refresh"} => Within(StepsFor(cmd), 4, 6)
           /\ cmd \in {"deploy", "redeploy"} => Within(StepsFor(cmd), 8, 15)
           /\ cmd = "wizard" => Within(StepsFor(cmd), 1, 3)
<1>1. CASE cmd = "init"
  <2>1. StepsFor(cmd) = InitSteps \o TopUps BY <1>1 DEF StepsFor
  <2>2. Script(StepsFor(cmd), 4, 6) /\ Script(StepsFor(cmd), 1, 7) /\ Script(StepsFor(cmd), 4, 7) BY <2>1, InitScript, ScriptsWiden
  <2>3. QED BY <1>1, <2>1, <2>2, InitScript, LowScriptsClose, BehindAtFirst DEF Script
<1>2. CASE cmd = "refresh"
  <2>1. StepsFor(cmd) = InitSteps \o Refreshes \o TopUps BY <1>2 DEF StepsFor
  <2>2. Script(StepsFor(cmd), 4, 6) /\ Script(StepsFor(cmd), 1, 7) /\ Script(StepsFor(cmd), 4, 7) BY <2>1, RefreshScript, ScriptsWiden
  <2>3. QED BY <1>2, <2>1, <2>2, RefreshScript, LowScriptsClose, BehindAtFirst DEF Script
<1>3. CASE cmd \in {"deploy", "redeploy"} BY <1>3, DeployScript, BehindAtFirst DEF StepsFor, Script, WellFormed
<1>4. CASE cmd = "wizard"
  <2>1. StepsFor(cmd) = WizardSteps BY <1>4 DEF StepsFor
  <2>2. Script(StepsFor(cmd), 1, 3) /\ Script(StepsFor(cmd), 1, 7) /\ Script(StepsFor(cmd), 1, 4) BY <2>1, WizardScript, ScriptsWiden
  <2>3. QED BY <1>4, <2>2, LowScriptsClose, BehindAtFirst DEF Script
<1>5. QED BY <1>1, <1>2, <1>3, <1>4 DEF Commands

\* Something else happens while commands run.
LEMMA DisturbedIs ==
    ASSUME FlyShape
    PROVE  /\ Disturbed \in [Shells -> Shell \union {NoRun}]
           /\ \A r \in Shells : ~Runs(r) => Disturbed[r] = NoRun
           /\ \A r \in Shells : Runs(r) =>
                /\ Disturbed[r] \in Shell /\ Shaped(Disturbed[r]) /\ ~Disturbed[r].alone
                /\ Disturbed[r].todo = shell[r].todo /\ Disturbed[r].cmd = shell[r].cmd
                /\ Disturbed[r].calls = shell[r].calls /\ Disturbed[r].asked = shell[r].asked
                /\ Disturbed[r].read = shell[r].read
<1>1. ASSUME NEW r \in Shells, Runs(r)
      PROVE  /\ Disturbed[r] \in Shell /\ Shaped(Disturbed[r]) /\ ~Disturbed[r].alone
             /\ Disturbed[r].todo = shell[r].todo /\ Disturbed[r].cmd = shell[r].cmd
             /\ Disturbed[r].calls = shell[r].calls /\ Disturbed[r].asked = shell[r].asked
             /\ Disturbed[r].read = shell[r].read BY <1>1 DEF Disturbed, FlyShape, Shaped, Shell, Fits
<1>2. \A r \in Shells : ~Runs(r) => Disturbed[r] = NoRun BY DEF Disturbed
<1>3. DOMAIN Disturbed = Shells BY DEF Disturbed
<1>4. Disturbed = [r \in Shells |-> Disturbed[r]] BY DEF Disturbed
<1>5. QED BY <1>1, <1>2, <1>3, <1>4

LEMMA StartIs ==
    ASSUME FlyShape, NEW s \in Shells, NEW cmd \in Commands, Start(s, cmd)
    PROVE  /\ shell' \in [Shells -> Shell \union {NoRun}] /\ ~Runs(s)
           /\ shell'[s] \in Shell /\ Shaped(shell'[s]) /\ shell'[s].todo = StepsFor(cmd) /\ shell'[s].cmd = cmd
           /\ ~shell'[s].calls /\ ~shell'[s].asked /\ shell'[s].alone = (\A t \in Shells : ~Runs(t))
           /\ \A r \in Shells : r # s => shell'[r] = Disturbed[r]
<1> DEFINE new == [cmd |-> cmd, todo |-> StepsFor(cmd), calls |-> FALSE, asked |-> FALSE,
                   alone |-> \A t \in Shells : ~Runs(t), read |-> NoRead,
                   stamp |-> Unknown, images |-> NoImages, pinned |-> {}]
<1>1. /\ WellFormed(StepsFor(cmd)) /\ StepsFor(cmd) \in Seq(Steps)
      /\ cmd \in {"init", "refresh"} => Within(StepsFor(cmd), 4, 6)
      /\ cmd \in {"deploy", "redeploy"} => Within(StepsFor(cmd), 8, 15)
      /\ cmd = "wizard" => Within(StepsFor(cmd), 1, 3)
  BY StepsForIs DEF WellFormed
<1>2. NoRead \in [Tokens \union {"url", "region"} -> Texts] BY DEF NoRead, Texts
<1>3. Unknown \in Int /\ NoImages \in [Images -> Item] BY DEF Unknown, NoImages, Nothing, Item
<1>4. (\A t \in Shells : ~Runs(t)) \in BOOLEAN OBVIOUS
<1>5. /\ new \in Shell /\ new.todo = StepsFor(cmd) /\ new.cmd = cmd /\ new.calls = FALSE /\ new.asked = FALSE
      /\ new.alone = (\A t \in Shells : ~Runs(t))
  BY <1>1, <1>2, <1>3, <1>4 DEF Shell
<1>6. shell' = [Disturbed EXCEPT ![s] = new] /\ ~Runs(s) BY DEF Start
<1> HIDE DEF new
<1>7. Fits(new) BY <1>1, <1>5 DEF Fits, Commands
<1>8. Shaped(new) BY <1>1, <1>5, <1>7 DEF Shaped
<1>9. QED BY <1>5, <1>6, <1>8, DisturbedIs

LEMMA ReadIsText ==
    ASSUME NEW f \in Env
    PROVE  ReadOf(f) \in [Tokens \union {"url", "region"} -> Texts]
BY KeysAre, LiveIs DEF Texts, ReadOf

\* A check that lets the deploy go on.
LEMMA CheckIs ==
    ASSUME FlyShape, NEW s \in Shells, At(s, "check"), file # NoFile,
           shell' = [shell EXCEPT ![s].todo = Tail(@), ![s].read = ReadOf(file), ![s].stamp = Revision]
    PROVE  /\ shell' \in [Shells -> Shell \union {NoRun}] /\ shell'[s] \in Shell /\ Onward(shell[s], shell'[s])
           /\ shell'[s].read = ReadOf(file) /\ shell'[s].stamp = Revision
           /\ \A r \in Shells : r # s => shell'[r] = shell[r]
<1> DEFINE old == shell[s]
           new == [old EXCEPT !.todo = Tail(old.todo), !.read = ReadOf(file), !.stamp = Revision]
<1>1. old \in Shell /\ Shaped(old) /\ old.todo \in Seq(Steps) /\ old.todo # <<>> BY AtIs
<1>2. Tail(old.todo) \in Seq(Steps) BY <1>1
<1>3. ReadOf(file) \in [Tokens \union {"url", "region"} -> Texts] BY ReadIsText DEF FlyShape, FlyTypeOK, Sound
<1>4. Revision \in Int BY DEF Revision, Unknown, FlyShape, FlyTypeOK
<1>5. /\ new \in Shell /\ new.todo = Tail(old.todo) /\ new.cmd = old.cmd /\ new.calls = old.calls
      /\ new.asked = old.asked /\ new.alone = old.alone /\ new.read = ReadOf(file) /\ new.stamp = Revision
  BY <1>1, <1>2, <1>3, <1>4 DEF Shell
<1>6. shell \in [Shells -> Shell \union {NoRun}] BY DEF FlyShape, FlyTypeOK
<1>7. shell' = [shell EXCEPT ![s] = new] BY <1>6
<1>8. Onward(old, new) BY <1>1, <1>5, OnwardBy
<1> HIDE DEF new
<1>9. QED BY <1>5, <1>6, <1>7, <1>8, ZenonT(60)

LEMMA PinIs ==
    ASSUME FlyShape, NEW s \in Shells, Pin(s)
    PROVE  /\ shell' \in [Shells -> Shell \union {NoRun}] /\ shell'[s] \in Shell /\ Onward(shell[s], shell'[s])
           /\ shell'[s].read = shell[s].read /\ shell'[s].stamp = shell[s].stamp
           /\ shell'[s].images = registry
           /\ \A r \in Shells : r # s => shell'[r] = shell[r]
<1> DEFINE old == shell[s]
<1>1. At(s, "pin") BY DEF Pin
<1>2. PICK pinned \in SUBSET Pinnable : shell' = [shell EXCEPT ![s].images = registry, ![s].pinned = pinned, ![s].todo = Tail(@)]
  BY DEF Pin
<1> DEFINE new == [old EXCEPT !.images = registry, !.pinned = pinned, !.todo = Tail(old.todo)]
<1>3. old \in Shell /\ Shaped(old) /\ old.todo \in Seq(Steps) /\ old.todo # <<>> BY <1>1, AtIs
<1>4. Tail(old.todo) \in Seq(Steps) BY <1>3
<1>5. registry \in [Images -> Item] /\ pinned \in SUBSET Images BY <1>2 DEF FlyShape, FlyTypeOK, Pinnable
<1>6. /\ new \in Shell /\ new.todo = Tail(old.todo) /\ new.cmd = old.cmd /\ new.calls = old.calls
      /\ new.asked = old.asked /\ new.alone = old.alone /\ new.read = old.read /\ new.stamp = old.stamp
      /\ new.images = registry
  BY <1>3, <1>4, <1>5 DEF Shell
<1>7. shell \in [Shells -> Shell \union {NoRun}] BY DEF FlyShape, FlyTypeOK
<1>8. shell' = [shell EXCEPT ![s] = new] BY <1>2, <1>7
<1>9. Onward(old, new) BY <1>3, <1>6, OnwardBy
<1> HIDE DEF new
<1>10. QED BY <1>6, <1>7, <1>8, <1>9

\* The wizard's first part: questions, answered one by one.
LEMMA QuestionsAreFirst ==
    ASSUME NEW sh, Shaped(sh), NEW n, Ahead(sh.todo, n), Rank(n) <= 3
    PROVE  sh.cmd = "wizard" /\ ~sh.calls /\ Within(sh.todo, 1, 3)
<1>1. sh.cmd \in Commands /\ sh.calls \in BOOLEAN BY DEF Shaped, Shell
<1>2. ~Within(sh.todo, 4, 6) /\ ~Within(sh.todo, 8, 15) /\ ~Within(sh.todo, 4, 15) BY RanksAre, AheadIsWithin
<1>3. QED BY <1>1, <1>2 DEF Shaped, Fits, Commands

LEMMA ExtendIs ==
    ASSUME FlyShape, NEW s \in Shells, NEW n, At(s, n), Rank(n) <= 2,
           NEW steps, Script(steps, 1, 1), NEW new \in Shell, new.todo = steps \o Tail(shell[s].todo),
           new.cmd = shell[s].cmd, new.calls = shell[s].calls, shell' = [shell EXCEPT ![s] = new]
    PROVE  /\ shell' \in [Shells -> Shell \union {NoRun}] /\ shell'[s] = new /\ Shaped(new)
           /\ new.cmd = "wizard" /\ ~new.calls /\ Within(new.todo, 1, 3)
           /\ \A m : Ahead(new.todo, m) <=> Ahead(steps, m) \/ Ahead(Tail(shell[s].todo), m)
           /\ \A step : Has(new.todo, step) <=> Has(steps, step) \/ Has(Tail(shell[s].todo), step)
           /\ \A r \in Shells : r # s => shell'[r] = shell[r]
<1> DEFINE old == shell[s]
           rest == Tail(old.todo)
<1>1. old \in Shell /\ Shaped(old) /\ old.todo \in Seq(Steps) /\ old.todo # <<>> /\ Ahead(old.todo, n) BY AtIs
<1>2. old.cmd = "wizard" /\ ~old.calls /\ Within(old.todo, 1, 3)
  <2>1. Rank(n) \in Nat BY RanksAre
  <2>2. Rank(n) <= 3 BY <2>1
  <2>3. QED BY <1>1, <2>2, QuestionsAreFirst
<1>3. WellFormed(rest) /\ Within(rest, 1, 3) BY <1>1, <1>2, TailWellFormed, TailAhead DEF Shaped
<1>4. Script(rest, 1, 3) BY <1>3 DEF Script, WellFormed
<1>5. /\ Script(steps \o rest, 1, 3)
      /\ \A m : Ahead(steps \o rest, m) <=> Ahead(steps, m) \/ Ahead(rest, m)
      /\ \A step : Has(steps \o rest, step) <=> Has(steps, step) \/ Has(rest, step)
  BY <1>4, ScriptsJoin
<1>6. WellFormed(new.todo) BY <1>5, ScriptsWiden, LowScriptsClose
<1>7. Within(new.todo, 1, 3) BY <1>5 DEF Script
<1>8. Shaped(new) BY <1>2, <1>6, <1>7 DEF Shaped, Fits
<1>9. shell \in [Shells -> Shell \union {NoRun}] BY DEF FlyShape, FlyTypeOK
<1>10. QED BY <1>2, <1>5, <1>7, <1>8, <1>9

\* Past its first step the wizard finds the file there.
LEMMA QuestionsHaveSource ==
    ASSUME FlyShape, NEW s \in Shells, NEW n, At(s, n), Rank(n) <= 3, n # "create"
    PROVE  source # NoFile /\ Sound(source) /\ source \in Env
BY AtIs, QuestionsAreFirst DEF FlyShape, At, WizardSteps, HasSource, FlyTypeOK, Sound

LEMMA SetsAre ==
    ASSUME NEW k \in Asked
    PROVE  /\ Script(<<<<"set", k>>>>, 1, 1) /\ Has(<<<<"set", k>>>>, <<"set", k>>)
           /\ \A m : Ahead(<<<<"set", k>>>>, m) <=> m = "set"
           /\ \A step : Has(<<<<"set", k>>>>, step) <=> step = <<"set", k>>
BY RanksOfNames DEF Steps, Within, Orderly, Script, Ahead, Has

-----------------------------------------------------------------------------
(* What the steps do to the files. *)

\* A file never goes, and what it says of the deployment's own keys stands.
FileGoes(f, g) ==
    /\ g = NoFile \/ Sound(g)
    /\ f # NoFile => g # NoFile
    /\ \A k \in Kept : Live(f, k) # Blank => Live(g, k) = Live(f, k)
    /\ \A k \in Needed : Live(f, k) # Blank => Live(g, k) # Blank

LEMMA FileStays == FlyShape => FileGoes(file, file)
BY DEF FlyShape, FlyTypeOK, FileGoes

\* One key of the file is given a value.
LEMMA OneKeyGoes ==
    ASSUME NEW f, Sound(f), NEW k \in Keys, NEW g, Sound(g), \A j \in Keys : j # k => Live(g, j) = Live(f, j),
           k \notin Kept \/ Live(f, k) = Blank, k \notin Needed \/ Live(f, k) = Blank \/ Live(g, k) # Blank
    PROVE  FileGoes(f, g)
BY EnvIsAFile, KeysAre DEF Sound, FileGoes

LEMMA FirstFileGoes ==
    ASSUME NEW g, Sound(g)
    PROVE  FileGoes(NoFile, g)
BY DEF FileGoes, Live

LEMMA OneKeyIsSound ==
    ASSUME NEW f, Sound(f)
    PROVE  f \in Env /\ f # NoFile
BY EnvIsAFile DEF Sound

\* Past its creation a command finds the file there, past the check it finds
\* it complete.
LEMMA FileIsThere ==
    ASSUME FlyShape, NEW s \in Shells
    PROVE  /\ \A n \in {"copy", "draw", "region", "dir", "hostname"} : At(s, n) => file # NoFile /\ Sound(file) /\ file \in Env
           /\ \A n \in {"app", "volume", "build", "mirror", "pin", "render", "secrets", "ship"} :
                At(s, n) => Ready(file) /\ Sound(file) /\ file \in Env
<1>1. ASSUME NEW n \in {"copy", "draw", "region", "dir", "hostname"}, At(s, n)
      PROVE  file # NoFile /\ Sound(file) /\ file \in Env
  BY RanksOfNames, <1>1, AtIs, RanksAre DEF Behind, FlyShape, FlyTypeOK, Sound
<1>2. ASSUME NEW n \in {"app", "volume", "build", "mirror", "pin", "render", "secrets", "ship"}, At(s, n)
      PROVE  Ready(file) /\ Sound(file) /\ file \in Env
  BY RanksOfNames, <1>2, AtIs, RanksAre DEF Behind, FlyShape, FlyTypeOK, Sound, Ready
<1>3. QED BY <1>1, <1>2

LEMMA ArgIs ==
    ASSUME FlyShape, NEW s \in Shells
    PROVE  /\ At(s, "draw") => Arg(s) \in Tokens
           /\ At(s, "copy") => Arg(s) \in ToSet(Copied)
           /\ At(s, "build") => Arg(s) \in {"app", "sync"}
           /\ At(s, "set") => Arg(s) \in Asked
           /\ At(s, "configure") => Arg(s) \in {"app", "oauth"}
BY AtIs DEF Named

LEMMA CreateFileGoes ==
    ASSUME FlyShape, NEW s \in Shells, CreateFile(s) \/ CutShort(s)
    PROVE  FileGoes(file, file') /\ source' = source
<1>1. source' = source BY DEF CreateFile, CutShort
<1>2. CASE file' = file BY <1>1, <1>2, FileStays
<1>3. CASE file = NoFile /\ source # NoFile /\ file' = With(source, "url", FlyUrl)
  BY <1>3, WithIs, KeysAre, <1>1, FirstFileGoes DEF FlyShape, FlyTypeOK, Sound, Texts
<1>4. CASE file = NoFile /\ source # NoFile /\ file' = [source EXCEPT !["url"] = <<>>]
  <2>1. Sound(source) /\ source \in Env BY <1>4 DEF FlyShape, FlyTypeOK, Sound
  <2>2. <<>> \in Seq(Texts) /\ "region" \in Keys /\ "url" \in Keys BY KeysAre
  <2>3. file' \in Env /\ file'["region"] = source["region"] BY <1>4, <2>1, <2>2 DEF Env
  <2>4. Sound(file') BY <2>1, <2>3 DEF Sound
  <2>5. QED BY <1>1, <1>4, <2>4, FirstFileGoes
<1>5. QED BY <1>2, <1>3, <1>4 DEF CreateFile, CutShort

LEMMA CopyGoes ==
    ASSUME FlyShape, NEW s \in Shells, Copy(s)
    PROVE  FileGoes(file, file') /\ source' = source
<1> DEFINE k == Arg(s)
<1>1. source' = source /\ At(s, "copy") BY DEF Copy
<1>2. Sound(file) /\ file \in Env /\ k \in ToSet(Copied) /\ k \in Keys /\ k \notin Kept /\ k # "region"
  BY <1>1, FileIsThere, ArgIs, KeysAre
<1>3. CASE file' = file BY <1>1, <1>3, FileStays
<1>4. CASE source # NoFile /\ ~KeepsBlank(k) /\ file' = With(file, k, Live(source, k))
  <2>1. source \in Env BY <1>4 DEF FlyShape, FlyTypeOK, Sound
  <2>2. Live(source, k) \in Texts BY <1>2, <2>1, LiveIs
  <2>3. /\ Sound(file') /\ Live(file', k) = Live(source, k)
        /\ \A j \in Keys : j # k => Live(file', j) = Live(file, j)
    BY <1>2, <1>4, <2>2, WithIs
  <2>4. k \in Needed => Live(file', k) # Blank BY <1>4, <2>3 DEF Needed, BlankClears, KeepsBlank, Missing
  <2>5. QED BY <1>1, <1>2, <2>3, <2>4, OneKeyGoes
<1>5. QED BY <1>3, <1>4 DEF Copy

LEMMA TopUpGoes ==
    ASSUME FlyShape, NEW s \in Shells, Draw(s) \/ AskRegion(s) \/ PlaceData(s)
    PROVE  FileGoes(file, file') /\ source' = source
<1>1. source' = source BY DEF Draw, AskRegion, PlaceData
<1>2. CASE file' = file BY <1>1, <1>2, FileStays
<1>3. Sound(file) /\ file \in Env BY FileIsThere DEF Draw, AskRegion, PlaceData
<1>4. ASSUME NEW k \in Keys, NEW v \in Texts, Missing(file, k), k = "region" => v \in Regions, file' = Added(file, k, v)
      PROVE  FileGoes(file, file') BY <1>3, <1>4, AddedIs, OneKeyGoes DEF Missing
<1>5. CASE Draw(s) BY <1>5, ArgIs, KeysAre, <1>1, <1>2, <1>4 DEF Draw, Texts, Draws
<1>6. CASE AskRegion(s) BY KeysAre, <1>1, <1>2, <1>4, <1>6 DEF Texts, AskRegion
<1>7. CASE PlaceData(s) BY KeysAre, <1>1, <1>2, <1>4, <1>7 DEF Texts, PlaceData
<1>8. QED BY <1>5, <1>6, <1>7

LEMMA HostnameGoes ==
    ASSUME FlyShape, NEW s \in Shells, Hostname(s)
    PROVE  FileGoes(file, file') /\ source' = source
<1>1. source' = source /\ Sound(file) /\ file \in Env BY FileIsThere DEF Hostname
<1>2. CASE file' = file BY <1>1, <1>2, FileStays
<1>3. ASSUME NEW url \in Https, file' = With(file, "url", url) PROVE FileGoes(file, file')
  <2>1. url \in Texts /\ "url" \in Keys /\ "url" \notin Kept /\ "url" \notin Needed /\ "url" # "region"
    BY KeysAre DEF Texts, Needed
  <2>2. Sound(file') /\ \A j \in Keys : j # "url" => Live(file', j) = Live(file, j) BY <1>1, <1>3, <2>1, WithIs
  <2>3. QED BY <1>1, <2>1, <2>2, OneKeyGoes
<1>4. QED BY <1>1, <1>2, <1>3 DEF Hostname

LEMMA EditFileGoes ==
    ASSUME FlyShape, NEW k \in ToSet(Copied), NEW v \in Values \union {Blank}, EditFile(k, v)
    PROVE  FileGoes(file, file') /\ source' = source
<1>1. source' = source /\ Sound(file) /\ file \in Env /\ v # Blank BY DEF EditFile, FlyShape, FlyTypeOK, Sound
<1>2. k \in Keys /\ k \notin Kept /\ k # "region" /\ v \in Texts BY KeysAre DEF Texts
<1>3. CASE file' = Added(file, k, v) BY <1>1, <1>2, <1>3, AddedIs, OneKeyGoes
<1>4. CASE file[k] # <<>> /\ file' = [file EXCEPT ![k][1] = v]
  <2>1. /\ Sound(file') /\ Live(file', k) \in {v, Live(file, k)}
        /\ \A j \in Keys : j # k => Live(file', j) = Live(file, j)
    <3> DEFINE g == [file EXCEPT ![k][1] = v]
    <3>1. /\ g \in Env /\ Live(g, k) \in {v, Live(file, k)}
          /\ \A j \in Keys : j # k => g[j] = file[j] /\ Live(g, j) = Live(file, j)
          /\ k # "region" /\ Sound(file) => Sound(g)
      BY <1>1, <1>2, <1>4, FirstEditedIs
    <3>2. file' = g BY <1>4
    <3> HIDE DEF g
    <3>3. QED BY <1>1, <1>2, <3>1, <3>2
  <2>2. k \notin Needed \/ Live(file, k) = Blank \/ Live(file', k) # Blank BY <1>1, <2>1
  <2>3. QED BY <1>1, <1>2, <2>1, <2>2, OneKeyGoes
<1>5. QED BY <1>3, <1>4 DEF EditFile

\* The file of the checkout is written by hand and by the wizard.
LEMMA EditSourceGoes ==
    ASSUME FlyShape, NEW k \in ToSet(Copied), NEW v \in Values \union {Blank}, EditSource(k, v)
    PROVE  Sound(source') /\ file' = file
<1>1. source # NoFile /\ source' = With(source, k, v) /\ file' = file BY DEF EditSource
<1>2. k \in Keys /\ k # "region" /\ v \in Texts BY KeysAre DEF Texts
<1>3. Sound(source) /\ source \in Env BY <1>1 DEF FlyShape, FlyTypeOK, Sound
<1>4. QED BY <1>1, <1>2, <1>3, WithIs

LEMMA SourceGoes ==
    ASSUME FlyShape, NEW s \in Shells, WriteSecrets(s) \/ SetAnswer(s)
    PROVE  Sound(source') /\ file' = file
<1>1. file' = file /\ (source # NoFile => Sound(source) /\ source \in Env)
  BY DEF WriteSecrets, SetAnswer, FlyShape, FlyTypeOK, Sound
<1>2. CASE WriteSecrets(s)
  <2>1. CASE source' = source /\ source # NoFile BY <1>1, <2>1
  <2> DEFINE new == [k \in Keys |-> IF k \in Tokens \union {"auth"} THEN <<"own">>
                                    ELSE IF k = "url" THEN <<"localhost">>
                                    ELSE IF k \in ToSet(Copied) THEN <<Blank>> ELSE <<>>]
  <2>2. CASE source' = new
    <3>1. <<"own">> \in Seq(Texts) /\ <<"localhost">> \in Seq(Texts) /\ <<Blank>> \in Seq(Texts) /\ <<>> \in Seq(Texts)
      BY DEF Texts
    <3>2. new \in Env BY <3>1 DEF Env
    <3>3. "region" \in Keys /\ "region" \notin Tokens \union {"auth"} /\ "region" \notin ToSet(Copied) BY KeysAre
    <3>4. new["region"] = <<>> BY <3>3
    <3>5. Sound(new) BY <3>2, <3>4 DEF Sound, ToSet
    <3>6. QED BY <1>1, <2>2, <3>5
  <2>3. CASE source # NoFile BY <1>2, <2>1, <2>3 DEF WriteSecrets
  <2>4. CASE source = NoFile BY <1>2, <2>2, <2>4 DEF WriteSecrets
  <2>5. QED BY <2>3, <2>4
<1>3. CASE SetAnswer(s)
  <2> DEFINE k == Arg(s)
             v == Answer(k)
  <2>1. At(s, "set") /\ source' = With(source, k, v) BY <1>3 DEF SetAnswer
  <2>2. k \in Asked /\ k \in Keys /\ k # "region" BY <2>1, ArgIs, KeysAre DEF Asked, Answered
  <2>3. v \in Texts BY <1>1, <2>2, LiveIs DEF Texts, Live, FlyShape, FlyTypeOK, Answer
  <2>4. source # NoFile BY <2>1, QuestionsHaveSource, RanksOfNames
  <2>5. QED BY <1>1, <2>1, <2>2, <2>3, <2>4, WithIs
<1>4. QED BY <1>2, <1>3
-----------------------------------------------------------------------------
(* Every step keeps the shape. *)

\* What is beside the files and the shells.
Beside ==
    /\ wish \in [Asked -> Texts] /\ unsaid \subseteq Answered
    /\ tree \in [head : Nat, content : Nat] /\ upstream \in Nat /\ registry \in [Images -> Item]
    /\ hosting \in [made : BOOLEAN, volumes : SUBSET (Regions \union {DefaultRegion}),
                    secrets : [Secrets -> Texts] \union {NoFile}]
    /\ chance \in [Commands \union {"edits", "moves", "hands", "faults"} -> Nat]
    /\ reported \in Commands \union {"none"}
SourceGoesOn == (source' = NoFile \/ Sound(source')) /\ (source # NoFile => source' # NoFile)

LEMMA ChanceIs ==
    ASSUME FlyShape, NEW kind \in Commands \union {"edits", "moves", "hands", "faults"}, Chance(kind)
    PROVE  chance' \in [Commands \union {"edits", "moves", "hands", "faults"} -> Nat]
BY DEF FlyShape, FlyTypeOK, Chance

LEMMA BesideStays ==
    ASSUME FlyShape, wish' = wish, tree' = tree, upstream' = upstream, registry' = registry, hosting' = hosting,
           chance' = chance \/ chance' \in [Commands \union {"edits", "moves", "hands", "faults"} -> Nat],
           reported' = reported \/ reported' \in Commands \union {"none"}, unsaid' \subseteq unsaid \union Answered
    PROVE  Beside'
BY DEF FlyShape, FlyTypeOK, Beside

LEMMA BehindGoes ==
    ASSUME NEW todo, NEW f, NEW g, Behind(todo, f), FileGoes(f, g)
    PROVE  Behind(todo, g)
BY DEF FileGoes, Ready, Behind

\* The shells that took no part.
Same(old, new) ==
    /\ Shaped(new) /\ new.todo = old.todo /\ new.cmd = old.cmd /\ new.calls = old.calls /\ new.read = old.read
ShellKept(r) == IF Runs(r) THEN Same(shell[r], shell'[r]) ELSE shell'[r] = NoRun

LEMMA KeptShape ==
    ASSUME FlyShape, FileGoes(file, file'), SourceGoesOn, NEW r \in Shells, ShellKept(r), Runs(r)'
    PROVE  Shaped(shell[r])' /\ Behind(shell[r].todo, file)' /\ HasSource(shell[r], source)' /\ Placed(shell[r])'
BY BehindGoes DEF ShellKept, Runs, FlyShape, Same, HasSource, Placed, SourceGoesOn

LEMMA UnmovedIsKept ==
    ASSUME FlyShape, NEW r \in Shells, shell'[r] = shell[r] \/ shell'[r] = Disturbed[r]
    PROVE  ShellKept(r)
<1>1. CASE Runs(r) BY <1>1, DisturbedIs DEF FlyShape, ShellKept, Same
<1>2. CASE ~Runs(r) BY <1>2, DisturbedIs DEF ShellKept, Runs
<1>3. QED BY <1>1, <1>2

LEMMA ShapeBy ==
    ASSUME FlyShape, FileGoes(file, file'), SourceGoesOn, Beside', shell' \in [Shells -> Shell \union {NoRun}],
           \A r \in Shells : \/ ShellKept(r)
                             \/ shell'[r] = NoRun
                             \/ /\ Shaped(shell'[r]) /\ Behind(shell'[r].todo, file') /\ HasSource(shell'[r], source')
                                /\ Placed(shell'[r])
    PROVE  FlyShape'
<1>1. FlyTypeOK' BY DEF FileGoes, SourceGoesOn, FlyTypeOK, Beside
<1>2. ASSUME NEW r \in Shells, Runs(r)' PROVE Shaped(shell[r])' /\ Behind(shell[r].todo, file)' /\ HasSource(shell[r], source)' /\ Placed(shell[r])'
  BY <1>2, KeptShape DEF Runs
<1>3. QED BY <1>1, <1>2 DEF FlyShape

\* A shell goes on by one step.
LEMMA ShapeOnward ==
    ASSUME FlyShape, FileGoes(file, file'), SourceGoesOn, Beside', NEW s \in Shells, NEW n, At(s, n),
           n = "file" => file' # NoFile, n = "check" => Ready(file'), n = "create" => source' # NoFile,
           shell' \in [Shells -> Shell \union {NoRun}], Onward(shell[s], shell'[s]),
           IF n = "check" THEN shell'[s].read["region"] \in Regions \union {DefaultRegion} ELSE shell'[s].read = shell[s].read,
           \A r \in Shells : r # s => shell'[r] = shell[r]
    PROVE  FlyShape'
<1> DEFINE old == shell[s]
           new == shell'[s]
<1>1. Behind(old.todo, file) /\ old.todo[1][1] = n /\ Shaped(old) /\ HasSource(old, source) /\ Placed(old) BY AtIs DEF FlyShape, At
<1>2. /\ Onward(old, new)
      /\ IF n = "check" THEN new.read["region"] \in Regions \union {DefaultRegion} ELSE new.read = old.read
  OBVIOUS
<1> HIDE DEF old, new
<1>3. Behind(old.todo, file') BY <1>1, BehindGoes
<1>4. Behind(new.todo, file') BY <1>2, <1>1, <1>3 DEF Onward, Behind
<1>5. HasSource(new, source') BY <1>2, <1>1 DEF WizardSteps, Onward, HasSource, SourceGoesOn
<1>6. Shaped(new) BY <1>2 DEF Onward
<1>7. \A r \in Shells : r # s => ShellKept(r) BY UnmovedIsKept
<1>9. Placed(new) BY <1>1, <1>2 DEF Onward, Placed
<1>8. QED BY <1>4, <1>5, <1>6, <1>7, <1>9, ShapeBy DEF new

\* A shell stops.
LEMMA ShapeQuit ==
    ASSUME FlyShape, FileGoes(file, file'), SourceGoesOn, Beside', NEW s \in Shells, Runs(s), Quit(s)
    PROVE  FlyShape'
<1>1. /\ shell' \in [Shells -> Shell \union {NoRun}]
      /\ \/ shell'[s] = NoRun
         \/ Shaped(shell'[s]) /\ shell'[s].todo = <<>> /\ shell'[s].calls
      /\ \A r \in Shells : r # s => shell'[r] = shell[r]
  BY QuitIs
<1>2. \A r \in Shells : r # s => ShellKept(r) BY <1>1, UnmovedIsKept
<1>3. Behind(<<>>, file') BY DEF Behind, Ahead
<1>4. CASE shell'[s] = NoRun BY <1>1, <1>2, <1>4, ShapeBy
<1>5. CASE Shaped(shell'[s]) /\ shell'[s].todo = <<>> /\ shell'[s].calls
  BY <1>5, <1>1, <1>2, <1>3, ShapeBy DEF HasSource, Placed, Ahead
<1>6. QED BY <1>1, <1>4, <1>5

LEMMA SourceUnmoved == FlyShape /\ source' = source => SourceGoesOn
BY DEF FlyShape, FlyTypeOK, SourceGoesOn

LEMMA FileStepShape ==
    ASSUME FlyShape, NEW s \in Shells,
           CreateFile(s) \/ Copy(s) \/ Draw(s) \/ AskRegion(s) \/ PlaceData(s) \/ Hostname(s) \/ CutShort(s)
    PROVE  FlyShape'
<1>1. FileGoes(file, file') /\ source' = source BY CreateFileGoes, CopyGoes, TopUpGoes, HostnameGoes
<1>2. SourceGoesOn BY <1>1, SourceUnmoved
<1>3. /\ wish' = wish /\ tree' = tree /\ upstream' = upstream /\ registry' = registry /\ hosting' = hosting
      /\ reported' = reported /\ unsaid' = unsaid
  BY DEF CreateFile, Copy, Draw, AskRegion, PlaceData, Hostname, CutShort, outside, cloud
<1>4. chance' = chance \/ chance' \in [Commands \union {"edits", "moves", "hands", "faults"} -> Nat]
  BY ChanceIs DEF CutShort, CreateFile, Copy, Draw, AskRegion, PlaceData, Hostname
<1>5. Beside' BY <1>3, <1>4, BesideStays
<1>6. PICK n \in {"file", "copy", "draw", "region", "dir", "hostname"} : At(s, n) /\ (n = "file" => CreateFile(s) \/ CutShort(s))
  BY DEF CreateFile, Copy, Draw, AskRegion, PlaceData, Hostname, CutShort
<1>7. CASE Quit(s) BY <1>6, <1>1, <1>2, <1>5, <1>7, ShapeQuit DEF At
<1>8. CASE Advance(s) /\ (n = "file" => file' # NoFile) BY <1>6, <1>8, AdvanceIs, <1>1, <1>2, <1>5, ShapeOnward
<1>9. Quit(s) \/ Advance(s) BY DEF CreateFile, Copy, Draw, AskRegion, PlaceData, Hostname, CutShort
<1>10. n = "file" => Quit(s) \/ file' # NoFile
  <2>1. CASE CutShort(s) BY <2>1 DEF CutShort
  <2>2. ASSUME CreateFile(s), ~Quit(s) PROVE file' # NoFile
    <3>1. CASE file # NoFile BY <2>2, <3>1 DEF CreateFile
    <3>2. CASE file = NoFile
      BY <2>2, <3>2, WithIs, KeysAre, EnvIsAFile DEF CreateFile, FlyShape, FlyTypeOK, Sound, Texts
    <3>3. QED BY <3>1, <3>2
  <2>3. QED BY <1>6, <2>1, <2>2
<1>11. QED BY <1>7, <1>8, <1>9, <1>10

\* The steps of a deploy leave both files alone.
DeployStep(s) ==
    \/ Check(s) \/ CreateApp(s) \/ MakeVolume(s) \/ Build(s) \/ Mirror(s) \/ Pin(s) \/ Render(s)
    \/ SetSecrets(s) \/ Ship(s)

LEMMA DeployStepBeside ==
    ASSUME FlyShape, NEW s \in Shells, DeployStep(s)
    PROVE  Beside' /\ file' = file /\ source' = source
<1>1. file' = file /\ source' = source /\ wish' = wish /\ tree' = tree /\ upstream' = upstream /\ reported' = reported
      /\ unsaid' = unsaid
  BY DEF DeployStep, Check, CreateApp, MakeVolume, Build, Mirror, Pin, Render, SetSecrets, Ship, outside
<1>2. chance' = chance \/ Chance("faults")
  BY DEF DeployStep, Check, CreateApp, MakeVolume, Build, Mirror, Pin, Render, SetSecrets, Ship
<1>3. chance' \in [Commands \union {"edits", "moves", "hands", "faults"} -> Nat]
  BY <1>2, ChanceIs DEF FlyShape, FlyTypeOK
<1>4. registry' \in [Images -> Item]
  <2>1. registry \in [Images -> Item] BY DEF FlyShape, FlyTypeOK
  <2>2. CASE Build(s)
    <3>1. At(s, "build") /\ registry' = [registry EXCEPT ![Arg(s)] = [of |-> tree.content, stamp |-> shell[s].stamp]]
      BY <2>2 DEF Build
    <3>2. shell[s] \in Shell BY <3>1, AtIs
    <3>3. [of |-> tree.content, stamp |-> shell[s].stamp] \in Item BY <3>2 DEF FlyShape, FlyTypeOK, Shell, Item
    <3>4. QED BY <2>1, <3>1, <3>3
  <2>3. CASE Mirror(s)
    <3>1. [of |-> upstream, stamp |-> Unknown] \in Item BY DEF FlyShape, FlyTypeOK, Item, Unknown
    <3>2. QED BY <2>1, <2>3, <3>1 DEF Mirror
  <2>4. CASE registry' = registry BY <2>1, <2>4
  <2>5. QED BY <2>2, <2>3, <2>4 DEF DeployStep, Check, CreateApp, MakeVolume, Pin, Render, SetSecrets, Ship, cloud
<1> DEFINE Hosting == [made : BOOLEAN, volumes : SUBSET (Regions \union {DefaultRegion}),
                       secrets : [Secrets -> Texts] \union {NoFile}]
<1>5. hosting' \in Hosting
  <2>1. hosting \in Hosting BY DEF FlyShape, FlyTypeOK
  <2>2. CASE MakeVolume(s)
    <3>1. At(s, "volume") BY <2>2 DEF MakeVolume
    <3>2. Placed(shell[s]) BY <3>1 DEF FlyShape, At
    <3>3. ~Ahead(shell[s].todo, "check") BY <3>1, AtIs, RanksOfNames
    <3>4. shell[s].read["region"] \in Regions \union {DefaultRegion} BY <3>1, <3>2, <3>3, AtIs DEF Placed
    <3>5. QED BY <2>1, <2>2, <3>4 DEF MakeVolume
  <2>3. CASE SetSecrets(s)
    <3>1. At(s, "secrets") BY <2>3 DEF SetSecrets
    <3>2. file \in Env /\ shell[s] \in Shell BY <3>1, FileIsThere, AtIs
    <3>3. \A k \in Secrets : k \in Keys BY KeysAre, CopiedAre DEF Secrets, Keys, Kept
    <3>4. \A k \in Secrets : Live(file, k) \in Texts BY <3>2, <3>3, LiveIs
    <3>5. \A k \in Tokens \union {"url"} : shell[s].read[k] \in Texts BY <3>2 DEF Shell
    <3>6. [k \in Secrets |-> IF k \in Tokens \union {"url"} THEN shell[s].read[k] ELSE Live(file, k)] \in [Secrets -> Texts]
      BY <3>4, <3>5
    <3>7. QED BY <2>1, <2>3, <3>6 DEF SetSecrets
  <2>4. CASE CreateApp(s) BY <2>1, <2>4 DEF CreateApp
  <2>5. CASE ~MakeVolume(s) /\ ~SetSecrets(s) /\ ~CreateApp(s)
    BY <2>5, <2>1 DEF DeployStep, Check, Build, Mirror, Pin, Render, Ship, cloud
  <2>6. QED BY <2>2, <2>3, <2>4, <2>5
<1>6. QED BY <1>1, <1>3, <1>4, <1>5 DEF FlyShape, FlyTypeOK, Beside

\* A region that has been read is one that a volume may be made in.
LEMMA RegionRead ==
    ASSUME FlyShape, Ready(file)
    PROVE  ReadOf(file)["region"] \in Regions \union {DefaultRegion}
<1>1. Sound(file) /\ file \in Env BY DEF Ready, FlyShape, FlyTypeOK, Sound
<1>2. "region" \in Keys BY KeysAre
<1>3. ReadOf(file)["region"] = IF Missing(file, "region") THEN DefaultRegion ELSE Live(file, "region") BY DEF ReadOf
<1>4. CASE ~Missing(file, "region")
  BY <1>1, <1>4, EnvIsAFile, <1>2, LiveIs, <1>3 DEF Missing, Live, ToSet, Sound
<1>5. QED BY <1>3, <1>4

LEMMA DeployStepShape ==
    ASSUME FlyShape, NEW s \in Shells, DeployStep(s)
    PROVE  FlyShape'
<1>1. Beside' /\ file' = file /\ source' = source BY DeployStepBeside
<1>2. FileGoes(file, file') /\ SourceGoesOn BY <1>1, FileStays, SourceUnmoved
<1>3. PICK n \in {"check", "app", "volume", "build", "mirror", "pin", "render", "secrets", "ship"} :
        At(s, n) /\ (n = "check" => Check(s)) /\ (n = "pin" => Pin(s))
  BY DEF DeployStep, Check, CreateApp, MakeVolume, Build, Mirror, Pin, Render, SetSecrets, Ship
<1>4. CASE Quit(s) BY <1>1, <1>2, <1>3, <1>4, ShapeQuit DEF At
<1>5. CASE Advance(s) /\ n # "check" BY <1>3, <1>5, AdvanceIs, <1>1, <1>2, ShapeOnward
<1>6. CASE Pin(s) BY <1>6, PinIs, <1>1, <1>2, ShapeOnward DEF Pin
<1>7. CASE Check(s) /\ ~Quit(s)
  <2>1. /\ At(s, "check") /\ Ready(file)
        /\ shell' = [shell EXCEPT ![s].todo = Tail(@), ![s].read = ReadOf(file), ![s].stamp = Revision]
    BY <1>7 DEF Check, Ready, Missing
  <2>2. /\ shell' \in [Shells -> Shell \union {NoRun}] /\ Onward(shell[s], shell'[s]) /\ shell'[s].read = ReadOf(file)
        /\ \A r \in Shells : r # s => shell'[r] = shell[r]
    BY <2>1, CheckIs DEF Ready
  <2>3. shell'[s].read["region"] \in Regions \union {DefaultRegion} BY <2>1, <2>2, RegionRead
  <2>4. QED BY <1>1, <1>2, <2>1, <2>2, <2>3, ShapeOnward
<1>8. Quit(s) \/ (Advance(s) /\ n # "check") \/ Pin(s) \/ Check(s)
  BY <1>3 DEF DeployStep, CreateApp, MakeVolume, Build, Mirror, Render, SetSecrets, Ship
<1>9. QED BY <1>4, <1>5, <1>6, <1>7, <1>8

LEMMA ReportShape ==
    ASSUME FlyShape, NEW s \in Shells, Report(s)
    PROVE  FlyShape'
<1>1. file' = file /\ source' = source /\ Runs(s) /\ shell' = [shell EXCEPT ![s] = NoRun] BY DEF Report
<1>2. shell \in [Shells -> Shell \union {NoRun}] /\ shell[s] \in Shell BY <1>1 DEF FlyShape, FlyTypeOK, Shaped
<1>3. reported' \in Commands \union {"none"} BY <1>2, NoRunIsNoShell DEF Report
<1>4. Beside' BY <1>3, BesideStays DEF Report, cloud, outside
<1>5. shell' \in [Shells -> Shell \union {NoRun}] /\ shell'[s] = NoRun /\ \A r \in Shells : r # s => shell'[r] = shell[r]
  BY <1>1, <1>2
<1>6. \A r \in Shells : r # s => ShellKept(r) BY <1>5, UnmovedIsKept
<1>7. QED BY <1>1, <1>4, <1>5, <1>6, FileStays, SourceUnmoved, ShapeBy

LEMMA StartShape ==
    ASSUME FlyShape, NEW s \in Shells, NEW cmd \in Commands, Start(s, cmd)
    PROVE  FlyShape'
<1>1. file' = file /\ source' = source /\ reported' = "none" /\ Chance(cmd) BY DEF Start
<1>2. chance' \in [Commands \union {"edits", "moves", "hands", "faults"} -> Nat] BY <1>1, ChanceIs
<1>3. Beside' BY <1>1, <1>2, BesideStays DEF Start, cloud, outside
<1>4. /\ shell' \in [Shells -> Shell \union {NoRun}]
      /\ Shaped(shell'[s]) /\ shell'[s].todo = StepsFor(cmd) /\ shell'[s].cmd = cmd /\ ~shell'[s].calls
      /\ \A r \in Shells : r # s => shell'[r] = Disturbed[r]
  BY StartIs
<1>5. \A r \in Shells : r # s => ShellKept(r) BY <1>4, UnmovedIsKept
<1>6. Behind(shell'[s].todo, file') BY <1>4, StepsForIs
<1>7. HasSource(shell'[s], source') BY <1>4 DEF HasSource, StepsFor
<1>8. Placed(shell'[s])
  <2>1. Rank("volume") = 10 BY DEF Rank
  <2>2. CASE cmd \in {"init", "refresh", "wizard"} BY <2>1, <2>2, StepsForIs, AheadIsWithin, <1>4 DEF Placed
  <2>3. CASE cmd \in {"deploy", "redeploy"} BY <2>3, DeployScript, <1>4 DEF StepsFor, Placed
  <2>4. QED BY <2>2, <2>3 DEF Commands
<1>9. QED BY <1>1, <1>3, <1>4, <1>5, <1>6, <1>7, <1>8, FileStays, SourceUnmoved, ShapeBy

\* The wizard's questions lead to more of them.
LEMMA ShapeQuestions ==
    ASSUME FlyShape, file' = file, Sound(source'), Beside', NEW s \in Shells,
           shell' \in [Shells -> Shell \union {NoRun}], Shaped(shell'[s]), Within(shell'[s].todo, 1, 3),
           \A r \in Shells : r # s => shell'[r] = shell[r]
    PROVE  FlyShape'
<1>1. SourceGoesOn BY EnvIsAFile DEF SourceGoesOn, Sound
<1>2. \A r \in Shells : r # s => ShellKept(r) BY UnmovedIsKept
<1>3. ~Ahead(shell'[s].todo, "volume")
  <2>1. Rank("volume") = 10 BY DEF Rank
  <2>2. QED BY <2>1, AheadIsWithin
<1>4. Within(shell'[s].todo, 1, 4) BY RanksAre DEF Within
<1>5. Behind(shell'[s].todo, file') BY <1>4, BehindAtFirst
<1>6. HasSource(shell'[s], source') BY EnvIsAFile DEF HasSource, Sound
<1>7. Placed(shell'[s]) BY <1>3 DEF Placed
<1>8. QED BY <1>1, <1>2, <1>5, <1>6, <1>7, FileStays, ShapeBy

LEMMA BasicsSteps ==
    ASSUME NEW steps \in {<<>>, <<<<"set", "org">>, <<"set", "admins">>, <<"set", "score">>>> \o <<>>,
                          <<<<"set", "org">>, <<"set", "admins">>, <<"set", "score">>>> \o <<<<"set", "url">>>>}
    PROVE  Script(steps, 1, 1)
<1> DEFINE three == <<<<"set", "org">>, <<"set", "admins">>, <<"set", "score">>>>
<1>1. <<"set", "org">> \in Steps /\ <<"set", "admins">> \in Steps /\ <<"set", "score">> \in Steps
  BY DEF Steps, Asked, Answered
<1>2. three \in Seq(Steps) /\ DOMAIN three = 1..3 /\ \A i \in 1..3 : three[i][1] = "set" BY <1>1
<1> HIDE DEF three
<1>3. Script(three, 1, 1) BY <1>2, RanksOfNames DEF Script, Within, Orderly
<1>4. Script(<<>>, 1, 1) BY NothingIsAScript
<1>5. Script(<<<<"set", "url">>>>, 1, 1) BY SetsAre DEF Asked, Answered
<1>6. Script(three \o <<>>, 1, 1) BY <1>3, <1>4, ScriptsJoin
<1>7. Script(three \o <<<<"set", "url">>>>, 1, 1) BY <1>3, <1>5, ScriptsJoin
<1>8. QED BY <1>4, <1>6, <1>7 DEF three

\* A step that asks for more puts it before what is left.
LEMMA AdvanceToIs ==
    ASSUME FlyShape, NEW s \in Shells, NEW n, At(s, n), Rank(n) <= 2, NEW steps, Script(steps, 1, 1), AdvanceTo(s, steps)
    PROVE  /\ shell' \in [Shells -> Shell \union {NoRun}] /\ Shaped(shell'[s]) /\ Within(shell'[s].todo, 1, 3)
           /\ shell'[s].cmd = "wizard" /\ ~shell'[s].calls /\ shell'[s].asked = shell[s].asked
           /\ shell'[s].alone = shell[s].alone /\ shell'[s].todo = steps \o Tail(shell[s].todo)
           /\ \A m : Ahead(shell'[s].todo, m) <=> Ahead(steps, m) \/ Ahead(Tail(shell[s].todo), m)
           /\ \A step : Has(shell'[s].todo, step) <=> Has(steps, step) \/ Has(Tail(shell[s].todo), step)
           /\ \A r \in Shells : r # s => shell'[r] = shell[r]
<1> DEFINE old == shell[s]
           new == [old EXCEPT !.todo = steps \o Tail(old.todo)]
<1>1. old \in Shell /\ old.todo \in Seq(Steps) /\ old.todo # <<>> BY AtIs
<1>2. steps \o Tail(old.todo) \in Seq(Steps) BY <1>1 DEF Script
<1>3. /\ new \in Shell /\ new.todo = steps \o Tail(old.todo) /\ new.cmd = old.cmd /\ new.calls = old.calls
      /\ new.asked = old.asked /\ new.alone = old.alone
  BY <1>1, <1>2 DEF Shell
<1>4. shell' = [shell EXCEPT ![s] = new] BY DEF AdvanceTo
<1> HIDE DEF new
<1>5. /\ shell' \in [Shells -> Shell \union {NoRun}] /\ shell'[s] = new /\ Shaped(new)
      /\ new.cmd = "wizard" /\ ~new.calls /\ Within(new.todo, 1, 3)
      /\ \A m : Ahead(new.todo, m) <=> Ahead(steps, m) \/ Ahead(Tail(shell[s].todo), m)
      /\ \A step : Has(new.todo, step) <=> Has(steps, step) \/ Has(Tail(shell[s].todo), step)
      /\ \A r \in Shells : r # s => shell'[r] = shell[r]
  BY <1>3, <1>4, ExtendIs
<1>6. QED BY <1>3, <1>5

\* The file is made, and the URL asked for next.
LEMMA CreatedIs ==
    ASSUME FlyShape, NEW s \in Shells, WriteSecrets(s), source = NoFile
    PROVE  /\ shell' \in [Shells -> Shell \union {NoRun}] /\ Shaped(shell'[s]) /\ Within(shell'[s].todo, 1, 3)
           /\ shell'[s].cmd = "wizard" /\ ~shell'[s].calls /\ shell'[s].asked /\ shell'[s].alone = shell[s].alone
           /\ shell'[s].todo = <<<<"set", "url">>>> \o Tail(shell[s].todo)
           /\ \A m : Ahead(shell'[s].todo, m) <=> m = "set" \/ Ahead(Tail(shell[s].todo), m)
           /\ \A step : Has(shell'[s].todo, step) <=> step = <<"set", "url">> \/ Has(Tail(shell[s].todo), step)
           /\ \A r \in Shells : r # s => shell'[r] = shell[r]
<1> DEFINE old == shell[s]
           steps == <<<<"set", "url">>>>
           new == [old EXCEPT !.todo = steps \o Tail(old.todo), !.asked = TRUE]
<1>1. At(s, "create") BY DEF WriteSecrets
<1>2. old \in Shell /\ old.todo \in Seq(Steps) /\ old.todo # <<>> BY <1>1, AtIs
<1>3. /\ Script(steps, 1, 1) /\ \A m : Ahead(steps, m) <=> m = "set"
      /\ \A step : Has(steps, step) <=> step = <<"set", "url">>
  BY SetsAre DEF Asked, Answered
<1>4. shell' = [shell EXCEPT ![s].todo = steps \o Tail(@), ![s].asked = TRUE] BY DEF WriteSecrets
<1>5. steps \o Tail(old.todo) \in Seq(Steps) BY <1>2, <1>3 DEF Script
<1> HIDE DEF steps
<1>6. /\ new \in Shell /\ new.todo = steps \o Tail(old.todo) /\ new.cmd = old.cmd /\ new.calls = old.calls
      /\ new.asked = TRUE /\ new.alone = old.alone
  BY <1>2, <1>5 DEF Shell
<1>7. shell \in [Shells -> Shell \union {NoRun}] BY DEF FlyShape, FlyTypeOK
<1>8. shell' = [shell EXCEPT ![s] = new] BY <1>4, <1>7
<1> HIDE DEF new
<1>9. /\ shell' \in [Shells -> Shell \union {NoRun}] /\ shell'[s] = new /\ Shaped(new)
      /\ new.cmd = "wizard" /\ ~new.calls /\ Within(new.todo, 1, 3)
      /\ \A m : Ahead(new.todo, m) <=> Ahead(steps, m) \/ Ahead(Tail(shell[s].todo), m)
      /\ \A step : Has(new.todo, step) <=> Has(steps, step) \/ Has(Tail(shell[s].todo), step)
      /\ \A r \in Shells : r # s => shell'[r] = shell[r]
  <2>1. Rank("create") <= 2 BY RanksOfNames
  <2>2. new.todo = steps \o Tail(shell[s].todo) /\ new.cmd = shell[s].cmd /\ new.calls = shell[s].calls BY <1>6
  <2>3. Script(steps, 1, 1) BY <1>3
  <2>4. QED BY <1>1, <1>6, <1>8, <2>1, <2>2, <2>3, ExtendIs
<1>10. QED BY <1>3, <1>6, <1>9 DEF steps

QuestionStep(s) ==
    WriteSecrets(s) \/ SetAnswer(s) \/ Basics(s) \/ Configure(s) \/ ProvisionOrg(s)

LEMMA QuestionStepShape ==
    ASSUME FlyShape, NEW s \in Shells, QuestionStep(s)
    PROVE  FlyShape'
<1>1. Beside'
  BY BesideStays DEF QuestionStep, WriteSecrets, SetAnswer, Basics, Configure, ProvisionOrg, cloud, outside
<1>2. file' = file BY DEF QuestionStep, WriteSecrets, SetAnswer, Basics, Configure, ProvisionOrg
<1>3. PICK n \in {"create", "set", "basics", "configure", "org"} :
        At(s, n) /\ (n = "create" => WriteSecrets(s)) /\ (n = "set" => SetAnswer(s))
        /\ (WriteSecrets(s) => n = "create") /\ (SetAnswer(s) => n = "set")
  BY DEF QuestionStep, WriteSecrets, SetAnswer, Basics, Configure, ProvisionOrg, At
<1>4. FileGoes(file, file') BY <1>2, FileStays
<1>5. CASE WriteSecrets(s) \/ SetAnswer(s)
  <2>1. Sound(source') BY <1>5, SourceGoes
  <2>2. SourceGoesOn /\ source' # NoFile BY <2>1, EnvIsAFile DEF SourceGoesOn, Sound
  <2>3. CASE Advance(s) BY <1>3, <2>3, AdvanceIs, <1>1, <1>4, <2>2, ShapeOnward
  <2>4. CASE WriteSecrets(s) /\ source = NoFile BY <2>4, CreatedIs, <1>1, <1>2, <2>1, ShapeQuestions
  <2>5. QED BY <1>5, <2>3, <2>4 DEF WriteSecrets, SetAnswer
<1>6. CASE ~WriteSecrets(s) /\ ~SetAnswer(s)
  <2>1. source' = source BY <1>6 DEF QuestionStep, Basics, Configure, ProvisionOrg
  <2>2. n \in {"basics", "configure", "org"} BY <1>3, <1>6
  <2>3. Rank(n) <= 2 /\ n # "create" BY <2>2, RanksOfNames
  <2>4. source # NoFile /\ Sound(source) BY <1>3, <2>3, QuestionsHaveSource, RanksAre
  <2>5. SourceGoesOn BY <2>1, <2>4 DEF SourceGoesOn
  <2>6. CASE Quit(s) BY <1>1, <1>3, <1>4, <2>5, <2>6, ShapeQuit DEF At
  <2>7. CASE Advance(s) BY <1>3, <2>7, AdvanceIs, <1>1, <1>4, <2>2, <2>5, ShapeOnward
  <2>8. ASSUME NEW steps, Script(steps, 1, 1), AdvanceTo(s, steps) PROVE FlyShape'
    BY <1>3, <2>3, <2>8, AdvanceToIs, <1>1, <1>2, <2>1, <2>4, ShapeQuestions
  <2>9. CASE Basics(s) BY <2>9, BasicsSteps, <2>6, <2>8 DEF Basics
  <2>10. CASE Configure(s) BY <2>10, ArgIs, SetsAre, NothingIsAScript, <2>8 DEF Configure, Asked
  <2>11. CASE ProvisionOrg(s) BY <2>6, <2>7, <2>11 DEF ProvisionOrg
  <2>12. QED BY <1>6, <2>9, <2>10, <2>11 DEF QuestionStep
<1>7. QED BY <1>5, <1>6

\* The wizard calls fly's own script.
LEMMA WizardFlyIs ==
    ASSUME FlyShape, NEW s \in Shells, WizardFly(s)
    PROVE  /\ shell' \in [Shells -> Shell \union {NoRun}] /\ Shaped(shell'[s])
           /\ shell'[s].calls /\ shell'[s].cmd = "wizard" /\ shell'[s].alone = shell[s].alone
           /\ Ahead(shell'[s].todo, "file") \/ shell'[s].todo = <<>>
           /\ Ahead(shell'[s].todo, "check") \/ Within(shell'[s].todo, 4, 7)
           /\ ~Ahead(shell'[s].todo, "set")
           /\ \A r \in Shells : r # s => shell'[r] = shell[r]
<1> DEFINE old == shell[s]
           some == InitSteps \o TopUps \o <<<<"hostname", "-">>>>
           all == InitSteps \o TopUps \o <<<<"hostname", "-">>>> \o DeploySteps(Builds)
<1>1. At(s, "fly") /\ \E steps \in {<<>>, some, all} : shell' = [shell EXCEPT ![s].todo = steps, ![s].calls = TRUE]
  BY DEF WizardFly
<1>2. old \in Shell /\ Shaped(old) /\ Ahead(old.todo, "fly") BY <1>1, AtIs
<1>3. old.cmd = "wizard" BY RanksOfNames, <1>2, QuestionsAreFirst
<1>4. /\ Script(some, 4, 7) /\ Ahead(some, "file")
      /\ Script(all, 4, 15) /\ Closing(all) /\ Ahead(all, "file") /\ Ahead(all, "check")
  BY FlyScripts
<1> HIDE DEF some, all
<1>5. PICK steps \in {<<>>, some, all} : shell' = [shell EXCEPT ![s].todo = steps, ![s].calls = TRUE] BY <1>1
<1>6. WellFormed(steps) /\ Within(steps, 4, 15)
  <2>1. CASE steps = all BY <1>4, <2>1 DEF Script, WellFormed
  <2>2. CASE steps = some \/ steps = <<>>
    <3>1. Script(steps, 4, 7) BY <1>4, <2>2, NothingIsAScript
    <3>2. Script(steps, 1, 7) /\ Script(steps, 4, 15) BY <3>1, ScriptsWiden
    <3>3. QED BY <3>2, LowScriptsClose DEF Script
  <2>3. QED BY <2>1, <2>2
<1>7. Ahead(steps, "file") \/ steps = <<>> BY <1>4
<1>8. Ahead(steps, "check") \/ Within(steps, 4, 7) BY <1>4, NothingIsAScript DEF Script
<1>9. ~Ahead(steps, "set") BY RanksOfNames, <1>6, AheadIsWithin, RanksAre
<1> DEFINE new == [old EXCEPT !.todo = steps, !.calls = TRUE]
<1>10. /\ new \in Shell /\ new.todo = steps /\ new.cmd = "wizard" /\ new.calls = TRUE /\ new.alone = old.alone
  BY <1>2, <1>3, <1>6 DEF Shell, WellFormed
<1>11. shell \in [Shells -> Shell \union {NoRun}] BY DEF FlyShape, FlyTypeOK
<1>12. shell' = [shell EXCEPT ![s] = new] BY <1>5, <1>11
<1> HIDE DEF new
<1>13. Shaped(new) BY <1>6, <1>10 DEF Shaped, Fits
<1>14. QED BY <1>7, <1>8, <1>9, <1>10, <1>11, <1>12, <1>13

LEMMA WizardFlyShape ==
    ASSUME FlyShape, NEW s \in Shells, WizardFly(s)
    PROVE  FlyShape'
<1>1. Beside' BY BesideStays DEF WizardFly, cloud, outside
<1>2. file' = file /\ source' = source BY DEF WizardFly
<1>3. /\ shell' \in [Shells -> Shell \union {NoRun}] /\ Shaped(shell'[s]) /\ shell'[s].calls
      /\ Ahead(shell'[s].todo, "file") \/ shell'[s].todo = <<>>
      /\ Ahead(shell'[s].todo, "check") \/ Within(shell'[s].todo, 4, 7)
      /\ \A r \in Shells : r # s => shell'[r] = shell[r]
  BY WizardFlyIs
<1> DEFINE todo == shell'[s].todo
<1> HIDE DEF todo
<1>4. Ahead(todo, "file") \/ todo = <<>> BY <1>3 DEF todo
<1>5. Ahead(todo, "check") \/ Within(todo, 4, 7) BY <1>3 DEF todo
<1>6. Behind(todo, file) BY <1>4, <1>5, BehindAtFirst DEF Behind, Ahead
<1>7. Placed(shell'[s])
  <2>1. Rank("volume") = 10 BY DEF Rank
  <2>2. Ahead(todo, "volume") => Ahead(todo, "check") BY <1>5, <2>1, AheadIsWithin
  <2>3. QED BY <2>2 DEF Placed, todo
<1>8. HasSource(shell'[s], source') BY <1>3 DEF HasSource
<1>9. \A r \in Shells : r # s => ShellKept(r) BY <1>3, UnmovedIsKept
<1>10. QED BY <1>1, <1>2, <1>3, <1>6, <1>7, <1>8, <1>9, FileStays, SourceUnmoved, ShapeBy DEF todo

LEMMA FailureShape ==
    ASSUME FlyShape, NEW s \in Shells, StepFails(s)
    PROVE  FlyShape'
<1>1. file' = file /\ source' = source /\ Runs(s) /\ Chance("faults") BY DEF StepFails
<1>2. chance' \in [Commands \union {"edits", "moves", "hands", "faults"} -> Nat] BY <1>1, ChanceIs
<1>3. Beside' BY <1>2, BesideStays DEF StepFails, Unwritten, cloud
<1>4. FileGoes(file, file') /\ SourceGoesOn BY <1>1, FileStays, SourceUnmoved
<1>5. CASE Quit(s) BY <1>1, <1>3, <1>4, <1>5, ShapeQuit
<1>6. CASE shell' = [shell EXCEPT ![s] = NoRun]
  BY <1>6, UnmovedIsKept, <1>3, <1>4, ShapeBy DEF FlyShape, FlyTypeOK
<1>7. QED BY <1>5, <1>6 DEF StepFails, LeavesRendered

\* What else happens leaves the commands at their steps.
OutsideStep ==
    \/ \E k \in ToSet(Copied), v \in Values \union {Blank} : EditSource(k, v) \/ EditFile(k, v)
    \/ EditTree \/ Commit \/ PushScorer

LEMMA OutsideShape ==
    ASSUME FlyShape, OutsideStep
    PROVE  FlyShape' /\ FileGoes(file, file')
<1>1. FileGoes(file, file') /\ SourceGoesOn
  <2>1. ASSUME NEW k \in ToSet(Copied), NEW v \in Values \union {Blank}, EditSource(k, v)
        PROVE  FileGoes(file, file') /\ SourceGoesOn
    BY <2>1, EditSourceGoes, EnvIsAFile, FileStays DEF Sound, SourceGoesOn
  <2>2. ASSUME NEW k \in ToSet(Copied), NEW v \in Values \union {Blank}, EditFile(k, v)
        PROVE  FileGoes(file, file') /\ SourceGoesOn
    BY <2>2, EditFileGoes, SourceUnmoved
  <2>3. CASE EditTree \/ Commit \/ PushScorer BY <2>3, FileStays, SourceUnmoved DEF EditTree, Commit, PushScorer
  <2>4. QED BY <2>1, <2>2, <2>3 DEF OutsideStep
<1>2. shell' = Disturbed /\ reported' = "none" /\ \E kind \in {"edits", "moves", "hands"} : Chance(kind)
  BY DEF OutsideStep, EditSource, EditFile, EditTree, Commit, PushScorer, Outside
<1>3. chance' \in [Commands \union {"edits", "moves", "hands", "faults"} -> Nat] BY <1>2, ChanceIs
<1>4. Beside'
  <2>1. registry' = registry /\ hosting' = hosting /\ wish' = wish /\ unsaid' = unsaid
    BY DEF OutsideStep, EditSource, EditFile, EditTree, Commit, PushScorer, cloud, outside
  <2>2. tree' \in [head : Nat, content : Nat]
    BY DEF FlyShape, FlyTypeOK, EditTree, Commit, OutsideStep, EditSource, EditFile, PushScorer, outside
  <2>3. upstream' \in Nat
    BY DEF FlyShape, FlyTypeOK, OutsideStep, EditSource, EditFile, EditTree, Commit, PushScorer, outside
  <2>4. QED BY <1>2, <1>3, <2>1, <2>2, <2>3 DEF Beside, FlyShape, FlyTypeOK
<1>5. \A r \in Shells : ShellKept(r) BY <1>2, UnmovedIsKept
<1>6. shell' \in [Shells -> Shell \union {NoRun}] BY <1>2, DisturbedIs
<1>7. QED BY <1>1, <1>4, <1>5, <1>6, ShapeBy

LEMMA IdleShape ==
    ASSUME FlyShape, RestartMachine \/ UNCHANGED flyVars
    PROVE  FlyShape' /\ file' = file
BY BesideStays, UnmovedIsKept, FileStays, SourceUnmoved, ShapeBy DEF RestartMachine, outside, flyVars,
   FlyShape, FlyTypeOK

LEMMA ShapeInit == FlyInit => FlyShape
<1>1. SUFFICES ASSUME FlyInit PROVE FlyShape OBVIOUS
<1>2. PICK scene \in Scenes :
        source = scene.source /\ file = scene.file /\ wish = scene.wish /\ chance = scene.uses
  BY <1>1 DEF FlyInit
<1>3. /\ \A f \in {source, file} \ {NoFile} : Sound(f)
      /\ wish \in [Asked -> Texts]
      /\ chance \in [Commands \union {"edits", "moves", "hands", "faults"} -> Nat]
  BY <1>2, FlyAssumption
<1>4. tree \in [head : Nat, content : Nat] /\ upstream \in Nat BY <1>1 DEF FlyInit
<1>5. registry \in [Images -> Item] BY <1>1 DEF FlyInit, Nothing, Item
<1>6. hosting \in [made : BOOLEAN, volumes : SUBSET (Regions \union {DefaultRegion}),
                   secrets : [Secrets -> Texts] \union {NoFile}]
  BY <1>1 DEF FlyInit
<1>7. shell \in [Shells -> Shell \union {NoRun}] /\ \A s \in Shells : ~Runs(s) BY <1>1 DEF FlyInit, Runs
<1>8. reported \in Commands \union {"none"} BY <1>1 DEF FlyInit
<1>9. unsaid \subseteq Answered BY <1>1 DEF FlyInit
<1>10. QED BY <1>3, <1>4, <1>5, <1>6, <1>7, <1>8, <1>9 DEF FlyShape, FlyTypeOK

LEMMA ShapeStep ==
    ASSUME FlyShape, [FlyNext]_flyVars
    PROVE  FlyShape' /\ FileGoes(file, file')
<1>1. ASSUME NEW s \in Shells, NEW cmd \in Commands, Start(s, cmd) PROVE FlyShape' /\ FileGoes(file, file')
  BY <1>1, StartShape, FileStays DEF Start
<1>2. ASSUME NEW s \in Shells, ScriptStep(s) PROVE FlyShape' /\ FileGoes(file, file')
  <2>1. CASE CreateFile(s) \/ Copy(s) \/ Draw(s) \/ AskRegion(s) \/ PlaceData(s) \/ Hostname(s)
    BY <2>1, FileStepShape, CreateFileGoes, CopyGoes, TopUpGoes, HostnameGoes
  <2>2. CASE DeployStep(s) BY <2>2, DeployStepShape, DeployStepBeside, FileStays
  <2>3. CASE QuestionStep(s)
    BY <2>3, QuestionStepShape, FileStays DEF QuestionStep, WriteSecrets, SetAnswer, Basics, Configure,
       ProvisionOrg
  <2>4. CASE Report(s) BY <2>4, ReportShape, FileStays DEF Report
  <2>5. CASE WizardFly(s) BY <2>5, WizardFlyShape, FileStays DEF WizardFly
  <2>6. QED BY <1>2, <2>1, <2>2, <2>3, <2>4, <2>5 DEF ScriptStep, DeployStep, QuestionStep
<1>3. ASSUME NEW s \in Shells, StepFails(s) PROVE FlyShape' /\ FileGoes(file, file')
  BY <1>3, FailureShape, FileStays DEF StepFails
<1>4. ASSUME NEW s \in Shells, CutShort(s) PROVE FlyShape' /\ FileGoes(file, file')
  BY <1>4, FileStepShape, CreateFileGoes
<1>5. CASE OutsideStep BY <1>5, OutsideShape
<1>6. CASE RestartMachine \/ UNCHANGED flyVars BY <1>6, IdleShape, FileStays
<1>7. QED BY <1>1, <1>2, <1>3, <1>4, <1>5, <1>6 DEF FlyNext, OutsideStep

\* Every command keeps to its steps, in their order: one that writes into the
\* env file finds it there, one that deploys has looked at it first, and the
\* wizard asks only once there is a file to answer into.
THEOREM CommandsKeepOrder == FlySpec => []FlyShape
<1>1. FlyInit => FlyShape BY ShapeInit
<1>2. FlyShape /\ [FlyNext]_flyVars => FlyShape' BY ShapeStep
<1>3. QED BY <1>1, <1>2, PTL DEF FlySpec

\* The machine changes with a deploy, or starts anew.
LEMMA MachineBy == [FlyNext]_flyVars => machine' = machine \/ RestartMachine \/ \E s \in Shells : Ship(s)
<1>1. ASSUME NEW s \in Shells, ScriptStep(s) \/ StepFails(s) \/ CutShort(s), ~Ship(s) PROVE machine' = machine
  BY <1>1 DEF ScriptStep, StepFails, CutShort, CreateFile, Copy, Draw, AskRegion, PlaceData, Check, CreateApp, MakeVolume,
     Build, Mirror, Pin, Render, SetSecrets, Report, WriteSecrets, SetAnswer, Basics, Configure,
     ProvisionOrg, WizardFly, Hostname, cloud
<1>2. ASSUME NEW s \in Shells, NEW cmd \in Commands, Start(s, cmd) PROVE machine' = machine BY <1>2 DEF Start, cloud
<1>3. OutsideStep \/ UNCHANGED flyVars => machine' = machine
  BY DEF OutsideStep, EditSource, EditFile, EditTree, Commit, PushScorer, cloud, flyVars
<1>4. QED BY <1>1, <1>2, <1>3 DEF FlyNext, OutsideStep

\* What belongs to this deployment stays: no command replaces its token, its
\* password, its secrets or its region once they are in the file, and a pinned
\* image changes with a deploy alone.
THEOREM OwnIsKept == FlySpec => OwnKept
<1> DEFINE Keeps == /\ \A k \in Kept : Live(file, k) # Blank => Live(file', k) = Live(file, k)
                    /\ \A i \in Images :
                         machine # NoMachine /\ i \in machine.pinned /\ machine'.image[i] # machine.image[i]
                             => \E s \in Shells : At(s, "ship")
<1>1. ASSUME FlyShape, [FlyNext]_flyVars PROVE [Keeps]_flyVars
  <2>1. \A k \in Kept : Live(file, k) # Blank => Live(file', k) = Live(file, k) BY <1>1, ShapeStep DEF FileGoes
  <2>2. ASSUME NEW i \in Images, machine # NoMachine, i \in machine.pinned, machine'.image[i] # machine.image[i]
        PROVE  \E s \in Shells : At(s, "ship")
    <3>1. machine' # machine BY <2>2
    <3>2. CASE RestartMachine BY <2>2, <3>2 DEF RestartMachine
    <3>3. QED BY <1>1, <3>1, <3>2, MachineBy DEF Ship
  <2>3. QED BY <2>1, <2>2
<1>2. QED BY <1>1, CommandsKeepOrder, PTL DEF FlySpec, OwnKept

-----------------------------------------------------------------------------
(* The rendered file and the machine. *)

\* One shell at a time.
ShellStep(s) == ScriptStep(s) \/ StepFails(s) \/ CutShort(s)

LEMMA OthersStay ==
    ASSUME FlyShape, NEW s \in Shells, ShellStep(s)
    PROVE  /\ Runs(s) /\ \A r \in Shells : r # s => shell'[r] = shell[r]
           /\ tree' = tree /\ upstream' = upstream /\ wish' = wish
<1>1. tree' = tree /\ upstream' = upstream /\ wish' = wish
  BY DEF ShellStep, ScriptStep, StepFails, CutShort, CreateFile, Copy, Draw, AskRegion, PlaceData, Check, CreateApp,
     MakeVolume, Build, Mirror, Pin, Render, SetSecrets, Ship, Report, WriteSecrets, SetAnswer, Basics, Configure,
     ProvisionOrg, WizardFly, Hostname, outside
<1>2. Runs(s)
  BY DEF ShellStep, ScriptStep, StepFails, CutShort, CreateFile, Copy, Draw, AskRegion, PlaceData, Check, CreateApp,
     MakeVolume, Build, Mirror, Pin, Render, SetSecrets, Ship, Report, WriteSecrets, SetAnswer, Basics, Configure,
     ProvisionOrg, WizardFly, Hostname, At
<1>3. \E new : shell' = [shell EXCEPT ![s] = new]
  <2>1. Advance(s) => \E new : shell' = [shell EXCEPT ![s] = new] BY DEF Advance
  <2>2. Quit(s) => \E new : shell' = [shell EXCEPT ![s] = new] BY DEF Quit
  <2>3. \A steps : AdvanceTo(s, steps) => \E new : shell' = [shell EXCEPT ![s] = new] BY DEF AdvanceTo
  <2>4. shell \in [Shells -> Shell \union {NoRun}] BY DEF FlyShape, FlyTypeOK
  <2>5. (Check(s) \/ Pin(s) \/ WriteSecrets(s) \/ WizardFly(s) \/ Report(s)) => \E new : shell' = [shell EXCEPT ![s] = new]
    <3>1. CASE Check(s)
      <4>1. ASSUME shell' = [shell EXCEPT ![s].todo = Tail(@), ![s].read = ReadOf(file), ![s].stamp = Revision]
            PROVE  \E new : shell' = [shell EXCEPT ![s] = new] BY <2>4, <4>1
      <4>2. QED BY <2>2, <3>1, <4>1 DEF Check
    <3>2. CASE Pin(s) BY <3>2, <2>4 DEF Pin
    <3>3. CASE WriteSecrets(s)
      <4>1. ASSUME shell' = [shell EXCEPT ![s].todo = <<<<"set", "url">>>> \o Tail(@), ![s].asked = TRUE]
            PROVE  \E new : shell' = [shell EXCEPT ![s] = new] BY <2>4, <4>1
      <4>2. QED BY <2>1, <3>3, <4>1 DEF WriteSecrets
    <3>4. CASE WizardFly(s) BY <3>4, <2>4 DEF WizardFly
    <3>5. CASE Report(s) BY <3>5 DEF Report
    <3>6. QED BY <3>1, <3>2, <3>3, <3>4, <3>5
  <2>6. \/ Advance(s) \/ Quit(s) \/ (\E steps : AdvanceTo(s, steps))
        \/ Check(s) \/ Pin(s) \/ WriteSecrets(s) \/ WizardFly(s) \/ Report(s) \/ StepFails(s)
    BY DEF ShellStep, ScriptStep, CutShort, CreateFile, Copy, Draw, AskRegion, PlaceData, CreateApp,
       MakeVolume, Build, Mirror, Render, SetSecrets, Ship, SetAnswer, Basics, Configure, ProvisionOrg, Hostname
  <2>7. StepFails(s) => \E new : shell' = [shell EXCEPT ![s] = new] BY <2>2 DEF StepFails, LeavesRendered
  <2>8. QED BY <2>1, <2>2, <2>3, <2>5, <2>6, <2>7
<1>4. \A r \in Shells : r # s => shell'[r] = shell[r] BY <1>3 DEF FlyShape, FlyTypeOK
<1>5. QED BY <1>1, <1>2, <1>4

LEMMA HeadIs ==
    ASSUME NEW q \in Seq(Steps), Len(q) >= 1
    PROVE  q # <<>> /\ Head(q) = q[1]
OBVIOUS

\* The four steps that close a deploy follow each other at once.
LEMMA ClosingsFollow ==
    ASSUME NEW old, NEW new, Shaped(old), old.todo # <<>>, Onward(old, new)
    PROVE  /\ old.todo[1][1] = "pin" => new.todo # <<>> /\ Head(new.todo)[1] = "render"
           /\ old.todo[1][1] = "render" => new.todo # <<>> /\ Head(new.todo)[1] = "secrets"
           /\ old.todo[1][1] = "secrets" => new.todo # <<>> /\ Head(new.todo)[1] = "ship"
           /\ old.todo[1][1] = "ship" => new.todo = <<>>
<1> DEFINE t == old.todo
           N == Len(t)
           n == t[1][1]
<1>1. t \in Seq(Steps) /\ Closing(t) BY DEF Shaped, WellFormed
<1>2. /\ new.todo = Tail(t) /\ Tail(t) \in Seq(Steps) /\ Len(Tail(t)) = N - 1 /\ N \in Nat /\ N >= 1 /\ DOMAIN t = 1..N
      /\ \A i \in 1..(N - 1) : Tail(t)[i] = t[i + 1]
  BY <1>1, TailIs DEF Onward
<1> HIDE DEF t, N
<1>3. CASE n \notin {"pin", "render", "secrets", "ship"} BY <1>3 DEF t
<1>4. CASE n \in {"pin", "render", "secrets", "ship"}
  <2>1. Rank(n) >= 12 BY <1>4, RanksOfNames
  <2>2. 1 \in DOMAIN t /\ Rank(t[1][1]) >= 8 /\ ~(Rank(t[1][1]) <= 11) BY <1>2, <2>1, RanksAre
  <2>3. \A i \in DOMAIN t : IF N - i <= 3 THEN t[i] = Closings[4 - (N - i)] ELSE Rank(t[i][1]) <= 11
    BY <2>2, <1>1 DEF Closing, N
  <2>4. N - 1 <= 3 /\ t[1] = Closings[4 - (N - 1)] BY <2>2, <2>3
  <2>5. /\ Closings[1][1] = "pin" /\ Closings[2][1] = "render" /\ Closings[3][1] = "secrets" /\ Closings[4][1] = "ship"
    BY DEF Closings
  <2>6. N \in 1..4 BY <1>2, <2>4
  <2>7. /\ n = "pin" => N = 4
        /\ n = "render" => N = 3
        /\ n = "secrets" => N = 2
        /\ n = "ship" => N = 1 BY <2>4, <2>5, <2>6
  <2>8. ASSUME N > 1 PROVE Tail(t) # <<>> /\ Head(Tail(t)) = t[2] /\ t[2] = Closings[4 - (N - 2)]
    BY <1>2, <2>6, <2>8, <2>3, HeadIs
  <2>9. CASE n = "pin" BY <2>7, <2>9, <1>2, <2>5, <2>8 DEF t
  <2>10. CASE n = "render" BY <2>7, <2>10, <1>2, <2>5, <2>8 DEF t
  <2>11. CASE n = "secrets" BY <2>7, <2>11, <1>2, <2>5, <2>8 DEF t
  <2>12. CASE n = "ship"
    <3>1. Len(Tail(t)) = 0 BY <1>2, <2>7, <2>12
    <3>2. Tail(t) = <<>> BY <1>2, <3>1
    <3>3. QED BY <1>2, <2>12, <3>2 DEF t
  <2>13. QED BY <1>4, <2>9, <2>10, <2>11, <2>12
<1>5. QED BY <1>3, <1>4

\* What a rendered file and a machine are, and what is in them.
RenderedSound(r) ==
    r # NoFile => /\ r \in [env : [Keys -> Texts], image : [Images -> Item], pinned : SUBSET Images, cut : BOOLEAN]
                  /\ \A k \in Needed : r.env[k] # Blank
Box == [env : [Keys -> Texts], image : [Images -> Item], pinned : SUBSET Images,
        region : Regions \union {DefaultRegion}, size : DOMAIN PresetCpus \union {Blank}, memory : Nat]
MachineSound(m, volumes) ==
    m # NoMachine => /\ m \in Box /\ \A k \in Needed : m.env[k] # Blank
                     /\ m.region \in volumes
                     /\ m.memory % 256 = 0 /\ 1024 <= m.memory
                     /\ m.memory <= Most(m.size) /\ Least(m.size) <= m.memory
Boxes == RenderedSound(rendered) /\ MachineSound(machine, hosting.volumes)

LEMMA VolumesStay == FlyShape /\ [FlyNext]_flyVars => hosting.volumes \subseteq hosting'.volumes
<1>1. SUFFICES ASSUME FlyShape, [FlyNext]_flyVars PROVE hosting.volumes \subseteq hosting'.volumes OBVIOUS
<1>2. hosting \in [made : BOOLEAN, volumes : SUBSET (Regions \union {DefaultRegion}), secrets : [Secrets -> Texts] \union {NoFile}]
  BY <1>1 DEF FlyShape, FlyTypeOK
<1>3. ASSUME NEW s \in Shells, CreateApp(s) \/ MakeVolume(s) \/ SetSecrets(s) PROVE hosting.volumes \subseteq hosting'.volumes
  BY <1>2, <1>3 DEF CreateApp, MakeVolume, SetSecrets
<1>4. ASSUME NEW s \in Shells, ShellStep(s), ~(CreateApp(s) \/ MakeVolume(s) \/ SetSecrets(s)) PROVE hosting' = hosting
  BY <1>4 DEF ShellStep, ScriptStep, StepFails, CutShort, CreateFile, Copy, Draw, AskRegion, PlaceData, Check,
     Build, Mirror, Pin, Render, Ship, Report, WriteSecrets, SetAnswer, Basics, Configure,
     ProvisionOrg, WizardFly, Hostname, cloud
<1>5. ASSUME NEW s \in Shells, NEW cmd \in Commands, Start(s, cmd) PROVE hosting' = hosting BY <1>5 DEF Start, cloud
<1>6. OutsideStep \/ RestartMachine \/ UNCHANGED flyVars => hosting' = hosting
  BY DEF OutsideStep, EditSource, EditFile, EditTree, Commit, PushScorer, RestartMachine, cloud, flyVars
<1>7. QED BY <1>1, <1>3, <1>4, <1>5, <1>6 DEF FlyNext, ShellStep, OutsideStep

\* A rendered file is one that a deploy has just rendered, or it goes.
LEMMA RenderedBy ==
    ASSUME FlyShape, [FlyNext]_flyVars
    PROVE  \/ rendered' = rendered
           \/ rendered' = NoFile
           \/ \E s \in Shells : Render(s) /\ rendered' = Rendering(s) /\ Advance(s)
           \/ \E s \in Shells : LeavesRendered(s)
<1>1. ASSUME NEW s \in Shells, Quit(s) PROVE rendered' = rendered \/ rendered' = NoFile BY <1>1 DEF Quit
<1>2. ASSUME NEW s \in Shells, Render(s)
      PROVE  Quit(s) \/ (rendered' = Rendering(s) /\ Advance(s))
  BY <1>2 DEF Render
<1>3. ASSUME NEW s \in Shells, StepFails(s)
      PROVE  Quit(s) \/ LeavesRendered(s)
  BY <1>3 DEF StepFails
<1>4. ASSUME NEW s \in Shells, ScriptStep(s) \/ CutShort(s), ~Render(s) PROVE Quit(s) \/ rendered' = rendered \/ rendered' = NoFile
  BY <1>4 DEF ScriptStep, CutShort, CreateFile, Copy, Draw, AskRegion, PlaceData, Check, CreateApp,
     MakeVolume, Build, Mirror, Pin, SetSecrets, Ship, Report, WriteSecrets, SetAnswer, Basics, Configure,
     ProvisionOrg, WizardFly, Hostname
<1>5. ASSUME NEW s \in Shells, NEW cmd \in Commands, Start(s, cmd) PROVE rendered' = rendered BY <1>5 DEF Start
<1>6. OutsideStep \/ RestartMachine \/ UNCHANGED flyVars => rendered' = rendered
  BY DEF OutsideStep, EditSource, EditFile, EditTree, Commit, PushScorer, RestartMachine, flyVars
<1>7. QED BY <1>1, <1>2, <1>3, <1>4, <1>5, <1>6 DEF FlyNext, OutsideStep

LEMMA RenderingIsSound ==
    ASSUME FlyShape, NEW s \in Shells, At(s, "render")
    PROVE  /\ RenderedSound(Rendering(s)) /\ RenderedSound([Rendering(s) EXCEPT !.cut = TRUE])
           /\ Rendering(s) # NoFile
<1>1. Ready(file) /\ file \in Env /\ shell[s] \in Shell BY FileIsThere, AtIs
<1>2. EnvOf(file) \in [Keys -> Texts] BY <1>1, LiveIs DEF EnvOf
<1>3. \A k \in Needed : k \in Keys /\ EnvOf(file)[k] # Blank BY <1>1, KeysAre DEF EnvOf, Ready
<1>4. shell[s].images \in [Images -> Item] /\ shell[s].pinned \in SUBSET Images BY <1>1 DEF Shell
<1>5. Rendering(s) # NoFile BY DEF Rendering, NoFile
<1>6. QED BY <1>2, <1>3, <1>4, <1>5 DEF RenderedSound, Rendering

\* The memory that passes is a step of 256 within its preset.
LEMMA MemoryPasses ==
    ASSUME NEW size, NEW memory, SizePasses(size, memory)
    PROVE  /\ MemoryOf(size, memory) \in Nat /\ MemoryOf(size, memory) % 256 = 0 /\ 1024 <= MemoryOf(size, memory)
           /\ MemoryOf(size, memory) <= Most(size) /\ Least(size) <= MemoryOf(size, memory)
<1>1. size = Blank \/ (size # Blank /\ PresetCpus[size] \in [shared : BOOLEAN, cpus : Nat \ {0}])
  BY FlyAssumption DEF SizePasses
<1>2. /\ Least(size) \in Nat /\ Most(size) \in Nat /\ Least(size) % 256 = 0 /\ Least(size) <= Most(size)
      /\ 1024 <= Most(size)
  <2>1. CASE size = Blank BY <2>1 DEF Least, Most
  <2>2. CASE size # Blank
    <3>1. PICK c \in Nat \ {0} : PresetCpus[size].cpus = c BY <1>1, <2>2
    <3>2. CASE PresetCpus[size].shared BY <2>2, <3>1, <3>2 DEF Least, Most
    <3>3. CASE ~PresetCpus[size].shared BY <2>2, <3>1, <3>3 DEF Least, Most
    <3>4. QED BY <3>2, <3>3
  <2>3. QED BY <2>1, <2>2
<1>3. CASE memory = Blank BY <1>3, <1>2 DEF MemoryOf
<1>4. CASE memory # Blank BY <1>4, FlyAssumption DEF SizePasses, MemoryOf, Grain
<1>5. QED BY <1>3, <1>4

LEMMA BoxesStep ==
    ASSUME FlyShape, Boxes, [FlyNext]_flyVars
    PROVE  Boxes'
<1>1. RenderedSound(rendered')
  BY RenderingIsSound, RenderedBy DEF Boxes, RenderedSound, Render, LeavesRendered
<1>2. MachineSound(machine', hosting'.volumes)
  <2>1. hosting.volumes \subseteq hosting'.volumes BY VolumesStay
  <2>2. CASE machine' = machine BY <2>1, <2>2 DEF Boxes, MachineSound
  <2>3. CASE RestartMachine BY <2>3, <2>1 DEF RestartMachine, Boxes, MachineSound, Box, FlyShape, FlyTypeOK
  <2>4. ASSUME NEW s \in Shells, Ship(s), machine' # machine PROVE MachineSound(machine', hosting'.volumes)
    <3> DEFINE size == Live(file, "size")
               memory == Live(file, "memory")
               images == [i \in Images |-> IF i \in rendered.pinned THEN rendered.image[i] ELSE registry[i]]
               region == IF machine = NoMachine THEN shell[s].read.region ELSE machine.region
    <3>1. /\ Deployable(s) /\ hosting' = hosting
          /\ machine' = [env |-> rendered.env, pinned |-> rendered.pinned, image |-> images, region |-> region,
                         size |-> size, memory |-> MemoryOf(size, memory)]
      BY <2>4 DEF Ship
    <3>2. /\ rendered \in [env : [Keys -> Texts], image : [Images -> Item], pinned : SUBSET Images, cut : BOOLEAN]
          /\ \A k \in Needed : rendered.env[k] # Blank
      BY <3>1 DEF Deployable, Boxes, RenderedSound
    <3>3. images \in [Images -> Item] BY <3>2 DEF FlyShape, FlyTypeOK
    <3>4. region \in hosting.volumes /\ region \in Regions \union {DefaultRegion}
      BY <3>1 DEF Deployable, Boxes, MachineSound, FlyShape, FlyTypeOK
    <3>5. SizePasses(size, memory) BY <3>1 DEF Deployable
    <3>6. size \in DOMAIN PresetCpus \union {Blank} BY <3>5 DEF SizePasses
    <3>7. /\ MemoryOf(size, memory) \in Nat /\ MemoryOf(size, memory) % 256 = 0 /\ 1024 <= MemoryOf(size, memory)
          /\ MemoryOf(size, memory) <= Most(size) /\ Least(size) <= MemoryOf(size, memory)
      BY <3>5, MemoryPasses
    <3> HIDE DEF size, memory, images, region
    <3>8. /\ machine' \in Box /\ machine'.env = rendered.env /\ machine'.region = region
          /\ machine'.size = size /\ machine'.memory = MemoryOf(size, memory)
      BY <3>1, <3>2, <3>3, <3>4, <3>6, <3>7 DEF Box
    <3>9. QED BY <3>1, <3>2, <3>4, <3>7, <3>8 DEF MachineSound
  <2>5. QED BY <2>2, <2>3, <2>4, MachineBy
<1>3. QED BY <1>1, <1>2 DEF Boxes

LEMMA BoxesHold == FlySpec => []Boxes
<1>1. FlyInit => Boxes BY DEF FlyInit, Boxes, RenderedSound, MachineSound
<1>2. FlyShape /\ Boxes /\ [FlyNext]_flyVars => Boxes' BY BoxesStep
<1>3. QED BY <1>1, <1>2, CommandsKeepOrder, PTL DEF FlySpec

\* Whatever is refreshed or edited while a deploy runs, the machine has an
\* administrator, an organization, a scorer and every credential it needs, its
\* volume is in its region, and its memory is what its preset may have.
THEOREM MachinesServe == FlySpec => []MachineServes
<1>1. Boxes => MachineServes BY DEF Boxes, MachineSound, MachineServes
<1>2. QED BY <1>1, BoxesHold, PTL

\* A file that is rendered comes with its trap, or is cut off from it.
LEMMA NothingLeftStep ==
    ASSUME FlyShape, NothingLeftBehind, [FlyNext]_flyVars
    PROVE  NothingLeftBehind'
<1>1. SUFFICES ASSUME rendered' # NoFile, ~rendered'.cut PROVE \E s \in Shells : Trapped(s)'
  BY DEF NothingLeftBehind
<1>2. ASSUME NEW s \in Shells, At(s, "render") \/ At(s, "secrets"), Advance(s) PROVE Trapped(s)'
  BY <1>2, AtIs, AdvanceIs, ClosingsFollow, NoRunIsNoShell DEF FlyShape, FlyTypeOK, Trapped, At, Runs
<1>3. CASE \E s \in Shells : Render(s) /\ Advance(s) BY <1>3, <1>2 DEF Render
<1>4. CASE rendered' = rendered
  <2>1. PICK t \in Shells : Trapped(t) BY <1>1, <1>4 DEF NothingLeftBehind
  <2>2. ASSUME ShellKept(t) PROVE Trapped(t)'
    BY <2>1, <2>2, NoRunIsNoShell DEF Trapped, At, ShellKept, Same, Shaped, Runs
  <2>3. CASE \E s \in Shells, cmd \in Commands : Start(s, cmd)
    BY <2>3, <2>1, StartIs, <2>2, UnmovedIsKept DEF Trapped, At
  <2>4. ASSUME NEW s \in Shells, ShellStep(s), s # t PROVE Trapped(t)' BY <2>2, <2>4, OthersStay, UnmovedIsKept
  <2>5. CASE ShellStep(t)
    <3>1. ~Quit(t) BY <1>1, <2>1 DEF Quit
    <3>2. CASE SetSecrets(t) BY <1>2, <3>2 DEF SetSecrets
    <3>3. CASE Ship(t) BY <1>1, <3>1, <3>3 DEF Ship
    <3>4. CASE StepFails(t) BY <1>1, <3>1, <3>4 DEF StepFails, LeavesRendered, Rendering
    <3>5. CASE ~SetSecrets(t) /\ ~Ship(t) /\ ~StepFails(t)
      <4>1. \E n \in {"secrets", "ship"} : shell[t].todo # <<>> /\ Head(shell[t].todo)[1] = n BY <2>1 DEF Trapped, At
      <4>2. QED
        BY <2>5, <3>5, <4>1 DEF ShellStep, ScriptStep, CutShort, CreateFile, Copy, Draw, AskRegion, PlaceData, Check,
           CreateApp, MakeVolume, Build, Mirror, Pin, Render, Report, WriteSecrets, SetAnswer, Basics, Configure,
           ProvisionOrg, WizardFly, Hostname, At
    <3>6. QED BY <3>2, <3>3, <3>4, <3>5
  <2>6. CASE OutsideStep \/ RestartMachine \/ UNCHANGED flyVars
    <3>1. shell' = shell \/ shell' = Disturbed
      BY <2>6 DEF OutsideStep, EditSource, EditFile, EditTree, Commit, PushScorer, Outside, RestartMachine, flyVars
    <3>2. QED BY <2>2, <3>1, UnmovedIsKept
  <2>7. QED BY <2>3, <2>4, <2>5, <2>6 DEF FlyNext, OutsideStep, ShellStep
<1>5. CASE \E s \in Shells : LeavesRendered(s) BY <1>1, <1>5 DEF LeavesRendered, Rendering
<1>6. QED BY <1>1, <1>3, <1>4, <1>5, RenderedBy

\* The rendered file, with every credential in it, outlives no deploy but one
\* that is interrupted after the rendering and before the trap is set.
THEOREM NothingIsLeftBehind == FlySpec => []NothingLeftBehind
<1>1. FlyInit => NothingLeftBehind BY DEF FlyInit, NothingLeftBehind
<1>2. FlyShape /\ NothingLeftBehind /\ [FlyNext]_flyVars => NothingLeftBehind' BY NothingLeftStep
<1>3. QED BY <1>1, <1>2, CommandsKeepOrder, PTL DEF FlySpec

-----------------------------------------------------------------------------
(* A command that runs alone. *)

Solo(s) == Runs(s) /\ shell[s].alone
\* Who is alone is alone, and after a report nobody runs.
Alone == /\ \A s, t \in Shells : Solo(s) /\ Runs(t) => s = t
         /\ reported # "none" => \A s \in Shells : ~Runs(s)

Settled(of, f, k) ==
    of[k] # <<>> /\ (Live(of, k) # Blank \/ k \in BlankClears) => Live(f, k) = Live(of, k) /\ Len(f[k]) <= 1
\* What a command has still to do it does, or has done.
RefreshOnTrack ==
    \A s \in Shells : Solo(s) /\ shell[s].cmd = "refresh" =>
        \A k \in ToSet(Copied) : Has(shell[s].todo, <<"copy", k>>) \/ (file # NoFile /\ Settled(source, file, k))

\* A deploy that is on its way: what it has read, built, pinned, rendered and
\* set is what there is.
ReadRight(sh) == Ahead(sh.todo, "check") \/ (sh.read = ReadOf(file) /\ sh.stamp = Revision)
BuiltRight(sh) ==
    sh.cmd = "deploy" =>
        /\ \A i \in {"app", "sync"} : Has(sh.todo, <<"build", i>>) \/ registry[i] = [of |-> tree.content, stamp |-> Revision]
        /\ Ahead(sh.todo, "mirror") \/ registry["scorer"].of = upstream
PinnedRight(sh) == Ahead(sh.todo, "pin") \/ sh.images = registry
RenderedRight(sh) ==
    Ahead(sh.todo, "ship") /\ ~Ahead(sh.todo, "render") /\ rendered # NoFile =>
        rendered.env = EnvOf(file) /\ rendered.image = registry
ShippedRight(sh) == Ahead(sh.todo, "ship") \/ (machine.env = EnvOf(file) /\ machine.image = registry)
SecretsRight(sh) == Ahead(sh.todo, "secrets") \/ hosting.secrets = [k \in Secrets |-> Live(file, k)]
Right(sh) ==
    ReadRight(sh) /\ BuiltRight(sh) /\ PinnedRight(sh) /\ RenderedRight(sh) /\ ShippedRight(sh) /\ SecretsRight(sh)
DeployOnTrack == \A s \in Shells : Solo(s) /\ shell[s].cmd \in {"deploy", "redeploy"} => Right(shell[s])

LEMMA ActorIs ==
    ASSUME FlyShape, NEW s \in Shells, ShellStep(s)
    PROVE  \/ shell'[s] = NoRun
           \/ /\ shell'[s] \in Shell /\ shell'[s].alone = shell[s].alone /\ shell'[s].cmd = shell[s].cmd
              /\ shell[s].calls => shell'[s].calls
<1> DEFINE Goes == shell'[s].alone = shell[s].alone /\ shell'[s].cmd = shell[s].cmd /\ (shell[s].calls => shell'[s].calls)
<1>1. shell \in [Shells -> Shell \union {NoRun}] /\ shell[s] \in Shell
  BY OthersStay DEF FlyShape, FlyTypeOK, Shaped
<1>2. shell'[s] # NoRun => shell'[s] \in Shell BY ShapeStep DEF FlyNext, ShellStep, FlyShape, FlyTypeOK
<1>3. \A x : shell' = [shell EXCEPT ![s].todo = x] => Goes
  <2>1. ASSUME NEW x, shell' = [shell EXCEPT ![s].todo = x] PROVE Goes BY <1>1, <2>1 DEF Shell
  <2>2. QED BY <2>1
<1>4. Advance(s) \/ Quit(s) \/ (\E steps : AdvanceTo(s, steps)) => Goes \/ shell'[s] = NoRun
  <2>1. Advance(s) => Goes BY <1>3 DEF Advance
  <2>2. ASSUME NEW steps, AdvanceTo(s, steps) PROVE Goes BY <1>3, <2>2 DEF AdvanceTo
  <2>3. Quit(s) => Goes \/ shell'[s] = NoRun BY <1>1, <1>3 DEF Quit
  <2>4. QED BY <2>1, <2>2, <2>3
<1>5. CASE Check(s)
  <2>1. ASSUME shell' = [shell EXCEPT ![s].todo = Tail(@), ![s].read = ReadOf(file), ![s].stamp = Revision] PROVE Goes
    BY <1>1, <2>1 DEF Shell
  <2>2. QED BY <1>2, <1>4, <1>5, <2>1 DEF Check
<1>6. CASE Pin(s) BY <1>6, PinIs, <1>2 DEF Onward
<1>7. CASE WriteSecrets(s)
  <2>1. CASE source = NoFile BY <1>7, <2>1, <1>1, <1>2 DEF WriteSecrets, Shell
  <2>2. CASE source # NoFile BY <1>2, <1>4, <1>7, <2>2 DEF WriteSecrets
  <2>3. QED BY <2>1, <2>2
<1>8. CASE WizardFly(s) BY <1>8, <1>1, <1>2 DEF WizardFly, Shell
<1>9. CASE Report(s) BY <1>1, <1>9 DEF Report
<1>10. StepFails(s) => Quit(s) \/ shell'[s] = NoRun BY <1>1 DEF StepFails, LeavesRendered
<1>11. \/ Advance(s) \/ Quit(s) \/ (\E steps : AdvanceTo(s, steps))
       \/ Check(s) \/ Pin(s) \/ WriteSecrets(s) \/ WizardFly(s) \/ Report(s) \/ StepFails(s)
  BY DEF ShellStep, ScriptStep, CutShort, CreateFile, Copy, Draw, AskRegion, PlaceData, CreateApp,
     MakeVolume, Build, Mirror, Render, SetSecrets, Ship, SetAnswer, Basics, Configure, ProvisionOrg, Hostname
<1>12. QED BY <1>2, <1>4, <1>5, <1>6, <1>7, <1>8, <1>9, <1>10, <1>11

LEMMA ReportedBy ==
    ASSUME NEW s \in Shells, ShellStep(s)
    PROVE  reported' = reported \/ Report(s)
BY DEF ShellStep, ScriptStep, StepFails, CutShort, CreateFile, Copy, Draw, AskRegion, PlaceData, Check, CreateApp,
   MakeVolume, Build, Mirror, Pin, Render, SetSecrets, Ship, WriteSecrets, SetAnswer, Basics, Configure,
   ProvisionOrg, WizardFly, Hostname

LEMMA AloneStep ==
    ASSUME FlyShape, Alone, [FlyNext]_flyVars
    PROVE  Alone'
<1>1. ASSUME NEW s \in Shells, NEW cmd \in Commands, Start(s, cmd) PROVE Alone'
  <2>1. reported' = "none" /\ ~Runs(s) BY <1>1 DEF Start
  <2>2. /\ shell'[s] \in Shell /\ shell'[s].alone = (\A t \in Shells : ~Runs(t))
        /\ \A r \in Shells : r # s => shell'[r] = Disturbed[r]
    BY <1>1, StartIs
  <2>3. ASSUME NEW r \in Shells, r # s PROVE ~Solo(r)' /\ (Runs(r)' => Runs(r))
    <3>1. CASE Runs(r) BY <2>2, <2>3, <3>1, DisturbedIs DEF Solo
    <3>2. CASE ~Runs(r) BY <2>2, <2>3, <3>2, DisturbedIs DEF Solo, Runs
    <3>3. QED BY <3>1, <3>2
  <2>4. QED BY <2>1, <2>2, <2>3 DEF Alone, Solo
<1>2. ASSUME NEW s \in Shells, ShellStep(s) PROVE Alone'
  <2>1. Runs(s) /\ \A r \in Shells : r # s => shell'[r] = shell[r] BY <1>2, OthersStay
  <2>2. \A r \in Shells : (Runs(r)' => Runs(r)) /\ (Solo(r)' => Solo(r)) BY <2>1, <1>2, ActorIs DEF Runs, Solo
  <2>3. reported = "none" BY <2>1 DEF Alone
  <2>4. CASE Report(s) BY <2>4, <2>1, <2>2 DEF Report, FlyShape, FlyTypeOK, Runs, Alone, Solo
  <2>5. CASE reported' = reported BY <2>2, <2>3, <2>5 DEF Alone
  <2>6. QED BY <1>2, <2>4, <2>5, ReportedBy
<1>3. CASE OutsideStep
  <2>1. shell' = Disturbed /\ reported' = "none"
    BY <1>3 DEF OutsideStep, EditSource, EditFile, EditTree, Commit, PushScorer, Outside
  <2>2. \A r \in Shells : ~Solo(r)' BY <2>1, DisturbedIs DEF Solo, Runs
  <2>3. QED BY <2>1, <2>2 DEF Alone
<1>4. CASE RestartMachine \/ UNCHANGED flyVars BY <1>4 DEF RestartMachine, flyVars, outside, Alone, Solo, Runs
<1>5. QED BY <1>1, <1>2, <1>3, <1>4 DEF FlyNext, OutsideStep, ShellStep

LEMMA AloneHolds == FlySpec => []Alone
<1>1. FlyInit => Alone BY DEF FlyInit, Alone, Solo, Runs
<1>2. FlyShape /\ Alone /\ [FlyNext]_flyVars => Alone' BY AloneStep
<1>3. QED BY <1>1, <1>2, CommandsKeepOrder, PTL DEF FlySpec

\* What a command that is alone may meet: its start, its own steps, and a
\* machine that starts anew.
LEMMA SoloBy ==
    ASSUME FlyShape, Alone, [FlyNext]_flyVars, NEW s \in Shells, Solo(s)'
    PROVE  \/ \E cmd \in Commands : Start(s, cmd)
           \/ Solo(s) /\ ShellStep(s) /\ shell'[s].cmd = shell[s].cmd
           \/ Solo(s) /\ shell' = shell /\ (RestartMachine \/ UNCHANGED flyVars)
<1>1. ASSUME NEW t \in Shells, NEW cmd \in Commands, Start(t, cmd), t # s PROVE FALSE
  <2>1. shell'[s] = Disturbed[s] BY <1>1, StartIs
  <2>2. CASE Runs(s) BY <2>1, <2>2, DisturbedIs DEF Solo
  <2>3. CASE ~Runs(s) BY <2>1, <2>3, DisturbedIs DEF Solo, Runs
  <2>4. QED BY <2>2, <2>3
<1>2. ASSUME NEW t \in Shells, ShellStep(t), t # s PROVE FALSE BY <1>2, OthersStay DEF Solo, Runs, Alone
<1>3. CASE OutsideStep
  <2>1. shell' = Disturbed BY <1>3 DEF OutsideStep, EditSource, EditFile, EditTree, Commit, PushScorer, Outside
  <2>2. CASE Runs(s) BY <2>1, <2>2, DisturbedIs DEF Solo
  <2>3. CASE ~Runs(s) BY <2>1, <2>3, DisturbedIs DEF Solo, Runs
  <2>4. QED BY <2>2, <2>3
<1>4. CASE RestartMachine \/ UNCHANGED flyVars BY <1>4 DEF RestartMachine, flyVars, Solo, Runs
<1>5. CASE ShellStep(s) BY <1>5, ActorIs, OthersStay DEF Solo, Runs
<1>6. QED BY <1>1, <1>2, <1>3, <1>4, <1>5 DEF FlyNext, OutsideStep, ShellStep

\* A command that is none of the wizard's runs no more once it stops.
LEMMA ItQuits ==
    ASSUME FlyShape, NEW s \in Shells, Runs(s), Quit(s), shell[s].cmd # "wizard"
    PROVE  ~Runs(s)'
BY DEF Quit, Runs, FlyShape, FlyTypeOK

\* The steps that a command meets are its own.
LEMMA OwnSteps ==
    ASSUME FlyShape, NEW s \in Shells, ShellStep(s), Runs(s)'
    PROVE  /\ shell[s].cmd \in {"init", "refresh"} =>
                /\ Advance(s)
                /\ CreateFile(s) \/ Copy(s) \/ Draw(s) \/ AskRegion(s) \/ PlaceData(s)
           /\ shell[s].cmd \in {"deploy", "redeploy"} =>
                DeployStep(s) /\ (Advance(s) \/ (Check(s) /\ ~Quit(s)) \/ Pin(s))
<1>1. Runs(s) /\ shell[s] \in Shell /\ Fits(shell[s]) BY OthersStay DEF FlyShape, Shaped
<1>2. shell[s].cmd # "wizard" => ~Quit(s) BY <1>1, ItQuits
<1>3. ~Report(s) /\ (~Quit(s) => ~StepFails(s) /\ ~CutShort(s))
  BY DEF FlyShape, FlyTypeOK, Runs, Report, StepFails, LeavesRendered, CutShort
<1>4. ASSUME NEW n, At(s, n), NEW l \in Nat, NEW h \in Nat, Within(shell[s].todo, l, h) PROVE l <= Rank(n) /\ Rank(n) <= h
  BY <1>4, AtIs, AheadIsWithin
<1>5. CASE shell[s].cmd \in {"init", "refresh"}
  <2>1. Within(shell[s].todo, 4, 6) BY <1>1, <1>5 DEF Fits
  <2>2. ASSUME NEW n, At(s, n) PROVE 4 <= Rank(n) /\ Rank(n) <= 6 BY <1>4, <2>1, <2>2
  <2>3. ~DeployStep(s)
    <3>1. DeployStep(s) => \E n \in {"check", "app", "volume", "build", "mirror", "pin", "render", "secrets", "ship"} : At(s, n)
      BY DEF DeployStep, Check, CreateApp, MakeVolume, Build, Mirror, Pin, Render, SetSecrets, Ship
    <3>2. QED BY <2>2, <3>1, RanksOfNames
  <2>4. ~QuestionStep(s) /\ ~WizardFly(s) /\ ~Hostname(s)
    BY <2>2, RanksOfNames DEF QuestionStep, WriteSecrets, SetAnswer, Basics, Configure, ProvisionOrg,
       WizardFly, Hostname
  <2>5. CreateFile(s) \/ Copy(s) \/ Draw(s) \/ AskRegion(s) \/ PlaceData(s)
    BY <1>2, <1>3, <1>5, <2>3, <2>4 DEF ShellStep, ScriptStep, DeployStep, QuestionStep
  <2>6. QED BY <1>2, <1>5, <2>5 DEF CreateFile, Copy, Draw, AskRegion, PlaceData
<1>6. CASE shell[s].cmd \in {"deploy", "redeploy"}
  <2>1. Within(shell[s].todo, 8, 15) BY <1>1, <1>6 DEF Fits
  <2>2. ASSUME NEW n, At(s, n) PROVE 8 <= Rank(n) /\ Rank(n) <= 15 BY <1>4, <2>1, <2>2
  <2>3. ~CreateFile(s) /\ ~Copy(s) /\ ~Draw(s) /\ ~AskRegion(s) /\ ~PlaceData(s) /\ ~Hostname(s)
    BY <2>2, RanksOfNames DEF CreateFile, Copy, Draw, AskRegion, PlaceData, Hostname
  <2>4. ~QuestionStep(s) /\ ~WizardFly(s)
    BY <2>2, RanksOfNames DEF QuestionStep, WriteSecrets, SetAnswer, Basics, Configure, ProvisionOrg,
       WizardFly
  <2>5. DeployStep(s)
    BY <1>2, <1>3, <1>6, <2>3, <2>4 DEF ShellStep, ScriptStep, DeployStep, QuestionStep
  <2>6. QED BY <1>2, <1>6, <2>5 DEF DeployStep, CreateApp, MakeVolume, Build, Mirror, Render, SetSecrets, Ship
<1>7. QED BY <1>5, <1>6

\* A refresh settles the key it copies and unsettles none.
LEMMA CopySettles ==
    ASSUME FlyShape, NEW s \in Shells, Copy(s), ~Quit(s)
    PROVE  /\ Settled(source', file', Arg(s)) /\ file' # NoFile
           /\ \A k \in ToSet(Copied) : Settled(source, file, k) => Settled(source', file', k)
<1> DEFINE j == Arg(s)
<1>1. At(s, "copy") /\ source' = source /\ source # NoFile /\ j \in ToSet(Copied) /\ j \in Keys BY ArgIs, KeysAre DEF Copy
<1>2. file # NoFile /\ file \in Env /\ source \in Env BY <1>1, FileIsThere DEF FlyShape, FlyTypeOK, Sound
<1>3. Live(source, j) \in Texts BY <1>1, <1>2, LiveIs
<1>4. CASE source[j] = <<>> \/ KeepsBlank(j) BY <1>1, <1>4, <1>2 DEF Copy, KeepsBlank, Missing, Settled
<1>5. CASE Live(source, j) = Live(file, j) /\ Len(file[j]) <= 1 /\ file' = file
  BY <1>1, <1>2, <1>5 DEF Settled
<1>6. CASE file' = With(file, j, Live(source, j))
  <2>1. /\ file' \in Env /\ Live(file', j) = Live(source, j) /\ Len(file'[j]) = 1
        /\ \A k \in Keys : k # j => file'[k] = file[k] /\ Live(file', k) = Live(file, k)
    BY <1>1, <1>2, <1>3, <1>6, WithIs
  <2>2. file' # NoFile BY <2>1, EnvIsAFile
  <2>3. Settled(source', file', j) BY <1>1, <2>1 DEF Settled
  <2>4. \A k \in ToSet(Copied) : k # j => (Settled(source, file, k) => Settled(source', file', k)) BY <1>1, <2>1, KeysAre DEF Settled
  <2>5. QED BY <2>2, <2>3, <2>4
<1>7. QED BY <1>1, <1>4, <1>5, <1>6 DEF Copy

LEMMA TopUpSettles ==
    ASSUME FlyShape, NEW s \in Shells, Draw(s) \/ AskRegion(s) \/ PlaceData(s)
    PROVE  file' # NoFile /\ \A k \in ToSet(Copied) : Settled(source, file, k) => Settled(source', file', k)
<1>1. source' = source /\ file # NoFile /\ file \in Env BY FileIsThere DEF Draw, AskRegion, PlaceData
<1>2. file' = file \/ \E j \in Kept \union {"dir"}, v \in Texts : j \in Keys /\ file' = Added(file, j, v)
  <2>1. CASE Draw(s) BY <2>1, ArgIs, KeysAre DEF Draw, Texts
  <2>2. CASE AskRegion(s) BY KeysAre, <2>2 DEF Texts, Kept, AskRegion
  <2>3. CASE PlaceData(s) BY KeysAre, <2>3 DEF Texts, PlaceData
  <2>4. QED BY <2>1, <2>2, <2>3
<1>3. CASE file' = file BY <1>1, <1>3 DEF Settled
<1>4. ASSUME NEW j \in Kept \union {"dir"}, NEW v \in Texts, j \in Keys, file' = Added(file, j, v)
      PROVE  file' # NoFile /\ \A k \in ToSet(Copied) : Settled(source, file, k) => Settled(source', file', k)
  <2>1. file' \in Env /\ \A k \in Keys : k # j => file'[k] = file[k] /\ Live(file', k) = Live(file, k)
    BY <1>1, <1>4, AddedIs
  <2>2. \A k \in ToSet(Copied) : k # j /\ k \in Keys BY KeysAre, CopiedAre
  <2>3. QED BY <1>1, <2>1, <2>2, EnvIsAFile DEF Settled
<1>5. QED BY <1>2, <1>3, <1>4

LEMMA RefreshStep ==
    ASSUME FlyShape, Alone, RefreshOnTrack, [FlyNext]_flyVars
    PROVE  RefreshOnTrack'
<1>1. SUFFICES ASSUME NEW s \in Shells, Solo(s)', shell'[s].cmd = "refresh", NEW k \in ToSet(Copied)
               PROVE  Has(shell'[s].todo, <<"copy", k>>) \/ (file' # NoFile /\ Settled(source', file', k))
  BY DEF RefreshOnTrack
<1>2. CASE \E cmd \in Commands : Start(s, cmd) BY <1>2, <1>1, StartIs, RefreshScript DEF StepsFor
<1>3. CASE Solo(s) /\ ShellStep(s) /\ shell'[s].cmd = shell[s].cmd
  <2> DEFINE old == shell[s]
             new == shell'[s]
  <2>1. Has(old.todo, <<"copy", k>>) \/ (file # NoFile /\ Settled(source, file, k)) BY <1>1, <1>3 DEF RefreshOnTrack
  <2>2. Runs(s)' BY <1>1 DEF Solo
  <2>3. Advance(s) /\ (CreateFile(s) \/ Copy(s) \/ Draw(s) \/ AskRegion(s) \/ PlaceData(s))
    BY <1>1, <1>3, <2>2, OwnSteps
  <2>4. ~Quit(s) BY <1>1, <1>3, <2>2, ItQuits, OthersStay
  <2>5. PICK n \in {"file", "copy", "draw", "region", "dir"} : At(s, n) /\ (n = "copy" => Copy(s))
    BY <2>3 DEF CreateFile, Copy, Draw, AskRegion, PlaceData
  <2>6. Onward(old, new) /\ old.todo[1][1] = n /\ old.todo[1][2] = Arg(s) BY <2>3, <2>5, AdvanceIs, AtIs
  <2>7. Has(old.todo, <<"copy", k>>) => old.todo[1] = <<"copy", k>> \/ Has(new.todo, <<"copy", k>>) BY <2>6 DEF Onward
  <2>8. CASE old.todo[1] = <<"copy", k>> BY <2>6, <2>8, <2>4, <2>5, CopySettles
  <2>9. CASE file # NoFile /\ Settled(source, file, k)
    <3>1. CASE CreateFile(s) BY <2>4, <2>9, <3>1 DEF CreateFile, Settled
    <3>2. CASE Copy(s) BY <2>4, <2>9, <3>2, CopySettles
    <3>3. CASE Draw(s) \/ AskRegion(s) \/ PlaceData(s) BY <2>9, <3>3, TopUpSettles
    <3>4. QED BY <2>3, <3>1, <3>2, <3>3
  <2>10. QED BY <2>1, <2>7, <2>8, <2>9
<1>4. CASE Solo(s) /\ shell' = shell /\ (RestartMachine \/ UNCHANGED flyVars)
  BY <1>4, <1>1 DEF RestartMachine, flyVars, RefreshOnTrack, Settled
<1>5. QED BY <1>1, <1>2, <1>3, <1>4, SoloBy

\* What a report has said stands while nothing else happens.
LEMMA ReportStands ==
    ASSUME FlyShape, Alone, [FlyNext]_flyVars, reported' # "none"
    PROVE  \/ reported' = reported /\ (RestartMachine \/ UNCHANGED flyVars)
           \/ \E s \in Shells : Solo(s) /\ Report(s) /\ reported' = shell[s].cmd /\ shell[s].todo = <<>>
<1>1. ~OutsideStep BY DEF OutsideStep, EditSource, EditFile, EditTree, Commit, PushScorer, Outside
<1>2. \A s \in Shells, cmd \in Commands : ~Start(s, cmd) BY DEF Start
<1>3. ASSUME NEW s \in Shells, ShellStep(s) PROVE Solo(s) /\ Report(s) /\ reported' = shell[s].cmd /\ shell[s].todo = <<>>
  BY <1>3, OthersStay, ReportedBy DEF Alone, Report, Solo
<1>4. RestartMachine \/ UNCHANGED flyVars => reported' = reported BY DEF RestartMachine, flyVars, outside
<1>5. QED BY <1>1, <1>2, <1>3, <1>4 DEF FlyNext, OutsideStep, ShellStep

LEMMA RefreshSettlesStep ==
    ASSUME FlyShape, Alone, RefreshOnTrack, RefreshSettles, [FlyNext]_flyVars
    PROVE  RefreshSettles'
<1>1. SUFFICES ASSUME reported' = "refresh", NEW k \in ToSet(Copied) PROVE Settled(source', file', k)
  BY DEF RefreshSettles, Settled
<1>2. CASE reported' = reported /\ (RestartMachine \/ UNCHANGED flyVars)
  BY <1>2, <1>1 DEF RestartMachine, flyVars, RefreshSettles, Settled
<1>3. CASE \E s \in Shells : Solo(s) /\ Report(s) /\ reported' = shell[s].cmd /\ shell[s].todo = <<>>
  <2>1. PICK s \in Shells : Solo(s) /\ Report(s) /\ reported' = shell[s].cmd /\ shell[s].todo = <<>> BY <1>3
  <2>2. ~Has(shell[s].todo, <<"copy", k>>) BY <2>1 DEF Has
  <2>3. Settled(source, file, k) BY <1>1, <2>1, <2>2 DEF RefreshOnTrack
  <2>4. file' = file /\ source' = source BY <2>1 DEF Report
  <2>5. QED BY <2>3, <2>4 DEF Settled
<1>4. QED BY <1>1, <1>2, <1>3, ReportStands

\* A refresh that ends well, with nothing else at work meanwhile, has settled
\* every key it copies: what the source says, said once.
THEOREM RefreshesSettle == FlySpec => []RefreshSettles
<1> DEFINE Inv == RefreshOnTrack /\ RefreshSettles
<1>1. FlyInit => Inv BY DEF FlyInit, RefreshOnTrack, RefreshSettles, Solo, Runs
<1>2. FlyShape /\ Alone /\ Inv /\ [FlyNext]_flyVars => Inv' BY RefreshStep, RefreshSettlesStep
<1>3. QED BY <1>1, <1>2, CommandsKeepOrder, AloneHolds, PTL DEF FlySpec

\* What a deploy has before its last four steps, it has before all of them.
LEMMA ClosingsAhead ==
    ASSUME NEW sh, Shaped(sh), sh.todo # <<>>, 8 <= Rank(sh.todo[1][1])
    PROVE  /\ Ahead(sh.todo, "ship")
           /\ Rank(sh.todo[1][1]) <= 11 => Ahead(sh.todo, "pin")
           /\ Rank(sh.todo[1][1]) <= 12 => Ahead(sh.todo, "render")
           /\ Rank(sh.todo[1][1]) <= 13 => Ahead(sh.todo, "secrets")
<1> DEFINE t == sh.todo
           N == Len(t)
           r == Rank(t[1][1])
<1>1. t \in Seq(Steps) /\ Closing(t) BY DEF Shaped, WellFormed
<1>2. N \in Nat /\ N >= 1 /\ DOMAIN t = 1..N BY <1>1, TailIs
<1>3. r \in 8..15 BY RanksAre
<1> HIDE DEF t
<1>4. \A i \in DOMAIN t : IF N - i <= 3 THEN t[i] = Closings[4 - (N - i)] ELSE Rank(t[i][1]) <= 11
  BY <1>2, <1>1, <1>3 DEF Closing
<1> HIDE DEF N, r
<1>5. /\ Closings[1] = <<"pin", "-">> /\ Closings[2] = <<"render", "-">>
      /\ Closings[3] = <<"secrets", "-">> /\ Closings[4] = <<"ship", "-">>
  BY DEF Closings
<1>6. ASSUME NEW k \in 1..4, N >= 5 - k PROVE Ahead(t, Closings[k][1])
  <2> DEFINE i == N - (4 - k)
  <2>1. i \in DOMAIN t /\ N - i = 4 - k /\ 4 - k <= 3 /\ 4 - (4 - k) = k BY <1>2, <1>6
  <2>2. t[i] = Closings[k] BY <1>4, <2>1
  <2>3. QED BY <2>1, <2>2 DEF Ahead
<1>7. \A k \in 1..4 : N = 5 - k => r = 11 + k
  <2>1. TAKE k \in 1..4
  <2>2. ASSUME N = 5 - k PROVE r = 11 + k BY <1>2, <2>2, <1>4, <1>5, RanksOfNames, SMTT(40) DEF r
  <2>3. QED BY <2>2
<1>8. N >= 5 \/ N \in 1..4 BY <1>2
<1>9. N \in 1..4 => r = 16 - N
  <2>1. ASSUME N \in 1..4 PROVE r = 16 - N BY <2>1, <1>7
  <2>2. QED BY <2>1
<1>10. Ahead(t, "ship") BY <1>2, <1>5, <1>6
<1>11. r <= 11 => Ahead(t, "pin") BY <1>2, <1>3, <1>8, <1>9, <1>5, <1>6
<1>12. r <= 12 => Ahead(t, "render") BY <1>2, <1>3, <1>8, <1>9, <1>5, <1>6
<1>13. r <= 13 => Ahead(t, "secrets") BY <1>2, <1>3, <1>8, <1>9, <1>5, <1>6
<1>14. QED BY <1>10, <1>11, <1>12, <1>13 DEF t, r

\* A step of a deploy that goes on: what it does follows from its name.
LEMMA DeployGoes ==
    ASSUME FlyShape, NEW s \in Shells, ShellStep(s), Runs(s)', shell[s].cmd \in {"deploy", "redeploy"}
    PROVE  /\ Onward(shell[s], shell'[s]) /\ shell[s].todo # <<>> /\ Shaped(shell[s]) /\ ~Quit(s) /\ DeployStep(s)
           /\ file' = file /\ tree' = tree /\ upstream' = upstream
           /\ \A m : Ahead(shell[s].todo, m) => Rank(shell[s].todo[1][1]) <= Rank(m)
           /\ IF Check(s) THEN shell'[s].read = ReadOf(file) /\ shell'[s].stamp = Revision
              ELSE shell'[s].read = shell[s].read /\ shell'[s].stamp = shell[s].stamp
           /\ shell'[s].images = IF Pin(s) THEN registry ELSE shell[s].images
<1> DEFINE old == shell[s]
           n == old.todo[1][1]
<1>1. DeployStep(s) /\ (Advance(s) \/ (Check(s) /\ ~Quit(s)) \/ Pin(s)) BY OwnSteps
<1>2. ~Quit(s) BY ItQuits, OthersStay
<1>3. file' = file BY <1>1, DeployStepBeside
<1>4. \E m : At(s, m) BY <1>1 DEF DeployStep, Check, CreateApp, MakeVolume, Build, Mirror, Pin, Render, SetSecrets, Ship
<1>5. At(s, n) /\ old.todo # <<>> /\ Shaped(old) /\ \A m : Ahead(old.todo, m) => Rank(n) <= Rank(m) BY <1>4, AtIs
<1>6. CASE Check(s)
  <2>1. At(s, "check") /\ file # NoFile
        /\ shell' = [shell EXCEPT ![s].todo = Tail(@), ![s].read = ReadOf(file), ![s].stamp = Revision]
    BY <1>2, <1>6 DEF Check
  <2>2. Onward(old, shell'[s]) /\ shell'[s].read = ReadOf(file) /\ shell'[s].stamp = Revision BY <2>1, CheckIs
  <2>3. shell'[s].images = old.images BY <2>1, <1>5 DEF FlyShape, FlyTypeOK, Shaped, Shell
  <2>4. ~Pin(s) BY <2>1 DEF Pin, At
  <2>5. QED BY <1>1, <1>2, <1>3, <1>5, <1>6, <2>2, <2>3, <2>4, OthersStay
<1>7. CASE Pin(s) BY <1>7, <1>1, <1>2, <1>3, <1>5, PinIs, OthersStay DEF Pin, Check, At
<1>8. CASE Advance(s) /\ ~Check(s) /\ ~Pin(s) BY <1>1, <1>2, <1>3, <1>5, <1>8, AdvanceIs, OthersStay
<1>9. QED BY <1>1, <1>6, <1>7, <1>8

\* The name at the head of a deploy that goes on is that of its step.
LEMMA DeployNames ==
    ASSUME FlyShape, NEW s \in Shells, DeployStep(s)
    PROVE  LET n == shell[s].todo[1][1] IN
           /\ n = "check" <=> Check(s)
           /\ n = "pin" <=> Pin(s)
           /\ n = "render" <=> Render(s)
           /\ n = "secrets" <=> SetSecrets(s)
           /\ n = "ship" <=> Ship(s)
           /\ n = "build" <=> Build(s)
           /\ n = "mirror" <=> Mirror(s)
           /\ 8 <= Rank(n)
<1> DEFINE n == shell[s].todo[1][1]
<1>1. \A m : At(s, m) => m = n BY AtIs
<1>2. /\ Check(s) => n = "check"
      /\ CreateApp(s) => n = "app"
      /\ MakeVolume(s) => n = "volume"
      /\ Build(s) => n = "build"
      /\ Mirror(s) => n = "mirror"
      /\ Pin(s) => n = "pin"
      /\ Render(s) => n = "render"
      /\ SetSecrets(s) => n = "secrets"
      /\ Ship(s) => n = "ship"
  BY <1>1 DEF Check, CreateApp, MakeVolume, Build, Mirror, Pin, Render, SetSecrets, Ship
<1> HIDE DEF n
<1>3. 8 <= Rank(n) BY <1>2, RanksOfNames DEF DeployStep
<1>4. QED BY <1>2, <1>3 DEF DeployStep, n

\* The registry changes while there is something to build or to mirror, and so
\* with everything that closes a deploy ahead.
LEMMA RegistryStays ==
    ASSUME FlyShape, NEW s \in Shells, DeployStep(s), ~Ahead(shell[s].todo, "pin") \/ ~Ahead(shell[s].todo, "render")
                                                      \/ shell[s].todo[1][1] \in {"pin", "render", "secrets", "ship"}
    PROVE  registry' = registry
<1>1. registry' = registry \/ Build(s) \/ Mirror(s)
  BY DEF DeployStep, Check, CreateApp, MakeVolume, Pin, Render, SetSecrets, Ship, cloud
<1>2. ASSUME Build(s) \/ Mirror(s) PROVE FALSE
  <2>1. PICK n \in {"build", "mirror"} : At(s, n) BY <1>2 DEF Build, Mirror
  <2>2. Shaped(shell[s]) /\ shell[s].todo # <<>> /\ shell[s].todo[1][1] = n BY <2>1, AtIs
  <2>3. Rank(n) = 11 BY RanksOfNames
  <2>4. Ahead(shell[s].todo, "pin") /\ Ahead(shell[s].todo, "render") BY <2>2, <2>3, ClosingsAhead
  <2>5. QED BY <2>2, <2>4
<1>3. QED BY <1>1, <1>2

\* The parts of a deploy, each kept right by a step that goes on.
LEMMA ReadStaysRight ==
    ASSUME FlyShape, NEW s \in Shells, ShellStep(s), Runs(s)', shell[s].cmd \in {"deploy", "redeploy"}, Right(shell[s])
    PROVE  ReadRight(shell[s])'
<1> DEFINE old == shell[s]
           new == shell'[s]
<1>1. Onward(old, new) /\ DeployStep(s) /\ file' = file /\ tree' = tree BY DeployGoes
<1>2. ReadOf(file)' = ReadOf(file) /\ Revision' = Revision BY <1>1 DEF Revision
<1>3. CASE Check(s) BY <1>2, <1>3, DeployGoes DEF ReadRight
<1>4. CASE ~Check(s) BY <1>4, DeployGoes, <1>1, DeployNames, <1>2 DEF Onward, Right, ReadRight
<1>5. QED BY <1>3, <1>4

LEMMA BuiltStaysRight ==
    ASSUME FlyShape, NEW s \in Shells, ShellStep(s), Runs(s)', shell[s].cmd \in {"deploy", "redeploy"}, Right(shell[s])
    PROVE  BuiltRight(shell[s])'
<1> DEFINE old == shell[s]
           new == shell'[s]
           Fresh == [of |-> tree.content, stamp |-> Revision]
<1>1. Onward(old, new) /\ DeployStep(s) /\ tree' = tree /\ upstream' = upstream /\ new.cmd = old.cmd
  BY DeployGoes DEF Onward
<1>2. Revision' = Revision BY <1>1 DEF Revision
<1>3. SUFFICES ASSUME old.cmd = "deploy"
               PROVE  /\ \A i \in {"app", "sync"} : Has(new.todo, <<"build", i>>) \/ registry'[i] = Fresh
                      /\ Ahead(new.todo, "mirror") \/ registry'["scorer"].of = upstream
  BY <1>1, <1>2 DEF BuiltRight
<1>4. /\ \A i \in {"app", "sync"} : Has(old.todo, <<"build", i>>) \/ registry[i] = Fresh
      /\ Ahead(old.todo, "mirror") \/ registry["scorer"].of = upstream
  BY <1>3 DEF Right, BuiltRight
<1>5. registry \in [Images -> Item] /\ Images = {"app", "sync", "scorer"} BY DEF FlyShape, FlyTypeOK, Images
<1>6. CASE Build(s)
  <2>1. /\ At(s, "build") /\ registry' = [registry EXCEPT ![Arg(s)] = [of |-> tree.content, stamp |-> old.stamp]]
    BY <1>6 DEF Build
  <2>2. old.todo[1] \in Steps /\ old.todo[1][1] = "build" /\ old.todo[1][2] = Arg(s) /\ Named(old.todo[1])
        /\ ~Ahead(old.todo, "check")
    BY <2>1, AtIs, RanksOfNames
  <2>3. old.stamp = Revision BY <2>2 DEF Right, ReadRight
  <2>4. Arg(s) \in {"app", "sync"} BY <2>1, ArgIs
  <2>5. \A i \in {"app", "sync"} : old.todo[1] = <<"build", i>> => i = Arg(s) BY <2>2
  <2>6. \A i \in {"app", "sync"} : registry'[i] = IF i = Arg(s) THEN Fresh ELSE registry[i] BY <1>5, <2>1, <2>3, <2>4
  <2>7. registry'["scorer"] = registry["scorer"] BY <1>5, <2>1, <2>4
  <2>8. \A i \in {"app", "sync"} : Has(new.todo, <<"build", i>>) \/ registry'[i] = Fresh
    BY <1>1, <1>4, <2>5, <2>6 DEF Onward
  <2>9. Ahead(new.todo, "mirror") \/ registry'["scorer"].of = upstream BY <1>1, <1>4, <2>2, <2>7 DEF Onward
  <2>10. QED BY <2>8, <2>9
<1>7. CASE ~Build(s)
  <2>1. old.todo[1][1] # "build" BY <1>1, <1>7, DeployNames
  <2>2. \A i \in {"app", "sync"} : registry'[i] = registry[i]
    <3>1. registry' = registry \/ registry' = [registry EXCEPT !["scorer"] = [of |-> upstream, stamp |-> Unknown]]
      BY <1>1, <1>7 DEF DeployStep, Check, CreateApp, MakeVolume, Pin, Render, SetSecrets, Ship, cloud, Mirror
    <3>2. QED BY <1>5, <3>1
  <2>3. \A i \in {"app", "sync"} : Has(new.todo, <<"build", i>>) \/ registry'[i] = Fresh
    BY <1>1, <2>1, <1>4, <2>2 DEF Onward
  <2>4. Ahead(new.todo, "mirror") \/ registry'["scorer"].of = upstream
    <3>1. CASE Mirror(s) BY <1>5, <3>1 DEF Mirror
    <3>2. CASE ~Mirror(s)
      <4>1. registry' = registry
        BY <1>1, <1>7, <3>2 DEF DeployStep, Check, CreateApp, MakeVolume, Pin, Render, SetSecrets, Ship, cloud
      <4>2. old.todo[1][1] # "mirror" BY <1>1, <3>2, DeployNames
      <4>3. QED BY <1>1, <1>4, <4>1, <4>2 DEF Onward
    <3>3. QED BY <3>1, <3>2
  <2>5. QED BY <2>3, <2>4
<1>8. QED BY <1>6, <1>7

LEMMA PinnedStaysRight ==
    ASSUME FlyShape, NEW s \in Shells, ShellStep(s), Runs(s)', shell[s].cmd \in {"deploy", "redeploy"}, Right(shell[s])
    PROVE  PinnedRight(shell[s])'
<1> DEFINE old == shell[s]
           new == shell'[s]
<1>1. Onward(old, new) /\ DeployStep(s) /\ new.images = IF Pin(s) THEN registry ELSE old.images BY DeployGoes
<1>2. SUFFICES ASSUME ~Ahead(new.todo, "pin") PROVE new.images = registry' BY DEF PinnedRight
<1>3. CASE Pin(s) BY <1>3, <1>1 DEF Pin, cloud
<1>4. CASE ~Pin(s) BY <1>1, <1>2, <1>4, DeployNames, RegistryStays DEF Onward, Right, PinnedRight
<1>5. QED BY <1>3, <1>4

LEMMA RenderedStaysRight ==
    ASSUME FlyShape, NEW s \in Shells, ShellStep(s), Runs(s)', shell[s].cmd \in {"deploy", "redeploy"}, Right(shell[s])
    PROVE  RenderedRight(shell[s])'
<1> DEFINE old == shell[s]
           new == shell'[s]
<1>1. Onward(old, new) /\ DeployStep(s) /\ file' = file /\ ~Quit(s) BY DeployGoes
<1>2. SUFFICES ASSUME Ahead(new.todo, "ship"), ~Ahead(new.todo, "render"), rendered' # NoFile
               PROVE  rendered'.env = EnvOf(file) /\ rendered'.image = registry'
  BY <1>1 DEF RenderedRight, EnvOf
<1>3. ~Ship(s) BY AtIs, <1>1, ClosingsFollow, <1>2 DEF Ship, Ahead
<1>4. CASE Render(s) BY <1>1, <1>4, AtIs, RanksOfNames DEF Render, cloud, Right, PinnedRight, Rendering
<1>5. CASE ~Render(s)
  <2>1. ~Ahead(old.todo, "render") /\ Ahead(old.todo, "ship") BY <1>1, <1>2, <1>5, DeployNames DEF Onward
  <2>2. rendered' = rendered
    BY <1>1, <1>3, <1>5 DEF DeployStep, Check, CreateApp, MakeVolume, Build, Mirror, Pin, SetSecrets
  <2>3. registry' = registry BY <1>1, <2>1, RegistryStays
  <2>4. QED BY <1>2, <2>1, <2>2, <2>3 DEF Right, RenderedRight
<1>6. QED BY <1>4, <1>5

LEMMA ShippedStaysRight ==
    ASSUME FlyShape, NEW s \in Shells, ShellStep(s), Runs(s)', shell[s].cmd \in {"deploy", "redeploy"}, Right(shell[s])
    PROVE  ShippedRight(shell[s])'
<1> DEFINE old == shell[s]
           new == shell'[s]
<1>1. Onward(old, new) /\ DeployStep(s) /\ file' = file /\ ~Quit(s) /\ old.todo # <<>> /\ Shaped(old) BY DeployGoes
<1>2. SUFFICES ASSUME ~Ahead(new.todo, "ship")
               PROVE  machine'.env = EnvOf(file) /\ machine'.image = registry'
  BY <1>1 DEF ShippedRight, EnvOf
<1>3. Ahead(old.todo, "ship") BY <1>1, DeployNames, ClosingsAhead
<1>4. Ship(s) BY <1>1, <1>2, <1>3, DeployNames DEF Onward
<1>5. /\ Deployable(s) /\ registry' = registry /\ At(s, "ship") /\ machine'.env = rendered.env
      /\ machine'.image = [i \in Images |-> IF i \in rendered.pinned THEN rendered.image[i] ELSE registry[i]]
  BY <1>1, <1>4 DEF Ship
<1>6. ~Ahead(old.todo, "render") BY <1>5, AtIs, RanksOfNames
<1>7. rendered.env = EnvOf(file) /\ rendered.image = registry BY <1>3, <1>5, <1>6 DEF Right, RenderedRight, Deployable
<1>8. registry \in [Images -> Item] BY DEF FlyShape, FlyTypeOK
<1>9. machine'.image = registry BY <1>5, <1>7, <1>8
<1>10. QED BY <1>5, <1>7, <1>9

LEMMA SecretsStayRight ==
    ASSUME FlyShape, NEW s \in Shells, ShellStep(s), Runs(s)', shell[s].cmd \in {"deploy", "redeploy"}, Right(shell[s])
    PROVE  SecretsRight(shell[s])'
<1> DEFINE old == shell[s]
           new == shell'[s]
           Set == [k \in Secrets |-> Live(file, k)]
<1>1. Onward(old, new) /\ DeployStep(s) /\ file' = file BY DeployGoes
<1>2. SUFFICES ASSUME ~Ahead(new.todo, "secrets") PROVE hosting'.secrets = Set BY <1>1 DEF SecretsRight
<1>3. PICK made, volumes, secrets : hosting = [made |-> made, volumes |-> volumes, secrets |-> secrets]
  BY DEF FlyShape, FlyTypeOK
<1>4. CASE SetSecrets(s) BY <1>4, AtIs, RanksOfNames, <1>3 DEF SetSecrets, Right, ReadRight, ReadOf, Tokens
<1>5. CASE ~SetSecrets(s)
  <2>1. ~Ahead(old.todo, "secrets") BY <1>1, <1>2, <1>5, DeployNames DEF Onward
  <2>2. hosting'.secrets = hosting.secrets
    <3>1. hosting' = hosting \/ CreateApp(s) \/ MakeVolume(s)
      BY <1>1, <1>5 DEF DeployStep, Check, Build, Mirror, Pin, Render, Ship, cloud
    <3>2. QED BY <1>3, <3>1 DEF CreateApp, MakeVolume
  <2>3. QED BY <2>1, <2>2 DEF Right, SecretsRight
<1>6. QED BY <1>4, <1>5

LEMMA DeployOnTrackStep ==
    ASSUME FlyShape, Alone, Boxes, DeployOnTrack, [FlyNext]_flyVars
    PROVE  DeployOnTrack'
<1>1. SUFFICES ASSUME NEW s \in Shells, Solo(s)', shell'[s].cmd \in {"deploy", "redeploy"} PROVE Right(shell[s])'
  BY DEF DeployOnTrack
<1>2. CASE \E cmd \in Commands : Start(s, cmd)
  <2>1. PICK cmd \in Commands : Start(s, cmd) BY <1>2
  <2>2. cmd = shell'[s].cmd /\ shell'[s].todo = StepsFor(cmd) BY <2>1, StartIs
  <2>3. PICK builds \in {Builds, <<>>} : StepsFor(cmd) = DeploySteps(builds) /\ (cmd = "deploy" => builds = Builds)
    BY <1>1, <2>2 DEF StepsFor
  <2>4. /\ \A n \in {"check", "pin", "render", "secrets", "ship"} : Ahead(shell'[s].todo, n)
        /\ cmd = "deploy" => /\ \A i \in {"app", "sync"} : Has(shell'[s].todo, <<"build", i>>)
                             /\ Ahead(shell'[s].todo, "mirror")
    BY <2>2, <2>3, DeployScript
  <2>5. QED BY <2>2, <2>4 DEF Right, ReadRight, BuiltRight, PinnedRight, RenderedRight, ShippedRight, SecretsRight
<1>3. CASE Solo(s) /\ ShellStep(s) /\ shell'[s].cmd = shell[s].cmd
  <2>1. Right(shell[s]) /\ Runs(s)' /\ shell[s].cmd \in {"deploy", "redeploy"} BY <1>1, <1>3 DEF DeployOnTrack, Solo
  <2>2. QED
    BY <1>3, <2>1, ReadStaysRight, BuiltStaysRight, PinnedStaysRight, RenderedStaysRight, ShippedStaysRight,
       SecretsStayRight DEF Right
<1>4. CASE Solo(s) /\ shell' = shell /\ (RestartMachine \/ UNCHANGED flyVars)
  <2>1. Right(shell[s]) BY <1>1, <1>4 DEF DeployOnTrack
  <2>2. /\ file' = file /\ tree' = tree /\ upstream' = upstream /\ registry' = registry /\ hosting' = hosting
        /\ rendered' = rendered
    BY <1>4 DEF RestartMachine, outside, flyVars
  <2>3. /\ ReadOf(file)' = ReadOf(file) /\ EnvOf(file)' = EnvOf(file) /\ Revision' = Revision
    BY <2>2 DEF Revision
  <2>4. ReadRight(shell[s])' /\ BuiltRight(shell[s])' /\ PinnedRight(shell[s])'
    BY <1>4, <2>1, <2>2, <2>3 DEF Right, ReadRight, BuiltRight, PinnedRight
  <2>5. RenderedRight(shell[s])' /\ SecretsRight(shell[s])'
    BY <1>4, <2>1, <2>2, <2>3 DEF Right, RenderedRight, SecretsRight
  <2>6. ShippedRight(shell[s])'
    <3>1. CASE RestartMachine
      <4>1. machine \in Box /\ registry \in [Images -> Item]
        BY <3>1 DEF RestartMachine, Boxes, MachineSound, FlyShape, FlyTypeOK
      <4> DEFINE now == [i \in Images |-> IF i \in machine.pinned THEN machine.image[i] ELSE registry[i]]
      <4>2. machine' = [machine EXCEPT !.image = now] BY <3>1 DEF RestartMachine
      <4>3. machine.image = registry => now = registry BY <4>1
      <4> HIDE DEF now
      <4>4. machine'.env = machine.env /\ machine'.image = now BY <4>1, <4>2 DEF Box
      <4>5. QED BY <1>4, <2>1, <2>2, <2>3, <4>3, <4>4 DEF Right, ShippedRight
    <3>2. CASE UNCHANGED flyVars BY <1>4, <2>1, <2>2, <2>3, <3>2 DEF Right, ShippedRight, flyVars
    <3>3. QED BY <1>4, <3>1, <3>2
  <2>7. QED BY <2>4, <2>5, <2>6 DEF Right
<1>5. QED BY <1>1, <1>2, <1>3, <1>4, SoloBy

\* What a deploy that has ended well leaves there.
Written(cmd) ==
    /\ machine.env = EnvOf(file) /\ machine.image = registry
    /\ hosting.secrets = [k \in Secrets |-> Live(file, k)]
    /\ cmd = "deploy" => /\ \A i \in {"app", "sync"} : registry[i] = [of |-> tree.content, stamp |-> Revision]
                         /\ registry["scorer"].of = upstream
DeployWritten == reported \in {"deploy", "redeploy"} => Written(reported)

LEMMA DeployWrittenStep ==
    ASSUME FlyShape, Alone, Boxes, DeployOnTrack, DeployWritten, [FlyNext]_flyVars
    PROVE  DeployWritten'
<1>1. SUFFICES ASSUME reported' \in {"deploy", "redeploy"} PROVE Written(reported)' BY DEF DeployWritten
<1>2. CASE reported' = reported /\ (RestartMachine \/ UNCHANGED flyVars)
  <2>1. Written(reported) BY <1>1, <1>2 DEF DeployWritten
  <2>2. /\ file' = file /\ tree' = tree /\ upstream' = upstream /\ registry' = registry /\ hosting' = hosting
    BY <1>2 DEF RestartMachine, outside, flyVars
  <2>3. EnvOf(file)' = EnvOf(file) /\ Revision' = Revision BY <2>2 DEF Revision
  <2>4. machine'.env = machine.env /\ machine'.image = registry
    <3>1. CASE RestartMachine
      BY <3>1, <2>1 DEF RestartMachine, Boxes, MachineSound, FlyShape, FlyTypeOK, Written, Box
    <3>2. CASE UNCHANGED flyVars BY <2>1, <3>2 DEF Written, flyVars
    <3>3. QED BY <1>2, <3>1, <3>2
  <2>5. QED BY <1>2, <2>1, <2>2, <2>3, <2>4 DEF Written
<1>3. CASE \E s \in Shells : Solo(s) /\ Report(s) /\ reported' = shell[s].cmd /\ shell[s].todo = <<>>
  <2>1. PICK s \in Shells : Solo(s) /\ Report(s) /\ reported' = shell[s].cmd /\ shell[s].todo = <<>> BY <1>3
  <2>2. (\A n : ~Ahead(shell[s].todo, n)) /\ \A step : ~Has(shell[s].todo, step) BY <2>1 DEF Has, Ahead
  <2>3. Right(shell[s]) BY <1>1, <2>1 DEF DeployOnTrack
  <2>4. Written(shell[s].cmd)
    BY <2>2, <2>3 DEF Right, ReadRight, BuiltRight, PinnedRight, ShippedRight, SecretsRight, Written
  <2>5. /\ file' = file /\ tree' = tree /\ upstream' = upstream /\ registry' = registry /\ hosting' = hosting
        /\ machine' = machine
    BY <2>1 DEF Report, outside, cloud
  <2>6. EnvOf(file)' = EnvOf(file) /\ Revision' = Revision BY <2>5 DEF Revision
  <2>7. QED BY <2>1, <2>4, <2>5, <2>6 DEF Written
<1>4. QED BY <1>1, <1>2, <1>3, ReportStands

\* A deploy that ends well, nothing else having moved, has put all of the env
\* file on the machine, with its secrets and the registry's images, and where it
\* builds the checkout and the scorer of the day.
THEOREM DeploysAsWritten == FlySpec => []DeployedAsWritten
<1> DEFINE Inv == DeployOnTrack /\ DeployWritten
<1>1. FlyInit => Inv BY DEF FlyInit, DeployOnTrack, DeployWritten, Solo, Runs
<1>2. FlyShape /\ Alone /\ Boxes /\ Inv /\ [FlyNext]_flyVars => Inv' BY DeployOnTrackStep, DeployWrittenStep
<1>3. FlyShape /\ DeployWritten => DeployedAsWritten
  BY KeysAre, CopiedAre DEF DeployedAsWritten, DeployWritten, Secrets, Keys, Kept, Written, EnvOf
<1>4. QED BY <1>1, <1>2, <1>3, CommandsKeepOrder, AloneHolds, BoxesHold, PTL DEF FlySpec

-----------------------------------------------------------------------------
(* The wizard's answers. *)

Answering(s) == Runs(s) /\ shell[s].cmd = "wizard" /\ ~shell[s].calls

\* Where in its questions a wizard is, by what it has still to write.
Opens(todo, step) == todo # <<>> /\ todo[1] = step
Quiet(todo) == ~Ahead(todo, "basics") /\ \A k \in Answered : ~Has(todo, <<"set", k>>)
AtUrl(todo) == Opens(todo, <<"set", "url">>) /\ Quiet(Tail(todo))
AtScore(todo, asked) == Opens(todo, <<"set", "score">>) /\ IF asked THEN Quiet(Tail(todo)) ELSE AtUrl(Tail(todo))
AtAdmins(todo, asked) == Opens(todo, <<"set", "admins">>) /\ AtScore(Tail(todo), asked)
AtOrg(todo, asked) == Opens(todo, <<"set", "org">>) /\ AtAdmins(Tail(todo), asked)
AtBasics(todo) == Opens(todo, <<"basics", "-">>) /\ Quiet(Tail(todo))
AtFirst(todo) == Opens(todo, <<"set", "url">>) /\ AtBasics(Tail(todo))

\* A wizard that has begun to write answers writes the rest of them.
Writing(todo, asked) == AtAdmins(todo, asked) \/ AtScore(todo, asked) \/ (~asked /\ AtUrl(todo))
Phase(todo, asked) ==
    \/ todo = WizardSteps /\ ~asked
    \/ AtBasics(todo)
    \/ asked /\ AtFirst(todo)
    \/ AtOrg(todo, asked)
    \/ Writing(todo, asked)
    \/ Quiet(todo)

\* What the file says is what the organizer answers, or an interrupt kept it from
\* saying it.
Given(k) == Live(source, k) = wish[k] \/ (k \in {"score", "url"} /\ k \in unsaid)
AllGiven == \A k \in Answered : Given(k)
\* What has been written where a wizard is.
WrittenSoFar(todo, asked) ==
    /\ AtAdmins(todo, asked) => Given("org")
    /\ AtScore(todo, asked) => Given("org") /\ Given("admins")
    /\ ~asked /\ AtUrl(todo) => Given("org") /\ Given("admins") /\ Given("score")
    /\ asked => AtFirst(todo) \/ Given("url")

Wizardly == chance["wizard"] > 0 \/ (\E s \in Shells : Runs(s) /\ shell[s].cmd = "wizard") \/ reported = "wizard"
Unspoken ==
    /\ chance["edits"] = 0 /\ wish["url"] # Blank
    /\ source # NoFile => \A k \in Answered \ {"url"} : Live(source, k) \in {Blank, wish[k]}
Answers ==
    \A s \in Shells : Answering(s) => /\ Phase(shell[s].todo, shell[s].asked)
                                      /\ WrittenSoFar(shell[s].todo, shell[s].asked)
\* What has been answered is not asked again: a file that has the basics says
\* all of it, or a wizard is about to.
BasicsCount ==
    source # NoFile /\ BasicsDone(source) =>
        AllGiven \/ \E s \in Shells : Answering(s) /\ Writing(shell[s].todo, shell[s].asked)
\* A wizard alone that asks no more has all its answers there.
AloneAnswered ==
    \A s \in Shells : Solo(s) /\ shell[s].cmd = "wizard" /\ (shell[s].calls \/ Quiet(shell[s].todo)) => AllGiven
WizardInv == Wizardly => Unspoken /\ Answers /\ BasicsCount /\ AloneAnswered /\ WizardKeepsAnswers

\* The head of a wizard's steps says where it is.
LEMMA PhaseIs ==
    ASSUME NEW todo \in Seq(Steps), todo # <<>>, NEW asked \in BOOLEAN, Phase(todo, asked)
    PROVE  /\ todo[1] = <<"set", "org">> => AtOrg(todo, asked)
           /\ todo[1] = <<"set", "admins">> => AtAdmins(todo, asked)
           /\ todo[1] = <<"set", "score">> => AtScore(todo, asked)
           /\ todo[1] = <<"set", "url">> => IF asked THEN AtFirst(todo) ELSE AtUrl(todo)
           /\ todo[1] = <<"basics", "-">> => AtBasics(todo)
           /\ (todo[1] # <<"basics", "-">> /\ \A k \in Answered : todo[1] # <<"set", k>>) => todo = WizardSteps \/ Quiet(todo)
<1>1. 1 \in DOMAIN todo BY TailIs
<1>2. \A k \in Answered : todo[1] = <<"set", k>> => ~Quiet(todo) BY <1>1 DEF Quiet, Has
<1>3. todo[1] = <<"basics", "-">> => ~Quiet(todo) BY <1>1 DEF Quiet, Ahead
<1>4. todo = WizardSteps => todo[1] = <<"create", "-">> BY DEF WizardSteps
<1>5. /\ \A step : Opens(todo, step) <=> todo[1] = step
      /\ {"org", "admins", "score", "url"} = Answered
  BY DEF Opens, Answered
<1>6. QED BY <1>2, <1>3, <1>4, <1>5 DEF Phase, Writing, AtBasics, AtFirst, AtOrg, AtAdmins, AtScore, AtUrl

\* No two places are one.
LEMMA NotQuiet ==
    ASSUME NEW todo \in Seq(Steps), NEW asked \in BOOLEAN
    PROVE  /\ AtBasics(todo) \/ AtFirst(todo) \/ AtOrg(todo, asked) \/ AtAdmins(todo, asked) \/ AtScore(todo, asked)
              \/ AtUrl(todo) \/ todo = WizardSteps => ~Quiet(todo)
           /\ AtBasics(todo) \/ AtOrg(todo, asked) \/ (asked /\ AtFirst(todo)) \/ Quiet(todo) => ~Writing(todo, asked)
           /\ Writing(todo, asked) => todo # <<>> /\ \E k \in {"admins", "score", "url"} : todo[1] = <<"set", k>> /\ (k = "url" => ~asked)
           /\ todo = <<>> => Quiet(todo)
<1>1. todo # <<>> => 1 \in DOMAIN todo BY TailIs
<1>2. \A k \in Answered : Opens(todo, <<"set", k>>) => ~Quiet(todo) BY <1>1 DEF Quiet, Has, Opens
<1>3. Opens(todo, <<"basics", "-">>) => ~Quiet(todo) BY <1>1 DEF Quiet, Ahead, Opens
<1>4. todo = WizardSteps => ~Quiet(todo) BY DEF WizardSteps, Quiet, Ahead
<1>5. todo = <<>> => Quiet(todo) BY DEF Quiet, Ahead, Has
<1>6. {"org", "admins", "score", "url"} = Answered BY DEF Answered
<1>7. AtBasics(todo) \/ AtFirst(todo) \/ AtOrg(todo, asked) \/ AtAdmins(todo, asked) \/ AtScore(todo, asked) \/ AtUrl(todo)
        => ~Quiet(todo)
  BY <1>2, <1>3, <1>6 DEF AtBasics, AtFirst, AtOrg, AtAdmins, AtScore, AtUrl
<1>8. Writing(todo, asked) => ~Quiet(todo) BY <1>7 DEF Writing
<1>9. Writing(todo, asked) => todo # <<>> /\ \E k \in {"admins", "score", "url"} : todo[1] = <<"set", k>> /\ (k = "url" => ~asked)
  BY DEF Writing, AtAdmins, AtScore, AtUrl, Opens
<1>10. AtBasics(todo) \/ AtOrg(todo, asked) \/ (asked /\ AtFirst(todo)) => ~Writing(todo, asked)
  BY <1>9 DEF AtBasics, AtOrg, AtFirst, Opens
<1>11. QED BY <1>4, <1>5, <1>7, <1>8, <1>10, <1>9

LEMMA QuietTail ==
    ASSUME NEW todo \in Seq(Steps), todo # <<>>, Quiet(todo)
    PROVE  Quiet(Tail(todo))
BY TailAhead DEF Quiet

\* A step before others comes off again.
LEMMA PrependIs ==
    ASSUME NEW step \in Steps, NEW q \in Seq(Steps)
    PROVE  /\ <<step>> \o q \in Seq(Steps) /\ <<step>> \o q # <<>> /\ (<<step>> \o q)[1] = step
           /\ Tail(<<step>> \o q) = q
BY JoinIs, TailIs

\* The wizard's first steps, and those its basics lead to.
LEMMA TailFrom ==
    ASSUME NEW t \in Seq(Steps), NEW n \in Nat, Len(t) = n + 1
    PROVE  /\ t # <<>> /\ Tail(t) \in Seq(Steps) /\ Len(Tail(t)) = n /\ DOMAIN Tail(t) = 1..n
           /\ \A i \in 1..n : Tail(t)[i] = t[i + 1]
OBVIOUS

LEMMA BasicsOpen ==
    ASSUME NEW t \in Seq(Steps), Len(t) = 6, t[2] = <<"basics", "-">>,
           \A i \in 3..6 : t[i][1] \in {"configure", "org", "fly"}
    PROVE  AtBasics(Tail(t)) /\ Tail(t) \in Seq(Steps)
<1> DEFINE rest == Tail(t)
<1>1. 5 \in Nat /\ Len(t) = 5 + 1 OBVIOUS
<1>2. rest \in Seq(Steps) /\ Len(rest) = 5 /\ \A i \in 1..5 : rest[i] = t[i + 1] BY <1>1, TailFrom
<1> HIDE DEF rest
<1>3. rest[1] = <<"basics", "-">> BY <1>2
<1>4. 4 \in Nat /\ Len(rest) = 4 + 1 BY <1>2
<1>5. rest # <<>> /\ DOMAIN Tail(rest) = 1..4 /\ \A i \in 1..4 : Tail(rest)[i] = rest[i + 1] BY <1>2, <1>4, TailFrom
<1> DEFINE last == Tail(rest)
<1> HIDE DEF last
<1>6. \A i \in DOMAIN last : last[i][1] \in {"configure", "org", "fly"} BY <1>5, <1>2 DEF last
<1>7. Quiet(last) BY <1>6 DEF Quiet, Ahead, Has
<1>8. QED BY <1>2, <1>3, <1>5, <1>7 DEF AtBasics, Opens, rest, last

LEMMA WizardOpens ==
    /\ AtBasics(Tail(WizardSteps)) /\ Tail(WizardSteps) \in Seq(Steps)
    /\ AtFirst(<<<<"set", "url">>>> \o Tail(WizardSteps))
<1>1. WizardSteps \in Seq(Steps) BY WizardScript DEF Script
<1>2. /\ Len(WizardSteps) = 6 /\ WizardSteps[2] = <<"basics", "-">> /\ WizardSteps[3] = <<"configure", "app">>
      /\ WizardSteps[4] = <<"configure", "oauth">> /\ WizardSteps[5] = <<"org", "-">> /\ WizardSteps[6] = <<"fly", "-">>
  BY DEF WizardSteps
<1>7. \A i \in 3..6 : WizardSteps[i][1] \in {"configure", "org", "fly"} BY <1>2
<1>3. AtBasics(Tail(WizardSteps)) /\ Tail(WizardSteps) \in Seq(Steps) BY <1>1, <1>2, <1>7, BasicsOpen
<1>4. <<"set", "url">> \in Steps BY DEF Steps, Asked, Answered
<1>5. AtFirst(<<<<"set", "url">>>> \o Tail(WizardSteps)) BY <1>3, <1>4, PrependIs DEF AtFirst, Opens
<1>6. QED BY <1>3, <1>5

LEMMA JoinAssociates ==
    ASSUME NEW a \in Seq(Steps), NEW b \in Seq(Steps), NEW c \in Seq(Steps)
    PROVE  (a \o b) \o c = a \o (b \o c)
OBVIOUS

LEMMA PrependThree ==
    ASSUME NEW x \in Steps, NEW y \in Steps, NEW z \in Steps, NEW q \in Seq(Steps)
    PROVE  <<x, y, z>> \o q = <<x>> \o (<<y>> \o (<<z>> \o q))
<1>1. <<x>> \in Seq(Steps) /\ <<y>> \in Seq(Steps) /\ <<z>> \in Seq(Steps) OBVIOUS
<1>2. <<y>> \o <<z>> \in Seq(Steps) /\ <<z>> \o q \in Seq(Steps) OBVIOUS
<1>3. <<x, y, z>> = <<x>> \o (<<y>> \o <<z>>)
  <2>1. ASSUME NEW v \in Seq(Steps), Len(v) = 3, v[1] = x, v[2] = y, v[3] = z PROVE v = <<x, y, z>>
    <3>1. <<x, y, z>> \in Seq(Steps) /\ Len(<<x, y, z>>) = 3 OBVIOUS
    <3>2. \A i \in 1..3 : v[i] = <<x, y, z>>[i] BY <2>1
    <3>3. QED BY <2>1, <3>1, <3>2
  <2> DEFINE w == <<y>> \o <<z>>
  <2>2. w \in Seq(Steps) /\ Len(w) = 2 /\ w[1] = y /\ w[2] = z OBVIOUS
  <2> HIDE DEF w
  <2> DEFINE u == <<x>>
             v == u \o w
  <2>6. u \in Seq(Steps) /\ Len(u) = 1 /\ u[1] = x OBVIOUS
  <2> HIDE DEF u
  <2>3. v \in Seq(Steps) /\ Len(v) = 3 /\ v[1] = x /\ v[2] = w[1] /\ v[3] = w[2]
    <3>1. /\ v \in Seq(Steps) /\ Len(v) = Len(u) + Len(w)
          /\ \A i \in 1..Len(u) : v[i] = u[i]
          /\ \A i \in 1..Len(w) : v[Len(u) + i] = w[i]
      BY <2>2, <2>6, JoinIs
    <3> HIDE DEF v
    <3>2. 1 \in 1..Len(u) /\ 1 \in 1..Len(w) /\ 2 \in 1..Len(w) BY <2>2, <2>6
    <3>3. v[1] = u[1] /\ v[Len(u) + 1] = w[1] /\ v[Len(u) + 2] = w[2] BY <3>1, <3>2
    <3>4. Len(u) + 1 = 2 /\ Len(u) + 2 = 3 /\ Len(u) + Len(w) = 3 BY <2>2, <2>6
    <3>5. QED BY <2>6, <3>1, <3>3, <3>4
  <2> HIDE DEF v
  <2>4. v = <<x, y, z>> BY <2>1, <2>2, <2>3
  <2>5. QED BY <2>4 DEF u, v, w
<1>4. (<<x>> \o (<<y>> \o <<z>>)) \o q = <<x>> \o ((<<y>> \o <<z>>) \o q) BY <1>1, <1>2, JoinAssociates
<1>5. (<<y>> \o <<z>>) \o q = <<y>> \o (<<z>> \o q) BY <1>1, <1>2, JoinAssociates
<1>6. QED BY <1>3, <1>4, <1>5

LEMMA OrgOpens ==
    ASSUME NEW rest \in Seq(Steps), Quiet(rest), NEW asked \in BOOLEAN
    PROVE  AtOrg((<<<<"set", "org">>, <<"set", "admins">>, <<"set", "score">>>>
                     \o (IF asked THEN <<>> ELSE <<<<"set", "url">>>>)) \o rest, asked)
<1> DEFINE three == <<<<"set", "org">>, <<"set", "admins">>, <<"set", "score">>>>
           last == IF asked THEN <<>> ELSE <<<<"set", "url">>>>
           t == (three \o last) \o rest
           one == <<<<"set", "score">>>> \o (last \o rest)
           two == <<<<"set", "admins">>>> \o one
<1>1. <<"set", "org">> \in Steps /\ <<"set", "admins">> \in Steps /\ <<"set", "score">> \in Steps /\ <<"set", "url">> \in Steps
  BY DEF Steps, Asked, Answered
<1>2. last \in Seq(Steps) /\ last \o rest \in Seq(Steps) BY <1>1
<1>3. one \in Seq(Steps) /\ two \in Seq(Steps) BY <1>1, <1>2, PrependIs
<1>4. IF asked THEN last \o rest = rest ELSE AtUrl(last \o rest)
  <2>1. CASE asked BY <2>1
  <2>2. CASE ~asked BY <1>1, <2>2, PrependIs DEF AtUrl, Opens
  <2>3. QED BY <2>1, <2>2
<1> HIDE DEF last
<1>5. AtScore(one, asked) BY <1>1, <1>2, <1>4, PrependIs DEF AtScore, Opens
<1>6. AtAdmins(two, asked) BY <1>1, <1>3, <1>5, PrependIs DEF AtAdmins, Opens
<1>7. AtOrg(<<<<"set", "org">>>> \o two, asked) BY <1>1, <1>3, <1>6, PrependIs DEF AtOrg, Opens
<1>8. t = <<<<"set", "org">>>> \o two
  <2>1. three \in Seq(Steps) BY <1>1
  <2>2. t = three \o (last \o rest) BY <1>2, <2>1, JoinAssociates
  <2>3. three \o (last \o rest) = <<<<"set", "org">>>> \o two
    <3>1. ASSUME NEW x \in Steps, NEW y \in Steps, NEW z \in Steps, NEW q \in Seq(Steps)
          PROVE  <<x, y, z>> \o q = <<x>> \o (<<y>> \o (<<z>> \o q))
      BY PrependThree, SMTT(40)
    <3> DEFINE q == last \o rest
    <3>2. q \in Seq(Steps) BY <1>2
    <3> HIDE DEF q
    <3> DEFINE x == <<"set", "org">>
               y == <<"set", "admins">>
               z == <<"set", "score">>
    <3>3. x \in Steps /\ y \in Steps /\ z \in Steps /\ three = <<x, y, z>> BY <1>1
    <3> HIDE DEF x, y, z, three
    <3>4. three \o q = <<x>> \o (<<y>> \o (<<z>> \o q)) BY <3>1, <3>2, <3>3, SMTT(30)
    <3>5. QED BY <3>4 DEF q, x, y, z
  <2>4. QED BY <2>2, <2>3
<1>9. QED BY <1>7, <1>8 DEF last

\* A shell runs on by its start, by a step of its own, or left as it was.
LeftAlone(s) ==
    /\ shell'[s].todo = shell[s].todo /\ shell'[s].cmd = shell[s].cmd /\ shell'[s].calls = shell[s].calls
    /\ shell'[s].asked = shell[s].asked
LEMMA RunsOn ==
    ASSUME FlyShape, [FlyNext]_flyVars, NEW s \in Shells
    PROVE  /\ Runs(s)' => \/ \E cmd \in Commands : Start(s, cmd)
                          \/ Runs(s) /\ ShellStep(s) /\ shell'[s].cmd = shell[s].cmd
                          \/ Runs(s) /\ LeftAlone(s)
           /\ Runs(s) /\ ~ShellStep(s) => Runs(s)' /\ LeftAlone(s)
<1>1. ASSUME shell'[s] = shell[s] \/ shell'[s] = Disturbed[s]
      PROVE  (Runs(s)' => Runs(s) /\ LeftAlone(s)) /\ (Runs(s) => Runs(s)' /\ LeftAlone(s))
  <2>1. CASE Runs(s) BY <2>1, DisturbedIs, <1>1, NoRunIsNoShell DEF Runs, LeftAlone
  <2>2. CASE ~Runs(s) BY <1>1, <2>2, DisturbedIs DEF Runs
  <2>3. QED BY <2>1, <2>2
<1>2. ASSUME NEW t \in Shells, NEW cmd \in Commands, Start(t, cmd), t # s PROVE shell'[s] = Disturbed[s] BY <1>2, StartIs
<1>3. ASSUME NEW t \in Shells, ShellStep(t), t # s PROVE shell'[s] = shell[s] BY <1>3, OthersStay
<1>4. ASSUME OutsideStep PROVE shell'[s] = Disturbed[s]
  BY <1>4 DEF OutsideStep, EditSource, EditFile, EditTree, Commit, PushScorer, Outside
<1>5. ASSUME RestartMachine \/ UNCHANGED flyVars PROVE shell'[s] = shell[s] BY <1>5 DEF RestartMachine, flyVars
<1>6. ASSUME ShellStep(s), Runs(s)' PROVE Runs(s) /\ shell'[s].cmd = shell[s].cmd
  BY <1>6, OthersStay, ActorIs DEF Runs
<1>7. \A cmd \in Commands : Start(s, cmd) => ~Runs(s) BY DEF Start
<1>8. QED BY <1>1, <1>2, <1>3, <1>4, <1>5, <1>6, <1>7 DEF FlyNext, OutsideStep, ShellStep

\* A step at the writing of an answer writes it, or is interrupted.
LEMMA SetOnly ==
    ASSUME NEW s \in Shells, ShellStep(s), At(s, "set")
    PROVE  SetAnswer(s) \/ StepFails(s)
<1>1. \A n : At(s, n) => n = "set" BY DEF At
<1>2. ~Report(s) BY DEF At, Report
<1>3. QED
  BY <1>1, <1>2 DEF ShellStep, ScriptStep, StepFails, CutShort, CreateFile, Copy, Draw, AskRegion, PlaceData, Check, CreateApp,
     MakeVolume, Build, Mirror, Pin, Render, SetSecrets, Ship, WriteSecrets, Basics, Configure,
     ProvisionOrg, WizardFly, Hostname

\* A wizard that asks and goes on asks its next question, or deploys.
LEMMA WizardAsks ==
    ASSUME FlyShape, NEW s \in Shells, ShellStep(s), Answering(s), Runs(s)'
    PROVE  (QuestionStep(s) \/ WizardFly(s)) /\ ~Quit(s)
<1>1. Shaped(shell[s]) BY DEF Answering, FlyShape
<1>2. Within(shell[s].todo, 1, 3) BY <1>1 DEF Answering, Shaped, Fits
<1>3. \A n : At(s, n) => Rank(n) <= 3 BY <1>2, AtIs, AheadIsWithin
<1>4. ~Quit(s) BY DEF Quit, Answering, FlyShape, FlyTypeOK, Runs
<1>5. ~Report(s) /\ ~StepFails(s) /\ ~CutShort(s)
  BY <1>4 DEF FlyShape, FlyTypeOK, Runs, Report, StepFails, LeavesRendered, CutShort
<1>6. /\ ~CreateFile(s) /\ ~Copy(s) /\ ~Draw(s) /\ ~AskRegion(s) /\ ~PlaceData(s) /\ ~Hostname(s) /\ ~Check(s)
      /\ ~CreateApp(s) /\ ~MakeVolume(s) /\ ~Build(s) /\ ~Mirror(s) /\ ~Pin(s) /\ ~Render(s) /\ ~SetSecrets(s) /\ ~Ship(s)
  <2> DEFINE Names == {"file", "copy", "draw", "region", "dir", "hostname", "check", "app", "volume", "build", "mirror",
                       "pin", "render", "secrets", "ship"}
  <2>1. \A n \in Names : ~At(s, n) BY <1>3, RanksOfNames
  <2>2. QED
    BY <2>1 DEF CreateFile, Copy, Draw, AskRegion, PlaceData, Hostname, Check, CreateApp,
       MakeVolume, Build, Mirror, Pin, Render, SetSecrets, Ship
<1>7. QED BY <1>4, <1>5, <1>6 DEF ShellStep, ScriptStep, QuestionStep

\* Where an answer that is written leads to.
SetLeads(k, old, new, asked) ==
    /\ k \notin Answered => Quiet(old) /\ Quiet(new)
    /\ k = "org" => AtOrg(old, asked) /\ AtAdmins(new, asked)
    /\ k = "admins" => AtAdmins(old, asked) /\ AtScore(new, asked)
    /\ k = "score" => AtScore(old, asked) /\ IF asked THEN Quiet(new) ELSE AtUrl(new)
    /\ k = "url" => IF asked THEN AtFirst(old) /\ AtBasics(new) ELSE AtUrl(old) /\ Quiet(new)
LEMMA SetLeadsOn ==
    ASSUME FlyShape, Answers, NEW s \in Shells, SetAnswer(s)
    PROVE  /\ Answering(s) /\ Answering(s)' /\ Arg(s) \in Asked /\ shell'[s].asked = shell[s].asked
           /\ SetLeads(Arg(s), shell[s].todo, shell'[s].todo, shell[s].asked)
<1> DEFINE old == shell[s]
           new == shell'[s]
           k == Arg(s)
<1>1. At(s, "set") /\ Advance(s) BY DEF SetAnswer
<1>2. /\ old \in Shell /\ Shaped(old) /\ old.todo \in Seq(Steps) /\ old.todo # <<>> /\ old.todo[1] \in Steps
      /\ old.todo[1][1] = "set" /\ old.todo[1][2] = k /\ Ahead(old.todo, "set") /\ Named(old.todo[1])
  BY <1>1, AtIs
<1>3. old.cmd = "wizard" /\ ~old.calls BY RanksOfNames, <1>2, QuestionsAreFirst
<1>4. Answering(s) BY <1>1, <1>3 DEF Answering, At
<1>5. Onward(old, new) /\ new \in Shell BY <1>1, AdvanceIs
<1>6. Answering(s)' /\ new.asked = old.asked /\ new.todo = Tail(old.todo)
  BY <1>3, <1>5, NoRunIsNoShell DEF Onward, Answering, Runs
<1>7. k \in Asked BY <1>1, ArgIs
<1>8. old.todo[1] = <<"set", k>> BY <1>2 DEF Steps
<1>9. Phase(old.todo, old.asked) /\ old.asked \in BOOLEAN BY <1>2, <1>4 DEF Answers, Shell
<1>10. SetLeads(k, old.todo, Tail(old.todo), old.asked)
  <2> DEFINE t == old.todo
             asked == old.asked
  <2>1. t \in Seq(Steps) /\ t # <<>> /\ asked \in BOOLEAN /\ Phase(t, asked) /\ t[1] = <<"set", k>> BY <1>2, <1>8, <1>9
  <2> HIDE DEF t, asked, k
  <2>2. k \notin Answered => t = WizardSteps \/ Quiet(t) BY <2>1, PhaseIs
  <2>3. t # WizardSteps BY <2>1 DEF WizardSteps
  <2>4. k \notin Answered => Quiet(t) /\ Quiet(Tail(t)) BY <2>1, <2>2, <2>3, QuietTail
  <2>5. k = "org" => AtOrg(t, asked) /\ AtAdmins(Tail(t), asked) BY <2>1, PhaseIs DEF AtOrg
  <2>6. k = "admins" => AtAdmins(t, asked) /\ AtScore(Tail(t), asked) BY <2>1, PhaseIs DEF AtAdmins
  <2>7. k = "score" => AtScore(t, asked) /\ IF asked THEN Quiet(Tail(t)) ELSE AtUrl(Tail(t)) BY <2>1, PhaseIs DEF AtScore
  <2>8. k = "url" => IF asked THEN AtFirst(t) /\ AtBasics(Tail(t)) ELSE AtUrl(t) /\ Quiet(Tail(t))
    BY <2>1, PhaseIs DEF AtFirst, AtUrl
  <2>9. SetLeads(k, t, Tail(t), asked) BY <2>4, <2>5, <2>6, <2>7, <2>8 DEF SetLeads
  <2>10. QED BY <2>9 DEF t, asked
<1>11. QED BY <1>4, <1>6, <1>7, <1>10

\* Where a question leads to.
AsksOn(s, old, new) ==
    \/ source = NoFile /\ WriteSecrets(s) /\ new.asked /\ AtFirst(new.todo) /\ ~new.calls
    \/ SetAnswer(s)
    \/ /\ source' = source /\ new.asked = old.asked /\ ~new.calls
       /\ \/ old.todo = WizardSteps /\ AtBasics(new.todo)
          \/ AtBasics(old.todo) /\ BasicsDone(source) /\ Quiet(new.todo)
          \/ AtBasics(old.todo) /\ AtOrg(new.todo, old.asked)
          \/ Quiet(old.todo) /\ Quiet(new.todo)
    \/ source' = source /\ new.calls /\ Quiet(old.todo)
LEMMA WizardGoesOn ==
    ASSUME FlyShape, Answers, NEW s \in Shells, ShellStep(s), Answering(s), Runs(s)'
    PROVE  AsksOn(s, shell[s], shell'[s])
<1> DEFINE old == shell[s]
           new == shell'[s]
<1>1. (QuestionStep(s) \/ WizardFly(s)) /\ ~Quit(s) BY WizardAsks
<1>2. old \in Shell /\ Phase(old.todo, old.asked) /\ old.asked \in BOOLEAN /\ old.cmd = "wizard" /\ ~old.calls
  BY DEF Answers, Answering, FlyShape, Shaped, Shell
<1>3. ASSUME NEW n, At(s, n), n \in {"create", "configure", "org", "fly"} PROVE old.todo = WizardSteps \/ Quiet(old.todo)
  BY <1>3, AtIs, <1>2, PhaseIs
<1>4. ASSUME NEW n, At(s, n), n # "create" PROVE old.todo # WizardSteps BY <1>4, AtIs DEF WizardSteps
<1>5. ASSUME NEW n, At(s, n), Advance(s), Quiet(old.todo) PROVE Quiet(new.todo) /\ ~new.calls /\ new.asked = old.asked
  BY <1>5, AdvanceIs, AtIs, <1>2, QuietTail DEF Onward
<1>6. CASE WriteSecrets(s)
  <2>1. At(s, "create") BY <1>6 DEF WriteSecrets
  <2>2. CASE source = NoFile
    BY <2>1, <1>2, <2>2, <1>6, CreatedIs, WizardOpens DEF FlyShape, At, HasSource, AsksOn
  <2>3. CASE source # NoFile
    <3>1. Advance(s) /\ source' = source BY <1>6, <2>3 DEF WriteSecrets
    <3>2. Onward(old, new) BY <2>1, <3>1, AdvanceIs
    <3>3. old.todo = WizardSteps => AtBasics(new.todo) BY <3>2, WizardOpens DEF Onward
    <3>4. ~new.calls /\ new.asked = old.asked BY <1>2, <3>2 DEF Onward
    <3>5. QED BY <1>3, <1>5, <2>1, <3>1, <3>3, <3>4 DEF AsksOn
  <2>4. QED BY <2>2, <2>3
<1>7. CASE SetAnswer(s) BY <1>7 DEF AsksOn
<1>8. CASE Basics(s)
  <2>1. At(s, "basics") /\ source' = source BY <1>8 DEF Basics
  <2>2. old.todo[1] = <<"basics", "-">> /\ old.todo \in Seq(Steps) /\ old.todo # <<>>
    <3>1. old.todo[1] \in Steps /\ old.todo[1][1] = "basics" /\ Named(old.todo[1]) /\ old.todo \in Seq(Steps) /\ old.todo # <<>>
      BY <2>1, AtIs
    <3>2. \A step \in Steps : step = <<step[1], step[2]>> BY DEF Steps
    <3>3. old.todo[1] = <<old.todo[1][1], old.todo[1][2]>> BY <3>1, <3>2
    <3>4. old.todo[1][2] = "-" BY <3>1 DEF Named, PlainSteps
    <3>5. QED BY <3>1, <3>3, <3>4
  <2>3. AtBasics(old.todo) BY <1>2, <2>2, PhaseIs
  <2>4. Quiet(Tail(old.todo)) /\ Tail(old.todo) \in Seq(Steps) BY <2>2, <2>3, TailIs DEF AtBasics
  <2> DEFINE three == <<<<"set", "org">>, <<"set", "admins">>, <<"set", "score">>>>
             more == three \o (IF old.asked THEN <<>> ELSE <<<<"set", "url">>>>)
             steps == IF BasicsDone(source) THEN <<>> ELSE more
  <2>5. AdvanceTo(s, steps) BY <1>1, <1>8 DEF Basics
  <2>6. steps \in {<<>>, three \o <<>>, three \o <<<<"set", "url">>>>} OBVIOUS
  <2>7. Script(steps, 1, 1) BY <2>6, BasicsSteps
  <2>8. Rank("basics") <= 2 BY RanksOfNames
  <2>9. ~new.calls /\ new.asked = old.asked /\ new.todo = steps \o Tail(old.todo)
    BY <2>1, <2>5, <2>7, <2>8, AdvanceToIs
  <2>10. CASE BasicsDone(source) BY <2>4, <2>9, <2>10, <2>1, <2>3 DEF AsksOn
  <2>11. CASE ~BasicsDone(source) BY <1>2, <2>4, OrgOpens, <2>9, <2>11, <2>1, <2>3 DEF AsksOn
  <2>12. QED BY <2>10, <2>11
<1>9. CASE Configure(s)
  <2>1. At(s, "configure") /\ source' = source /\ Arg(s) \in {"app", "oauth"} BY <1>9, ArgIs DEF Configure
  <2>2. PICK steps \in {<<>>, <<<<"set", Arg(s)>>>>} : AdvanceTo(s, steps) BY <1>9 DEF Configure
  <2>3. Quiet(old.todo) BY <1>3, <1>4, <2>1
  <2>4. old.todo \in Seq(Steps) /\ old.todo # <<>> BY <2>1, AtIs
  <2>5. Quiet(Tail(old.todo)) BY <2>3, <2>4, QuietTail
  <2>6. Arg(s) \in Asked BY <2>1 DEF Asked
  <2>7. Script(steps, 1, 1) BY <2>2, <2>6, SetsAre, NothingIsAScript
  <2>8. Rank("configure") <= 2 BY RanksOfNames
  <2>9. /\ ~new.calls /\ new.asked = old.asked
        /\ \A m : Ahead(new.todo, m) <=> Ahead(steps, m) \/ Ahead(Tail(old.todo), m)
        /\ \A step : Has(new.todo, step) <=> Has(steps, step) \/ Has(Tail(old.todo), step)
    BY <2>1, <2>2, <2>7, <2>8, AdvanceToIs
  <2>10. ~Ahead(steps, "basics") /\ \A k \in Answered : ~Has(steps, <<"set", k>>)
    <3>1. CASE steps = <<>> BY <3>1 DEF Ahead, Has
    <3>2. CASE steps = <<<<"set", Arg(s)>>>> BY <2>1, <2>6, <3>2, SetsAre DEF Answered
    <3>3. QED BY <2>2, <3>1, <3>2
  <2>11. Quiet(new.todo) BY <2>5, <2>9, <2>10 DEF Quiet
  <2>12. QED BY <2>1, <2>3, <2>9, <2>11 DEF AsksOn
<1>10. CASE ProvisionOrg(s) BY <1>1, <1>10, <1>3, <1>4, <1>5 DEF ProvisionOrg, AsksOn
<1>11. CASE WizardFly(s) BY <1>11, <1>3, <1>4, WizardFlyIs DEF WizardFly, AsksOn
<1>12. QED BY <1>1, <1>6, <1>7, <1>8, <1>9, <1>10, <1>11 DEF QuestionStep

-----------------------------------------------------------------------------
(* What the steps do to the answers. *)

\* An edit by hand, or a wizard, was still to come before it came.
LEMMA ChanceGoes ==
    ASSUME FlyShape, [FlyNext]_flyVars
    PROVE  /\ chance["edits"] = 0 => chance'["edits"] = 0
           /\ chance'["wizard"] > 0 => chance["wizard"] > 0
<1> DEFINE Kinds == Commands \union {"edits", "moves", "hands", "faults"}
           Goal == /\ chance["edits"] = 0 => chance'["edits"] = 0
                   /\ chance'["wizard"] > 0 => chance["wizard"] > 0
<1>1. ASSUME NEW kind \in Kinds, Chance(kind) PROVE Goal BY <1>1 DEF FlyShape, FlyTypeOK, Commands, Chance
<1>2. ASSUME NEW s \in Shells, ShellStep(s) PROVE chance' = chance \/ Chance("faults")
  BY <1>2 DEF ShellStep, ScriptStep, StepFails, CutShort, CreateFile, Copy, Draw, AskRegion, PlaceData, Check, CreateApp,
     MakeVolume, Build, Mirror, Pin, Render, SetSecrets, Ship, Report, WriteSecrets, SetAnswer, Basics, Configure,
     ProvisionOrg, WizardFly, Hostname
<1>3. \A s \in Shells, cmd \in Commands : Start(s, cmd) => Chance(cmd) BY DEF Start
<1>4. OutsideStep => Chance("edits") \/ Chance("hands") \/ Chance("moves")
  BY DEF OutsideStep, EditSource, EditFile, EditTree, Commit, PushScorer, Outside
<1>5. RestartMachine \/ UNCHANGED flyVars => chance' = chance BY DEF RestartMachine, flyVars
<1>6. chance' = chance \/ \E kind \in Kinds : Chance(kind) BY <1>2, <1>3, <1>4, <1>5 DEF FlyNext, OutsideStep, ShellStep
<1>7. chance' = chance => Goal OBVIOUS
<1> HIDE DEF Goal
<1>8. Goal BY <1>1, <1>6, <1>7
<1>9. QED BY <1>8 DEF Goal

LEMMA WizardlyStep ==
    ASSUME FlyShape, Alone, [FlyNext]_flyVars, Wizardly'
    PROVE  Wizardly
<1>1. CASE chance'["wizard"] > 0 BY <1>1, ChanceGoes DEF Wizardly
<1>2. ASSUME NEW s \in Shells, Runs(s)', shell'[s].cmd = "wizard" PROVE Wizardly
  <2>1. CASE \E cmd \in Commands : Start(s, cmd)
    <3>1. PICK cmd \in Commands : Start(s, cmd) BY <2>1
    <3>2. cmd = "wizard" BY <1>2, <3>1, StartIs
    <3>3. QED BY <3>1, <3>2 DEF Start, Chance, Wizardly
  <2>2. CASE Runs(s) /\ shell'[s].cmd = shell[s].cmd BY <1>2, <2>2 DEF Wizardly
  <2>3. QED BY <1>2, <2>1, <2>2, RunsOn DEF LeftAlone
<1>3. CASE reported' = "wizard" BY <1>3, ReportStands DEF Wizardly, Solo
<1>4. QED BY <1>1, <1>2, <1>3 DEF Wizardly

\* Where nobody edits it, the file is the wizard's.
LEMMA SourceBy ==
    ASSUME FlyShape, [FlyNext]_flyVars, chance["edits"] = 0
    PROVE  /\ wish' = wish
           /\ \A k \in unsaid : k \in unsaid' \/ \E s \in Shells : SetAnswer(s) /\ k = Arg(s)
           /\ source' = source \/ \E s \in Shells : SetAnswer(s) \/ (WriteSecrets(s) /\ source = NoFile)
<1>1. ASSUME NEW s \in Shells, ShellStep(s), ~SetAnswer(s), ~(WriteSecrets(s) /\ source = NoFile) PROVE source' = source
  BY <1>1 DEF ShellStep, ScriptStep, StepFails, CutShort, CreateFile, Copy, Draw, AskRegion, PlaceData, Check, CreateApp,
     MakeVolume, Build, Mirror, Pin, Render, SetSecrets, Ship, Report, WriteSecrets, Basics, Configure,
     ProvisionOrg, WizardFly, Hostname
<1>2. \A s \in Shells : ShellStep(s) => wish' = wish BY OthersStay
<1>3. \A s \in Shells, cmd \in Commands : Start(s, cmd) => source' = source /\ wish' = wish BY DEF Start, outside
<1>4. ~Chance("edits") BY DEF Chance
<1>5. OutsideStep => source' = source /\ wish' = wish
  BY <1>4 DEF OutsideStep, EditSource, EditFile, EditTree, Commit, PushScorer, Outside, outside
<1>6. RestartMachine \/ UNCHANGED flyVars => source' = source /\ wish' = wish BY DEF RestartMachine, flyVars, outside
<1>7. ASSUME NEW s \in Shells, ShellStep(s) PROVE \A k \in unsaid : k \in unsaid' \/ (SetAnswer(s) /\ k = Arg(s))
  BY <1>7 DEF ShellStep, ScriptStep, StepFails, CutShort, CreateFile, Copy, Draw, AskRegion, PlaceData, Check, CreateApp,
     MakeVolume, Build, Mirror, Pin, Render, SetSecrets, Ship, Report, WriteSecrets, SetAnswer, Basics, Configure,
     ProvisionOrg, WizardFly, Hostname, outside
<1>8. (\E s \in Shells, cmd \in Commands : Start(s, cmd)) \/ OutsideStep \/ RestartMachine \/ UNCHANGED flyVars => unsaid' = unsaid
  BY DEF Start, OutsideStep, EditSource, EditFile, EditTree, Commit, PushScorer, RestartMachine, flyVars, outside
<1>9. QED BY <1>1, <1>2, <1>3, <1>5, <1>6, <1>7, <1>8 DEF FlyNext, OutsideStep, ShellStep

\* A file that is new says nothing of what is asked for, but for the box's URL.
LEMMA NewFileIs ==
    ASSUME FlyShape, NEW s \in Shells, WriteSecrets(s), source = NoFile
    PROVE  /\ source' # NoFile /\ \A k \in Answered \ {"url"} : Live(source', k) = Blank
           /\ ~BasicsDone(source')
<1>1. Sound(source') BY SourceGoes
<1>2. source' \in Env /\ source' # NoFile BY <1>1, EnvIsAFile DEF Sound
<1>3. source' = [k \in Keys |-> IF k \in Tokens \union {"auth"} THEN <<"own">>
                                ELSE IF k = "url" THEN <<"localhost">>
                                ELSE IF k \in ToSet(Copied) THEN <<Blank>> ELSE <<>>]
  BY DEF WriteSecrets
<1>4. \A k \in {"org", "admins", "score"} : k \in Keys /\ k \in ToSet(Copied) /\ k \notin Tokens \union {"auth", "url"}
  BY CopiedAre, KeysAre DEF Answered, Tokens
<1>5. \A k \in {"org", "admins", "score"} : source'[k] = <<Blank>> BY <1>3, <1>4
<1>6. <<Blank>> # <<>> /\ Len(<<Blank>>) = 1 /\ <<Blank>>[1] = Blank OBVIOUS
<1>7. \A k \in {"org", "admins", "score"} : Live(source', k) = Blank BY <1>2, <1>4, <1>5, <1>6, LiveIs
<1>8. QED BY <1>2, <1>7 DEF Answered, BasicsDone, Missing

\* What is asked for is answered with what the organizer says.
LEMMA AnswerIs ==
    ASSUME Unspoken, source # NoFile, NEW k \in Answered
    PROVE  Answer(k) = wish[k]
<1>1. k # "url" => Live(source, k) \in {Blank, wish[k]} BY DEF Unspoken
<1>2. k = "url" => wish[k] # Blank BY DEF Unspoken
<1>3. CASE k = "url" BY <1>2, <1>3 DEF Answer
<1>4. CASE k = "score"
  <2>1. CASE wish.score # Blank /\ ~Missing(source, k) BY <1>1, <1>4, <2>1 DEF Missing, Answer
  <2>2. CASE ~(wish.score # Blank /\ ~Missing(source, k)) BY <1>4, <2>2 DEF Answer
  <2>3. QED BY <2>1, <2>2
<1>5. CASE k \in {"org", "admins"} BY <1>1, <1>5 DEF Answer
<1>6. QED BY <1>3, <1>4, <1>5 DEF Answered

LEMMA SetAnswerIs ==
    ASSUME FlyShape, Unspoken, NEW s \in Shells, SetAnswer(s)
    PROVE  /\ source # NoFile /\ source' # NoFile /\ Arg(s) \in Asked
           /\ Arg(s) \in Answered => Live(source', Arg(s)) = wish[Arg(s)]
           /\ \A j \in Keys : j # Arg(s) => source'[j] = source[j] /\ Live(source', j) = Live(source, j)
<1> DEFINE k == Arg(s)
           v == Answer(k)
<1>1. At(s, "set") /\ source' = With(source, k, v) BY DEF SetAnswer
<1>2. source # NoFile /\ source \in Env BY <1>1, QuestionsHaveSource, RanksOfNames
<1>3. k \in Asked /\ k \in Keys BY <1>1, ArgIs, KeysAre
<1>4. v \in Texts BY <1>2, <1>3, LiveIs DEF FlyShape, FlyTypeOK, Answer
<1>5. k \in Answered => v = wish[k] BY <1>2, AnswerIs
<1> HIDE DEF k, v
<1>6. /\ source' \in Env /\ Live(source', k) = v
      /\ \A j \in Keys : j # k => source'[j] = source[j] /\ Live(source', j) = Live(source, j)
  BY <1>1, <1>2, <1>3, <1>4, WithIs
<1>7. source' # NoFile BY <1>6, EnvIsAFile
<1>8. QED BY <1>2, <1>3, <1>5, <1>6, <1>7 DEF k

\* What is given stays given.
LEMMA GivenGoes ==
    ASSUME FlyShape, Unspoken, [FlyNext]_flyVars
    PROVE  /\ \A k \in Answered : Given(k) => Given(k)'
           /\ Unspoken'
<1>1. chance["edits"] = 0 /\ wish["url"] # Blank BY DEF Unspoken
<1>2. wish' = wish /\ chance'["edits"] = 0 BY <1>1, SourceBy, ChanceGoes
<1>3. CASE source' = source /\ ~\E s \in Shells : SetAnswer(s) BY <1>1, <1>2, <1>3, SourceBy DEF Unspoken, Given
<1>4. ASSUME NEW s \in Shells, SetAnswer(s)
      PROVE  (\A k \in Answered : Given(k) => Given(k)') /\ Unspoken'
  BY KeysAre, <1>4, SetAnswerIs, <1>1, <1>2 DEF Unspoken, Given, SetAnswer
<1>5. ASSUME NEW s \in Shells, WriteSecrets(s), source = NoFile
      PROVE  (\A k \in Answered : Given(k) => Given(k)') /\ Unspoken'
  BY <1>5, NewFileIs, <1>1, <1>2 DEF Live, Given, Unspoken, WriteSecrets, outside
<1>6. QED BY <1>1, <1>3, <1>4, <1>5, SourceBy

\* A wizard is in one place.
LEMMA PlacesDiffer ==
    ASSUME NEW todo \in Seq(Steps), NEW asked \in BOOLEAN
    PROVE  /\ AtAdmins(todo, asked) => ~AtScore(todo, asked) /\ ~AtUrl(todo) /\ ~AtFirst(todo)
           /\ AtScore(todo, asked) => ~AtUrl(todo) /\ ~AtFirst(todo)
           /\ AtFirst(todo) => ~AtAdmins(todo, asked) /\ ~AtScore(todo, asked)
           /\ todo = WizardSteps \/ AtBasics(todo) \/ AtOrg(todo, asked) \/ Quiet(todo)
                => ~AtAdmins(todo, asked) /\ ~AtScore(todo, asked) /\ ~AtUrl(todo) /\ ~AtFirst(todo)
<1>1. \A x, y : Opens(todo, x) /\ Opens(todo, y) => x = y BY DEF Opens
<1>2. todo = WizardSteps => Opens(todo, <<"create", "-">>) BY DEF WizardSteps, Opens
<1>3. /\ AtAdmins(todo, asked) => Opens(todo, <<"set", "admins">>)
      /\ AtScore(todo, asked) => Opens(todo, <<"set", "score">>)
      /\ AtUrl(todo) \/ AtFirst(todo) => Opens(todo, <<"set", "url">>)
      /\ AtOrg(todo, asked) => Opens(todo, <<"set", "org">>)
      /\ AtBasics(todo) => Opens(todo, <<"basics", "-">>)
  BY DEF AtAdmins, AtScore, AtUrl, AtFirst, AtOrg, AtBasics
<1>4. /\ <<"set", "admins">> # <<"set", "score">> /\ <<"set", "admins">> # <<"set", "url">> /\ <<"set", "score">> # <<"set", "url">>
      /\ \A k : <<"set", k>> # <<"create", "-">> /\ <<"set", k>> # <<"basics", "-">>
      /\ \A k \in {"admins", "score", "url"} : <<"set", k>> # <<"set", "org">>
  OBVIOUS
<1>5. Quiet(todo) => ~AtAdmins(todo, asked) /\ ~AtScore(todo, asked) /\ ~AtUrl(todo) /\ ~AtFirst(todo) BY NotQuiet
<1>6. QED BY <1>1, <1>2, <1>3, <1>4, <1>5

\* An answer that is written is there, and the last of them completes them.
LEMMA AnswersDone ==
    ASSUME FlyShape, Unspoken, Answers, [FlyNext]_flyVars, NEW s \in Shells, SetAnswer(s)
    PROVE  /\ Arg(s) \in Answered => Live(source', Arg(s)) = wish'[Arg(s)]
           /\ (Arg(s) = "score" /\ shell[s].asked) \/ (Arg(s) = "url" /\ ~shell[s].asked) => AllGiven'
<1> DEFINE k == Arg(s)
           old == shell[s].todo
           asked == shell[s].asked
<1>1. Answering(s) /\ SetLeads(k, old, shell'[s].todo, asked) BY SetLeadsOn
<1>2. WrittenSoFar(old, asked) /\ old \in Seq(Steps) /\ asked \in BOOLEAN
  BY <1>1 DEF Answers, Answering, FlyShape, Shaped, WellFormed, Shell
<1>3. wish' = wish BY SourceBy DEF Unspoken
<1>4. k \in Answered => Live(source', k) = wish'[k] BY <1>3, SetAnswerIs
<1>5. \A j \in Answered : Given(j) => Given(j)' BY GivenGoes
<1>6. k = "score" /\ asked => Given("org") /\ Given("admins") /\ Given("url")
  BY <1>1, <1>2, PlacesDiffer DEF SetLeads, WrittenSoFar
<1>7. k = "url" /\ ~asked => Given("org") /\ Given("admins") /\ Given("score")
  BY <1>1, <1>2 DEF SetLeads, WrittenSoFar
<1>8. (k = "score" /\ asked) \/ (k = "url" /\ ~asked) => \A j \in Answered : Given(j)'
  BY <1>4, <1>5, <1>6, <1>7 DEF Answered, Given
<1>9. QED BY <1>4, <1>8 DEF AllGiven

\* A wizard that still asks has asked before.
LEMMA StillAnswers ==
    ASSUME FlyShape, NEW s \in Shells, ShellStep(s), Answering(s)'
    PROVE  Answering(s)
BY OthersStay, ActorIs DEF FlyShape, Shaped, Answering, Runs

\* A wizard that goes on is where its answers say.
LEMMA AnswersStep ==
    ASSUME FlyShape, Unspoken, Answers, [FlyNext]_flyVars
    PROVE  Answers'
<1>1. SUFFICES ASSUME NEW s \in Shells, Answering(s)'
               PROVE  /\ Phase(shell'[s].todo, shell'[s].asked)
                      /\ WrittenSoFar(shell[s].todo, shell[s].asked)'
  BY DEF Answers
<1> DEFINE old == shell[s].todo
           new == shell'[s].todo
           asked == shell[s].asked
<1>2. FlyShape' BY ShapeStep
<1>3. new \in Seq(Steps) /\ shell'[s].asked \in BOOLEAN
  BY <1>1, <1>2 DEF FlyShape, Answering, Shaped, WellFormed, Shell
<1>4. \A k \in Answered : Given(k) => Given(k)' BY GivenGoes
<1>5. Answered = {"org", "admins", "score", "url"} BY DEF Answered
<1>6. ASSUME Answering(s) PROVE Phase(old, asked) /\ WrittenSoFar(old, asked) /\ old \in Seq(Steps) /\ asked \in BOOLEAN
  BY <1>6 DEF Answers, Answering, FlyShape, Shaped, WellFormed, Shell
<1>7. CASE \E cmd \in Commands : Start(s, cmd)
  BY <1>7, StartIs, <1>1, <1>3, PlacesDiffer DEF StepsFor, Answering, Phase, WrittenSoFar
<1>8. CASE Runs(s) /\ LeftAlone(s) BY <1>1, <1>8, <1>6, <1>4, <1>5 DEF LeftAlone, Answering, WrittenSoFar, Given
<1>9. CASE ShellStep(s)
  <2>1. Answering(s) /\ Runs(s)' /\ ~shell'[s].calls BY <1>1, <1>9, StillAnswers DEF Answering
  <2>2. Phase(old, asked) /\ WrittenSoFar(old, asked) /\ old \in Seq(Steps) /\ asked \in BOOLEAN BY <1>6, <2>1
  <2>3. AsksOn(s, shell[s], shell'[s]) BY <1>9, <2>1, WizardGoesOn
  <2>4. CASE WriteSecrets(s) /\ shell'[s].asked /\ AtFirst(new)
    BY <1>3, <2>4, PlacesDiffer DEF Phase, WrittenSoFar
  <2>5. CASE SetAnswer(s)
    <3> DEFINE k == Arg(s)
    <3>1. SetLeads(k, old, new, asked) /\ shell'[s].asked = asked /\ k \in Asked BY <2>5, SetLeadsOn
    <3>2. k \in Answered => Live(source', k) = wish'[k] BY <2>5, AnswersDone
    <3>3. CASE k \notin Answered
      <4>1. Quiet(old) /\ Quiet(new) BY <3>1, <3>3 DEF SetLeads
      <4>2. /\ ~AtFirst(old)
            /\ ~AtAdmins(new, asked) /\ ~AtScore(new, asked) /\ ~AtUrl(new) BY <1>3, <2>2, <3>1, <4>1, PlacesDiffer
      <4>3. QED BY <1>4, <1>5, <2>2, <3>1, <4>1, <4>2 DEF Phase, WrittenSoFar, Given
    <3>4. CASE k = "org"
      <4>1. AtOrg(old, asked) /\ AtAdmins(new, asked) BY <3>1, <3>4 DEF SetLeads
      <4>2. ~AtFirst(old) /\ ~AtScore(new, asked) /\ ~AtUrl(new) BY <1>3, <2>2, <3>1, <4>1, PlacesDiffer
      <4>3. QED BY <1>4, <1>5, <2>2, <3>1, <3>2, <3>4, <4>1, <4>2 DEF Phase, Writing, WrittenSoFar, Given
    <3>5. CASE k = "admins"
      <4>1. AtAdmins(old, asked) /\ AtScore(new, asked) BY <3>1, <3>5 DEF SetLeads
      <4>2. ~AtFirst(old) /\ ~AtAdmins(new, asked) /\ ~AtUrl(new) BY <1>3, <2>2, <3>1, <4>1, PlacesDiffer
      <4>3. QED BY <1>4, <1>5, <2>2, <3>1, <3>2, <3>5, <4>1, <4>2 DEF Phase, Writing, WrittenSoFar, Given
    <3>6. CASE k = "score"
      <4>1. AtScore(old, asked) /\ IF asked THEN Quiet(new) ELSE AtUrl(new) BY <3>1, <3>6 DEF SetLeads
      <4>2. ~AtFirst(old) /\ ~AtAdmins(new, asked) /\ ~AtScore(new, asked) BY <1>3, <2>2, <3>1, <4>1, PlacesDiffer
      <4>3. QED BY <1>4, <1>5, <2>2, <3>1, <3>2, <3>6, <4>1, <4>2 DEF Phase, Writing, WrittenSoFar, Given
    <3>7. CASE k = "url" BY <3>1, <3>7, <1>3, PlacesDiffer, <1>5, <3>2 DEF SetLeads, Phase, WrittenSoFar, Given
    <3>8. QED BY <1>5, <3>3, <3>4, <3>5, <3>6, <3>7
  <2>6. CASE /\ source' = source /\ shell'[s].asked = asked
             /\ \/ old = WizardSteps /\ AtBasics(new)
                \/ AtBasics(old) /\ BasicsDone(source) /\ Quiet(new)
                \/ AtBasics(old) /\ AtOrg(new, asked)
                \/ Quiet(old) /\ Quiet(new)
    BY <1>3, <2>2, <2>6, PlacesDiffer, <1>4, <1>5 DEF WrittenSoFar, Phase, Given
  <2>7. QED BY <2>1, <2>3, <2>4, <2>5, <2>6 DEF AsksOn
<1>10. Runs(s)' BY <1>1 DEF Answering
<1>11. QED BY <1>7, <1>8, <1>9, <1>10, RunsOn

\* A wizard that is interrupted among its answers, in a file that has the basics,
\* has written the administrators and the organization; the rest is unsaid.
LEMMA InterruptedAnswers ==
    ASSUME FlyShape, Unspoken, Answers, [FlyNext]_flyVars, source # NoFile, BasicsDone(source), NEW t \in Shells,
           Answering(t), Writing(shell[t].todo, shell[t].asked), Writes(t), StepFails(t)
    PROVE  AllGiven'
<1> DEFINE todo == shell[t].todo
           asked == shell[t].asked
<1>1. todo \in Seq(Steps) /\ asked \in BOOLEAN /\ WrittenSoFar(todo, asked)
  BY DEF Answers, Answering, FlyShape, Shaped, WellFormed, Shell
<1>2. unsaid' = unsaid \union Unwritten(t) /\ source' = source /\ wish' = wish BY DEF StepFails
<1>3. \A k \in Answered : Given(k) => Given(k)' BY GivenGoes
<1>4. Given("admins") BY DEF BasicsDone, Missing, Unspoken, Given, Answered
<1>5. \A k \in {"score", "url"}, i \in DOMAIN todo : todo[i] = <<"set", k>> => Given(k)' BY <1>2 DEF Unwritten, Answered, Given
<1>6. Given("org") /\ (asked => Given("url")) BY <1>1, PlacesDiffer DEF Writing, WrittenSoFar
<1>7. Given("score") \/ Given("score")'
  <2>1. CASE AtAdmins(todo, asked)
    <3>1. todo # <<>> /\ Tail(todo) # <<>> /\ Tail(todo)[1] = <<"set", "score">> BY <2>1 DEF AtAdmins, AtScore, Opens
    <3>2. Len(todo) >= 2 /\ 2 \in DOMAIN todo BY <1>1, <3>1, TailIs
    <3>3. todo[2] = <<"set", "score">> BY <1>1, <3>1, <3>2, TailIs
    <3>4. QED BY <1>5, <3>2, <3>3
  <2>2. CASE AtScore(todo, asked) BY <1>1, <1>5, <2>2, TailIs DEF AtScore, Opens
  <2>3. CASE ~asked /\ AtUrl(todo) BY <1>1, <2>3 DEF WrittenSoFar
  <2>4. QED BY <2>1, <2>2, <2>3 DEF Writing
<1>8. ~asked => Given("url")'
  <2>1. SUFFICES ASSUME ~asked PROVE \E i \in DOMAIN todo : todo[i] = <<"set", "url">> BY <1>5
  <2>2. CASE AtUrl(todo) BY <1>1, <2>2, TailIs DEF AtUrl, Opens
  <2>3. ASSUME NEW q \in Seq(Steps), AtScore(q, asked)
        PROVE  2 \in DOMAIN q /\ q[2] = <<"set", "url">> /\ Tail(q) \in Seq(Steps)
    BY <2>1, <2>3 DEF AtScore, AtUrl, Opens
  <2>4. CASE AtScore(todo, asked) BY <1>1, <2>3, <2>4
  <2>5. CASE AtAdmins(todo, asked)
    <3>1. AtScore(Tail(todo), asked) /\ todo # <<>> /\ Tail(todo) \in Seq(Steps) BY <1>1, <2>5, TailIs DEF AtAdmins, Opens
    <3>2. 2 \in DOMAIN Tail(todo) /\ Tail(todo)[2] = <<"set", "url">> BY <2>3, <3>1
    <3>3. 3 \in DOMAIN todo /\ todo[3] = <<"set", "url">> BY <1>1, <3>1, <3>2
    <3>4. QED BY <3>3
  <2>6. QED BY <2>2, <2>4, <2>5 DEF Writing
<1>9. QED BY <1>3, <1>4, <1>6, <1>7, <1>8 DEF AllGiven, Answered

\* A file that has the basics says all of it, or a wizard is about to.
LEMMA BasicsCountStep ==
    ASSUME FlyShape, Unspoken, Answers, BasicsCount, [FlyNext]_flyVars
    PROVE  BasicsCount'
<1>1. SUFFICES ASSUME source' # NoFile, BasicsDone(source')
               PROVE  AllGiven' \/ \E s \in Shells : Answering(s)' /\ Writing(shell'[s].todo, shell'[s].asked)
  BY DEF BasicsCount
<1>2. AllGiven => AllGiven' BY GivenGoes DEF AllGiven
<1>3. \A k \in {"admins", "score", "org"} : k \in Keys /\ k \in Answered BY KeysAre DEF Answered
<1>4. \A s \in Shells : Answering(s) => shell[s].todo \in Seq(Steps) /\ shell[s].asked \in BOOLEAN
  BY DEF Answering, FlyShape, Shaped, WellFormed, Shell
<1>5. ASSUME NEW s \in Shells, SetAnswer(s)
      PROVE  AllGiven' \/ \E t \in Shells : Answering(t)' /\ Writing(shell'[t].todo, shell'[t].asked)
  <2> DEFINE k == Arg(s)
             old == shell[s].todo
             new == shell'[s].todo
             asked == shell[s].asked
  <2>1. Answering(s) /\ Answering(s)' /\ shell'[s].asked = asked /\ SetLeads(k, old, new, asked) /\ k \in Asked
    BY <1>5, SetLeadsOn
  <2>2. ShellStep(s) BY <1>5 DEF ShellStep, ScriptStep
  <2>3. CASE k = "org" \/ k = "admins" \/ (k = "score" /\ ~asked) BY <2>1, <2>3 DEF SetLeads, Writing
  <2>4. CASE (k = "score" /\ asked) \/ (k = "url" /\ ~asked) BY <1>5, <2>4, AnswersDone
  <2>5. CASE k \notin Answered \/ (k = "url" /\ asked)
    <3>1. /\ source # NoFile
          /\ \A j \in {"admins", "score", "org"} : source'[j] = source[j] /\ Live(source', j) = Live(source, j)
      BY <1>3, <1>5, <2>5, SetAnswerIs DEF Answered
    <3>2. BasicsDone(source) BY <1>1, <3>1 DEF BasicsDone, Missing
    <3>3. ASSUME NEW t \in Shells, Answering(t), Writing(shell[t].todo, shell[t].asked)
          PROVE  Answering(t)' /\ Writing(shell'[t].todo, shell'[t].asked)
      BY <2>1, <2>5, <1>4, NotQuiet, <3>3, <2>2, OthersStay DEF SetLeads, Answering, Runs
    <3>4. QED BY <1>2, <3>1, <3>2, <3>3 DEF BasicsCount
  <2>6. QED BY <2>3, <2>4, <2>5 DEF Answered
<1>6. ASSUME source' = source, \A s \in Shells : ~SetAnswer(s)
      PROVE  AllGiven' \/ \E t \in Shells : Answering(t)' /\ Writing(shell'[t].todo, shell'[t].asked)
  <2>1. ASSUME NEW t \in Shells, Answering(t), Writing(shell[t].todo, shell[t].asked)
        PROVE  AllGiven' \/ (Answering(t)' /\ Writing(shell'[t].todo, shell'[t].asked))
    <3> DEFINE todo == shell[t].todo
    <3>1. PICK k \in {"admins", "score", "url"} : todo[1] = <<"set", k>> /\ todo # <<>> /\ (k = "url" => ~shell[t].asked)
      BY <1>4, <2>1, NotQuiet
    <3>2. Head(todo) = todo[1] BY <1>4, <2>1, <3>1
    <3>3. At(t, "set") /\ Arg(t) = k BY <2>1, <3>1, <3>2 DEF At, Arg, Answering
    <3>4. Writes(t) BY <3>1, <3>3 DEF Writes
    <3>5. CASE ShellStep(t)
      <4>1. StepFails(t) BY <1>6, <3>3, <3>5, SetOnly
      <4>2. QED BY <1>1, <1>6, <2>1, <3>4, <4>1, InterruptedAnswers
    <3>6. CASE ~ShellStep(t)
      <4>1. Runs(t)' /\ LeftAlone(t) BY <2>1, <3>6, RunsOn DEF Answering
      <4>2. QED BY <2>1, <4>1 DEF Answering, LeftAlone
    <3>7. QED BY <3>5, <3>6
  <2>2. QED BY <1>1, <1>2, <1>6, <2>1 DEF BasicsCount
<1>7. ASSUME NEW s \in Shells, WriteSecrets(s), source = NoFile PROVE FALSE BY <1>1, <1>7, NewFileIs
<1>8. chance["edits"] = 0 BY DEF Unspoken
<1>9. QED BY <1>5, <1>6, <1>7, <1>8, SourceBy

\* A wizard alone that asks no more has all its answers there.
LEMMA AloneAnsweredStep ==
    ASSUME FlyShape, Alone, Unspoken, Answers, BasicsCount, AloneAnswered, [FlyNext]_flyVars
    PROVE  AloneAnswered'
<1>1. SUFFICES ASSUME NEW s \in Shells, Solo(s)', shell'[s].cmd = "wizard", shell'[s].calls \/ Quiet(shell'[s].todo)
               PROVE  AllGiven'
  BY DEF AloneAnswered
<1> DEFINE old == shell[s].todo
           new == shell'[s].todo
           asked == shell[s].asked
<1>2. AllGiven => AllGiven' BY GivenGoes DEF AllGiven
<1>3. FlyShape' BY ShapeStep
<1>4. new \in Seq(Steps) /\ shell'[s].asked \in BOOLEAN BY <1>1, <1>3 DEF FlyShape, Solo, Shaped, WellFormed, Shell
<1>5. Solo(s) => old \in Seq(Steps) /\ asked \in BOOLEAN BY DEF FlyShape, Solo, Shaped, WellFormed, Shell
<1>6. CASE \E cmd \in Commands : Start(s, cmd) BY <1>6, <1>1, StartIs, <1>4, NotQuiet DEF StepsFor
<1>7. CASE Solo(s) /\ shell' = shell BY <1>1, <1>7, <1>2 DEF AloneAnswered
<1>8. CASE Solo(s) /\ ShellStep(s) /\ shell'[s].cmd = shell[s].cmd
  <2>1. CASE shell[s].calls BY <1>1, <1>8, <2>1, <1>2 DEF AloneAnswered
  <2>2. CASE ~shell[s].calls
    <3>1. Answering(s) /\ Runs(s)' BY <1>1, <1>8, <2>2 DEF Answering, Solo
    <3>2. AsksOn(s, shell[s], shell'[s]) BY <1>8, <3>1, WizardGoesOn
    <3>3. Quiet(old) => AllGiven' BY <1>1, <1>2, <1>8 DEF AloneAnswered
    <3>4. CASE SetAnswer(s)
      <4> DEFINE k == Arg(s)
      <4>1. Answering(s)' /\ SetLeads(k, old, new, asked) BY <3>4, SetLeadsOn
      <4>2. Quiet(new) BY <1>1, <4>1 DEF Answering
      <4>3. ~AtAdmins(new, asked) /\ ~AtScore(new, asked) /\ ~AtUrl(new) /\ ~AtBasics(new)
        BY <1>4, <1>5, <1>8, <4>2, NotQuiet
      <4>4. Quiet(old) \/ (k = "score" /\ asked) \/ (k = "url" /\ ~asked) BY <4>1, <4>3 DEF SetLeads, Answered
      <4>5. QED BY <3>3, <3>4, <4>4, AnswersDone
    <3>5. CASE AtBasics(old) /\ BasicsDone(source)
      <4>1. source # NoFile BY <3>5 DEF BasicsDone, Missing, Live
      <4>2. ASSUME NEW t \in Shells, Answering(t), Writing(shell[t].todo, shell[t].asked) PROVE FALSE
        BY <1>8, <4>2, <1>5, <3>5, NotQuiet DEF Alone, Answering
      <4>3. AllGiven BY <3>5, <4>1, <4>2 DEF BasicsCount
      <4>4. QED BY <1>2, <4>3
    <3>6. CASE ~shell'[s].calls /\ (AtFirst(new) \/ AtBasics(new) \/ AtOrg(new, asked))
      BY <1>4, <1>5, <1>8, <3>6, NotQuiet, <1>1
    <3>7. QED BY <3>2, <3>3, <3>4, <3>5, <3>6 DEF AsksOn
  <2>3. QED BY <2>1, <2>2
<1>9. QED BY <1>1, <1>6, <1>7, <1>8, SoloBy

LEMMA WizardKeepsAnswersStep ==
    ASSUME FlyShape, Alone, Unspoken, AloneAnswered, WizardKeepsAnswers, [FlyNext]_flyVars
    PROVE  WizardKeepsAnswers'
<1>1. SUFFICES ASSUME reported' = "wizard" PROVE AllGiven'
  BY DEF WizardKeepsAnswers, AllGiven, Given
<1>2. AllGiven => AllGiven' BY GivenGoes DEF AllGiven
<1>3. CASE reported' = reported BY <1>1, <1>3, <1>2 DEF WizardKeepsAnswers, AllGiven, Given
<1>4. CASE \E s \in Shells : Solo(s) /\ Report(s) /\ reported' = shell[s].cmd /\ shell[s].todo = <<>>
  <2>1. PICK s \in Shells : Solo(s) /\ Report(s) /\ reported' = shell[s].cmd /\ shell[s].todo = <<>> BY <1>4
  <2>2. Quiet(shell[s].todo) BY <2>1 DEF Quiet, Ahead, Has
  <2>3. AllGiven BY <1>1, <2>1, <2>2 DEF AloneAnswered
  <2>4. QED BY <1>2, <2>3
<1>5. QED BY <1>1, <1>3, <1>4, ReportStands

\* Once the wizard ends well, however often it was interrupted and run again
\* before that, the file says what the organizer has answered, but for a scorer or
\* a URL that an interrupt kept from being written.
THEOREM WizardAnswersKept == FlySpec => []WizardKeepsAnswers
<1>1. FlyInit => WizardInv
  <2>1. SUFFICES ASSUME FlyInit, Wizardly
                 PROVE  Unspoken /\ Answers /\ BasicsCount /\ AloneAnswered /\ WizardKeepsAnswers
    BY DEF WizardInv
  <2>2. PICK scene \in Scenes : source = scene.source /\ wish = scene.wish /\ chance = scene.uses BY <2>1 DEF FlyInit
  <2>3. (\A s \in Shells : ~Runs(s)) /\ reported = "none" BY <2>1 DEF FlyInit, Runs
  <2>4. Unanswered(scene) BY <2>1, <2>2, <2>3, FlyAssumption DEF Wizardly
  <2>5. Unspoken BY <2>2, <2>4 DEF Unanswered, Unspoken
  <2>6. BasicsCount BY <2>2, <2>4 DEF Unanswered, BasicsCount, AllGiven, Given
  <2>7. QED BY <2>3, <2>5, <2>6 DEF Answers, Answering, AloneAnswered, Solo, WizardKeepsAnswers
<1>2. FlyShape /\ Alone /\ WizardInv /\ [FlyNext]_flyVars => WizardInv'
  BY WizardlyStep, GivenGoes, AnswersStep, BasicsCountStep, AloneAnsweredStep, WizardKeepsAnswersStep DEF
     WizardInv
<1>3. WizardInv => WizardKeepsAnswers BY DEF WizardInv, Wizardly, WizardKeepsAnswers
<1>4. QED BY <1>1, <1>2, <1>3, CommandsKeepOrder, AloneHolds, PTL DEF FlySpec

\* All of it, wherever an interrupt hits.
THEOREM DeploymentHolds == FlySpec => []FlyInv
<1>1. FlyShape /\ DeployedAsWritten /\ RefreshSettles /\ MachineServes /\ NothingLeftBehind /\ WizardKeepsAnswers => FlyInv
  BY DEF FlyShape, FlyInv
<1>2. FlySpec => []FlyShape /\ []DeployedAsWritten /\ []RefreshSettles /\ []MachineServes BY CommandsKeepOrder, DeploysAsWritten, RefreshesSettle, MachinesServe
<1>3. FlySpec => []NothingLeftBehind BY NothingIsLeftBehind
<1>4. FlySpec => []WizardKeepsAnswers BY WizardAnswersKept
<1>5. QED BY <1>1, <1>2, <1>3, <1>4, PTL
=============================================================================
