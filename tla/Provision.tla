----------------------------- MODULE Provision -----------------------------
(***************************************************************************)
(* setup/ctf-setup.sh: the organizer's terminals provision one fork for each *)
(* target on GitHub, keep the forks private until the event is launched and  *)
(* open them then.  A command is a list of instructions, each of them one    *)
(* read or one write on GitHub; any may fail, and a write may land and its   *)
(* answer be lost.  Around the terminals the organizer detaches forks and    *)
(* presses Launch, contestants fork what is public, and GitHub indexes the   *)
(* workflows a fork inherits in its own time.                                *)
(***************************************************************************)
EXTENDS Integers, Sequences, FiniteSets, SequencesExt

CONSTANTS
    Terminals,
    Targets,          \* the rows of targets.tsv, in order
    Vulnerable,       \* the target that needs a Dockerfile of its own
    FreePlan,         \* the org is on GitHub's free plan
    Checkouts,        \* workflow versions of the kit's checkouts
    Sessions          \* [new, uses]: whether anything is there yet, and how many
                      \* commands, faults and events a behaviour has

VARIABLES
    fork,             \* the forks, as GitHub has them; history: the newest workflow each
                      \* has had, and whether it was shut after Launch was pressed
    package,          \* ghcr.io/<org>/score: none or private
    launched,         \* the box's launch state
    term,             \* the running commands; history: what each last saw of the fork
                      \* it is about to write to
    spare,            \* what is left of the session
    told,             \* history: the last success each command reported
    weakened          \* history: forks whose protection was removed by hand since it was put
provVars == <<fork, package, launched, term, spare, told, weakened>>

Forks == ToSet(Targets)

\* The targets are a list, and the first checkout is one.
ASSUME ProvAssumption ==
    /\ Targets \in Seq(Forks) /\ FreePlan \in BOOLEAN
    /\ Checkouts \subseteq Nat /\ 1 \in Checkouts

Steps == <<"fork", "ctf-branch", "drop-old", "protect", "workflow",
           "disable-inherited", "pr-template", "vapp-dockerfile">>
Commands == {"org", "wizard", "private", "launch", "upgrade", "doctor"}
Absent == -1
Unmade == [made |-> FALSE, attached |-> TRUE, public |-> TRUE, done |-> {}, version |-> Absent,
           indexed |-> FALSE, active |-> FALSE, visited |-> FALSE, refused |-> FALSE,
           newest |-> Absent, shut |-> FALSE]
\* A fork after org, detached since and hidden by private: the protection is
\* put off, and the first checkout's workflow is on it.
Ready == [made |-> TRUE, attached |-> FALSE, public |-> ~FreePlan, version |-> 1, indexed |-> TRUE,
          done |-> {"branch", "ctf-branch", "drop-old", "pr-template", "vapp-dockerfile"}
                   \union (IF FreePlan THEN {} ELSE {"protect"}),
          active |-> FALSE, visited |-> FALSE, refused |-> FALSE, newest |-> 1, shut |-> FALSE]
\* What a read tells of a fork; one that failed is taken for a fork with nothing on it.
Looked(f) == [visited |-> fork[f].visited, version |-> fork[f].version]
Unseen == [visited |-> TRUE, version |-> Absent]
NoCommand == [cmd |-> "none"]
Silent == [cmd |-> "none"]

Uses(kind) == spare[kind] > 0 /\ spare' = [spare EXCEPT ![kind] = @ - 1]
Fault == Uses("faults")
Running(t) == term[t] # NoCommand
AtOp(t, op) == Running(t) /\ term[t].todo # <<>> /\ Head(term[t].todo)[1] = op
Step(t) == Head(term[t].todo)[2]
Target(t) == Head(term[t].todo)[3]
Onward(t, n) == term' = [term EXCEPT ![t].todo = SubSeq(@, n + 1, Len(@))]
Unclean(t, n) == term' = [term EXCEPT ![t].todo = SubSeq(@, n + 1, Len(@)), ![t].clean = FALSE]
Stops(t) == term' = [term EXCEPT ![t] = NoCommand]
Written(t) == term' = [term EXCEPT ![t].todo = Tail(@), ![t].saw = Unseen]
-----------------------------------------------------------------------------
(* What a command does, as its instructions: what, which step of a fork and on
   which fork, or "none". *)

\* What is done on each fork, one fork after the other.
OnEach(kinds) ==
    [k \in 1..Len(kinds) * Len(Targets) |->
        LET kind == kinds[((k - 1) % Len(kinds)) + 1]
        IN  <<kind[1], kind[2], Targets[((k - 1) \div Len(kinds)) + 1]>>]
DoStep(s) == <<<<"check", s>>, <<"apply", s>>>>
DoSteps == [k \in 1..2 * Len(Steps) |-> DoStep(Steps[(k + 1) \div 2])[2 - (k % 2)]]
Privatize == <<<<"box", "private", "none">>>> \o OnEach(<<<<"eligible", "none">>, <<"hide", "none">>>>)
Launch == OnEach(<<<<"preflight", "none">>>>)
          \o <<<<"package", "none", "none">>, <<"refuse", "none", "none">>, <<"wait", "none", "none">>>>
          \o OnEach(<<<<"visible", "none">>, <<"flip", "none">>>> \o DoStep("protect"))
          \o OnEach(<<<<"verify", "protect">>>>)
Doctor == <<<<"box", "doctor", "none">>>>
          \o OnEach([i \in DOMAIN Steps |-> <<"cell", Steps[i]>>])
          \o OnEach(<<<<"grant", "none">>>>)

Program(c) ==
    CASE c \in {"org", "wizard"} -> OnEach(DoSteps) \o <<<<"mirror", "none", "none">>>> \o Privatize
      [] c = "upgrade" -> OnEach(DoStep("workflow"))
      [] c = "private" -> Privatize
      [] c = "launch" -> Launch
      [] c = "doctor" -> Doctor

Run(t, c, v) ==
    /\ ~Running(t) /\ Uses(c)
    /\ term' = [term EXCEPT ![t] = [cmd |-> c, v |-> v, todo |-> Program(c), box |-> "unknown",
                                    pending |-> {}, clean |-> TRUE, early |-> FALSE, saw |-> Unseen]]
    /\ UNCHANGED <<fork, package, launched, told, weakened>>
-----------------------------------------------------------------------------
(* The provisioning steps. *)

AppliesTo(f, s) == s = "vapp-dockerfile" => f = Vulnerable

\* check_step, answered
Holds(f, s, v) ==
    LET k == fork[f] IN
    CASE ~AppliesTo(f, s) -> TRUE
      [] s = "fork" -> k.made
      [] s = "workflow" -> k.version >= v
      [] s = "disable-inherited" -> k.made /\ ~k.active
      [] OTHER -> s \in k.done

\* What GitHub accepts: a branch of a repository that is there, no protection
\* of a private repository on the free plan, no delete of the default branch.
Accepts(f, s) ==
    LET k == fork[f] IN
    /\ s # "fork" => k.made
    /\ s \in {"protect", "workflow", "pr-template", "vapp-dockerfile"} => "branch" \in k.done
    /\ s = "protect" => k.public \/ ~FreePlan
    /\ s = "drop-old" => "ctf-branch" \in k.done

Applied(f, s, v) ==
    CASE s = "fork" -> [fork[f] EXCEPT !.made = TRUE]
      [] s = "workflow" -> [fork[f] EXCEPT !.version = v, !.newest = IF @ > v THEN @ ELSE v]
      [] s = "disable-inherited" -> [fork[f] EXCEPT !.active = FALSE]
      [] s = "ctf-branch" -> [fork[f] EXCEPT !.done = @ \union {"branch", s}]
      [] OTHER -> [fork[f] EXCEPT !.done = @ \union {s}]

\* Deletes and disables end in "|| true".
Swallowed == {"drop-old", "disable-inherited"}

\* apply_protect: 2 is the plan's refusal on a fork that reads back private.
ProtectRefusal(f) == IF fork[f].made /\ "branch" \in fork[f].done /\ FreePlan /\ ~fork[f].public THEN 2 ELSE 1

Refusal(f, s) == IF s \in Swallowed THEN 0 ELSE IF s = "protect" THEN ProtectRefusal(f) ELSE 1

Outcome(to, rc) == [to |-> to, rc |-> rc]

\* apply_step with every call answered
Answered(f, s, v) ==
    IF Accepts(f, s) THEN {Outcome(Applied(f, s, v), 0)} ELSE {Outcome(fork[f], Refusal(f, s))}

\* apply_step with a call that failed, or that landed and whose answer was
\* lost; ctf-branch may stop between its two writes.
Faulty(f, s, v) ==
    LET rc == IF s \in Swallowed THEN 0 ELSE 1
    IN  {Outcome(fork[f], rc)}
        \union {Outcome(Applied(f, s, v), rc) : ok \in {Accepts(f, s)} \intersect {TRUE}}
        \union {Outcome([fork[f] EXCEPT !.done = @ \union {"branch"}], rc) :
                    half \in {s = "ctf-branch" /\ fork[f].made} \intersect {TRUE}}

\* An answer of "not done", or none, leads to the apply.  Workflows GitHub has
\* yet to index read as none.
Check(t) ==
    /\ AtOp(t, "check")
    /\ LET f == Target(t)
           s == Step(t)
           unindexed == s = "disable-inherited" /\ fork[f].made /\ ~fork[f].indexed
           n == IF Holds(f, s, term[t].v) THEN 2 ELSE 1
           onto(k, saw) == term' = [term EXCEPT ![t].todo = SubSeq(@, k + 1, Len(@)), ![t].saw = saw,
                                                ![t].early = @ \/ unindexed]
       IN  \/ UNCHANGED spare /\ onto(n, IF n = 1 THEN Looked(f) ELSE Unseen)
           \/ AppliesTo(f, s) /\ n = 2 /\ Fault /\ onto(1, Unseen)
    /\ UNCHANGED <<fork, package, launched, told, weakened>>

\* Defect: only a protection that fails ends a command.
EndsOnProtect(c, s, rc) == rc = 1 /\ s = "protect"

\* Where a failed step ends the command: under errexit, which is off in the
\* wizard ("if cmd_org; then"), and where cmd_org and cmd_launch ask for it.
EndsCommand(c, s, rc) ==
    \/ rc # 0 /\ c \in {"org", "upgrade"} /\ ~(s = "protect" /\ rc = 2)
    \/ rc # 0 /\ c = "launch"
    \/ rc = 1 /\ c = "wizard" /\ s = "protect"

ApplyTo(t, f, s, o) ==
    /\ fork' = [fork EXCEPT ![f] = o.to]
    /\ weakened' = IF s = "protect" /\ s \in o.to.done THEN weakened \ {f} ELSE weakened
    /\ IF EndsCommand(term[t].cmd, s, o.rc)
       THEN Stops(t)
       ELSE term' = [term EXCEPT ![t].todo = Tail(@), ![t].saw = Unseen,
                                 ![t].pending = IF o.rc = 2 THEN @ \union {f} ELSE @,
                                 ![t].clean = @ /\ (s \in Swallowed => o.to = Applied(f, s, term[t].v))]

Apply(t) ==
    /\ AtOp(t, "apply")
    /\ LET f == Target(t)
           s == Step(t)
           v == term[t].v
       IN  \/ \E o \in Answered(f, s, v) : UNCHANGED spare /\ ApplyTo(t, f, s, o)
           \/ \E o \in Faulty(f, s, v) : Fault /\ ApplyTo(t, f, s, o)
    /\ UNCHANGED <<package, launched, told>>

\* mirror_image: a package is private when it is made, and keeps its visibility.
Mirror(t) ==
    /\ AtOp(t, "mirror")
    /\ \/ package' = (IF package = "none" THEN "private" ELSE package) /\ Onward(t, 1) /\ UNCHANGED spare
       \/ Fault /\ UNCHANGED package
          /\ IF term[t].cmd = "org" THEN Stops(t) ELSE Onward(t, 1)
    /\ UNCHANGED <<fork, launched, told, weakened>>
-----------------------------------------------------------------------------
(* privatize_forks: the box is asked once, at the start. *)

BoxSays == IF launched THEN "launched" ELSE "not-launched"

\* Defect: a box that does not answer is taken for one that is not launched.
StaysOpenIfLaunched(state) == state = "launched"

\* Launched or unknown: nothing is changed.
StaysOpen(state) == state # "not-launched"

ReadBox(t) ==
    /\ AtOp(t, "box")
    /\ \E state \in {BoxSays, "unknown"} :
         /\ IF state = "unknown" THEN Fault ELSE UNCHANGED spare
         /\ term' = [term EXCEPT ![t].box = state,
                                 ![t].todo = IF Step(t) = "private" /\ StaysOpen(state) THEN <<>> ELSE Tail(@)]
    /\ UNCHANGED <<fork, package, launched, told, weakened>>

\* Detached, forked by nobody, and public: the next instruction hides it.
Eligible(f) == fork[f].made /\ ~fork[f].attached /\ ~fork[f].visited /\ fork[f].public

ReadEligible(t) ==
    /\ AtOp(t, "eligible")
    /\ \/ UNCHANGED spare /\ Eligible(Target(t))
          /\ term' = [term EXCEPT ![t].todo = Tail(@), ![t].saw = Looked(Target(t))]
       \/ UNCHANGED spare /\ ~Eligible(Target(t)) /\ Onward(t, 2)
       \/ Fault /\ Onward(t, 2)
    /\ UNCHANGED <<fork, package, launched, told, weakened>>

Hidden(k) == [k EXCEPT !.public = FALSE, !.shut = launched]

Hide(t) ==
    /\ AtOp(t, "hide") /\ Written(t)
    /\ \/ UNCHANGED spare /\ fork' = [fork EXCEPT ![Target(t)] = Hidden(@)]
       \/ Fault /\ (UNCHANGED fork \/ fork' = [fork EXCEPT ![Target(t)] = Hidden(@)])
    /\ UNCHANGED <<package, launched, told, weakened>>
-----------------------------------------------------------------------------
(* launch *)

\* Detached, and no scoring run was refused the image.
Preflight(t) ==
    /\ AtOp(t, "preflight")
    /\ LET k == fork[Target(t)] IN
       \/ UNCHANGED spare /\ (IF k.made /\ ~k.attached /\ ~k.refused THEN Onward(t, 1) ELSE Unclean(t, 1))
       \/ Fault /\ Unclean(t, 1)
    /\ UNCHANGED <<fork, package, launched, told, weakened>>

PackagePrivate(t) ==
    /\ AtOp(t, "package")
    /\ \/ UNCHANGED spare /\ (IF package = "private" THEN Onward(t, 1) ELSE Unclean(t, 1))
       \/ Fault /\ Unclean(t, 1)
    /\ UNCHANGED <<fork, package, launched, told, weakened>>

Refuse(t) ==
    /\ AtOp(t, "refuse")
    /\ IF term[t].clean THEN Onward(t, 1) ELSE Stops(t)
    /\ UNCHANGED <<fork, package, launched, spare, told, weakened>>

\* The poll; LAUNCH_WAIT_SECS may run out before any press, or any answer.
Wait(t) ==
    /\ AtOp(t, "wait")
    /\ \/ UNCHANGED spare /\ (IF launched THEN Onward(t, 1) ELSE Stops(t))
       \/ Fault /\ Stops(t)
    /\ UNCHANGED <<fork, package, launched, told, weakened>>

ReadVisible(t) ==
    /\ AtOp(t, "visible")
    /\ \/ UNCHANGED spare /\ Onward(t, IF fork[Target(t)].public THEN 2 ELSE 1)
       \/ Fault /\ Stops(t)
    /\ UNCHANGED <<fork, package, launched, told, weakened>>

Opened(k) == [k EXCEPT !.public = TRUE, !.shut = FALSE]

Flip(t) ==
    /\ AtOp(t, "flip")
    /\ \/ UNCHANGED spare /\ Onward(t, 1) /\ fork' = [fork EXCEPT ![Target(t)] = Opened(@)]
       \/ Fault /\ Stops(t) /\ (UNCHANGED fork \/ fork' = [fork EXCEPT ![Target(t)] = Opened(@)])
    /\ UNCHANGED <<package, launched, told, weakened>>

Verify(t) ==
    /\ AtOp(t, "verify")
    /\ \/ UNCHANGED spare /\ (IF Holds(Target(t), "protect", term[t].v) THEN Onward(t, 1) ELSE Stops(t))
       \/ Fault /\ Stops(t)
    /\ UNCHANGED <<fork, package, launched, told, weakened>>
-----------------------------------------------------------------------------
(* doctor, and what a command reports. *)

\* A cell of the matrix: done, pending, or missing.
Cell(t) ==
    /\ AtOp(t, "cell")
    /\ LET f == Target(t)
           s == Step(t)
           unindexed == s = "disable-inherited" /\ fork[f].made /\ ~fork[f].indexed
           pending == s = "protect" /\ term[t].box = "not-launched" /\ fork[f].made /\ ~fork[f].public
           miss(n) == IF pending
                      THEN term' = [term EXCEPT ![t].todo = Tail(@), ![t].pending = @ \union {f}]
                      ELSE Unclean(t, n)
       IN  \/ UNCHANGED spare /\ Holds(f, s, term[t].v)
              /\ term' = [term EXCEPT ![t].todo = Tail(@), ![t].early = @ \/ unindexed]
           \/ UNCHANGED spare /\ ~Holds(f, s, term[t].v) /\ miss(1)
           \/ AppliesTo(f, s) /\ Fault /\ (miss(1) \/ Unclean(t, 1))
    /\ UNCHANGED <<fork, package, launched, told, weakened>>

Grant(t) ==
    /\ AtOp(t, "grant")
    /\ \/ UNCHANGED spare /\ (IF fork[Target(t)].refused THEN Unclean(t, 1) ELSE Onward(t, 1))
       \/ Fault /\ Unclean(t, 1)
    /\ UNCHANGED <<fork, package, launched, told, weakened>>

\* Its exit status is zero unless doctor found a miss.
Report(t) ==
    /\ Running(t) /\ term[t].todo = <<>> /\ Stops(t)
    /\ told' = IF term[t].cmd = "doctor" /\ ~term[t].clean THEN told
               ELSE [told EXCEPT ![term[t].cmd] =
                       [cmd |-> term[t].cmd, v |-> term[t].v, pending |-> term[t].pending,
                        clean |-> term[t].clean, early |-> term[t].early]]
    /\ UNCHANGED <<fork, package, launched, spare, weakened>>
-----------------------------------------------------------------------------
(* Around the terminals. *)

Detach(f) ==
    /\ fork[f].made /\ fork[f].attached
    /\ fork' = [fork EXCEPT ![f].attached = FALSE]
    /\ UNCHANGED <<package, launched, term, spare, told, weakened>>

\* The organizer presses Launch in /admin.
Press ==
    /\ ~launched /\ launched' = TRUE
    /\ UNCHANGED <<fork, package, term, spare, told, weakened>>

\* A contestant forks what is public.
Visit(f) ==
    /\ fork[f].made /\ fork[f].public /\ ~fork[f].visited /\ Uses("visits")
    /\ fork' = [fork EXCEPT ![f].visited = TRUE]
    /\ UNCHANGED <<package, launched, term, told, weakened>>

\* GitHub indexes the inherited workflows of a fork.
Index(f) ==
    /\ fork[f].made /\ ~fork[f].indexed
    /\ fork' = [fork EXCEPT ![f].indexed = TRUE, ![f].active = TRUE]
    /\ UNCHANGED <<package, launched, term, spare, told, weakened>>

\* Somebody allows force-pushes on a fork's ctf branch.
Weaken(f) ==
    /\ "protect" \in fork[f].done /\ Uses("weakenings")
    /\ fork' = [fork EXCEPT ![f].done = @ \ {"protect"}]
    /\ weakened' = weakened \union {f}
    /\ UNCHANGED <<package, launched, term, told>>

\* A scoring run is refused the image, or is granted it again.
Pull(f) ==
    /\ fork[f].version # Absent /\ package # "none" /\ Uses("pulls")
    /\ fork' = [fork EXCEPT ![f].refused = ~@]
    /\ UNCHANGED <<package, launched, term, told, weakened>>

ProvInit ==
    /\ \E session \in Sessions :
         /\ fork = [f \in Forks |-> IF session.new THEN Unmade ELSE Ready]
         /\ package = IF session.new THEN "none" ELSE "private"
         /\ spare = session.uses
    /\ launched = FALSE
    /\ term = [t \in Terminals |-> NoCommand]
    /\ told = [c \in Commands |-> Silent]
    /\ weakened = {}

ProvNext ==
    \/ \E t \in Terminals, c \in Commands, v \in Checkouts : Run(t, c, v)
    \/ \E t \in Terminals :
          \/ Check(t) \/ Apply(t) \/ Mirror(t)
          \/ ReadBox(t) \/ ReadEligible(t) \/ Hide(t)
          \/ Preflight(t) \/ PackagePrivate(t) \/ Refuse(t) \/ Wait(t)
          \/ ReadVisible(t) \/ Flip(t) \/ Verify(t)
          \/ Cell(t) \/ Grant(t) \/ Report(t)
    \/ \E f \in Forks : Detach(f) \/ Visit(f) \/ Index(f) \/ Weaken(f) \/ Pull(f)
    \/ Press

ProvSpec == ProvInit /\ [][ProvNext]_provVars
-----------------------------------------------------------------------------
ProvTypeOK ==
    /\ \A f \in Forks : fork[f].version \in Checkouts \union {Absent} /\ fork[f].active \in BOOLEAN
    /\ package \in {"none", "private"} /\ launched \in BOOLEAN /\ weakened \subseteq Forks

\* A workflow of that version was put on the fork: it is there, or another
\* checkout put an older one in its place.
OlderSince(f, s, v) == s = "workflow" /\ fork[f].newest >= v

\* Every step is done on every fork, but for a protection the plan puts off
\* until launch and one that was removed by hand, and a workflow another
\* checkout replaced by an older one.
Provisioned(said) ==
    /\ package # "none"
    /\ \A f \in Forks, i \in DOMAIN Steps :
         \/ Holds(f, Steps[i], said.v) \/ OlderSince(f, Steps[i], said.v)
         \/ Steps[i] = "protect" /\ f \in weakened
         \/ Steps[i] = "protect" /\ f \in said.pending /\ (launched \/ ~fork[f].public)

Sure(c) == told[c] # Silent /\ told[c].clean /\ ~told[c].early

\* What org, launch and doctor report is so, whatever calls failed or whose
\* answers were lost: org that no delete or disable failed silently and GitHub
\* had indexed the workflows, doctor with exit status 0, launch that every fork
\* is open and protected (ctf-setup.sh:1451-1491).  A fork launch reported is
\* shut again only by a pass that was hiding forks when Launch was pressed.
ReportsTrue ==
    /\ Sure("org") => Provisioned(told["org"])
    /\ Sure("doctor") => \A f \in Forks, i \in DOMAIN Steps :
          \/ Holds(f, Steps[i], told["doctor"].v) \/ OlderSince(f, Steps[i], told["doctor"].v)
          \/ Steps[i] = "protect" /\ (f \in weakened \/ f \in told["doctor"].pending)
    /\ told["launch"] # Silent => \A f \in Forks :
          (fork[f].public \/ fork[f].shut) /\ ("protect" \in fork[f].done \/ f \in weakened)

ProvInv == ProvTypeOK /\ ReportsTrue

\* No command takes back what is done, whoever presses Launch, forks or runs
\* another checkout meanwhile: a fork is hidden only before launch and while
\* nobody has forked it, a workflow never goes back to an older version, and no
\* step is undone but by hand (ctf-setup.sh:345-350, 1268-1271, 1274-1282).  The
\* reads come before the writes, so that three windows are left, and these alone:
\* Launch is pressed after this command asked the box (1310-1312), the fork is
\* forked after this command read that nobody had (1284-1326), and the version
\* this command met was older than its own, or its read failed.
NothingUndone == [][\A f \in Forks :
    /\ fork[f].public /\ ~fork'[f].public => \E t \in Terminals :
          /\ AtOp(t, "hide") /\ Target(t) = f
          /\ launched => term[t].box = "not-launched"
          /\ fork[f].visited => ~term[t].saw.visited
    /\ fork'[f].version < fork[f].version => \E t \in Terminals :
          AtOp(t, "apply") /\ Target(t) = f /\ term[t].saw.version < term[t].v
    /\ \A s \in fork[f].done \ fork'[f].done : s = "protect" /\ f \in weakened']_provVars

\* Said of the two, and not so, each for a window NothingUndone names: no fork is
\* hidden once the event is launched or it was forked (ctf-setup.sh:1268-1271,
\* 1310-1312), and no workflow is clobbered backwards (345-350).
HiddenInTime == [][\A f \in Forks : fork[f].public /\ ~fork'[f].public => ~launched /\ ~fork[f].visited]_provVars
NeverOlder == [][\A f \in Forks : fork[f].version <= fork'[f].version]_provVars

\* The wizard goes on only from an org that was provisioned: "a failed
\* provisioning is a stop, not a shrug" (ctf-setup.sh:2368-2370).
WizardStops == Sure("wizard") => Provisioned(told["wizard"])
=============================================================================
