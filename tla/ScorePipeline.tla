--------------------------- MODULE ScorePipeline ---------------------------
(***************************************************************************)
(* How a Secure Development score reaches the board.  The scoring workflow  *)
(* upserts one comment per pull request on GitHub; the poller               *)
(* (sync/src/index.js) reads the comments each tick from a durable cursor   *)
(* and posts each new revision to the scorer (scorer/src/serve.js), which   *)
(* judges it against the event settings and writes the solves, first write  *)
(* wins (scorer/src/store.js).  Organizers edit the settings and reset the  *)
(* event meanwhile (AdminSettings).                                         *)
(*                                                                          *)
(* A poller step here is what runs between two awaits of tick or main, and  *)
(* a scorer step what runs between two of the score handler's.  Faults are  *)
(* the ones the code handles: a failed GitHub or Redis read, a scorer that  *)
(* answers 5xx or whose answer is lost while its write goes on, a failed    *)
(* save of the cursor, and a crash of either service.                       *)
(***************************************************************************)
EXTENDS AdminSettings, FiniteSets, SequencesExt

CONSTANTS
    Comments,       \* comment ids
    ByBot,          \* the ones written by the configured comment author
    RepoOf,         \* the target repository each comment is on
    AuthorOf,       \* the contestant each comment's marker names
    Challenges,     \* challenge ids
    Bodies,         \* what a comment can say
    TargetLists,    \* the lists of targets secureDevTargets may hold
    SeenCap,        \* SEEN_CAP, 500 in the code
    PageSize,       \* per_page, 100 in the code
    MaxFutureSkew,  \* MAX_FUTURE_SKEW_MS
    GitHubSkew,     \* how far GitHub's clock runs ahead of the scorer's
    UpdatedAtUnit,  \* instants in a unit of updated_at: a second, in milliseconds
    MaxEdits,       \* bound of the model: comment edits
    MaxFaults,      \* bound of the model: transient faults
    MaxCrashes      \* bound of the model: service crashes

Repos == {RepoOf[c] : c \in Comments}
Authors == {AuthorOf[c] : c \in Comments}

\* A placeholder carries no marker; "bad" carries one the poller cannot use;
\* "foreign" one it can, that the scorer's rubric does not know; "score" the
\* solved challenges.
Body == [kind : {"placeholder", "bad", "foreign", "score"},
         solved : SUBSET Challenges]

ASSUME PipelineAssumption ==
    /\ ByBot \subseteq Comments
    /\ DOMAIN RepoOf = Comments /\ DOMAIN AuthorOf = Comments
    /\ Bodies \subseteq Body
    /\ \A l \in TargetLists : l \in Seq(Repos) /\ l # <<>>
    /\ {SeenCap, PageSize, UpdatedAtUnit} \subseteq Nat \ {0}
    /\ {MaxFutureSkew, GitHubSkew, MaxEdits, MaxFaults, MaxCrashes} \subseteq Nat
    /\ IsFiniteSet(Comments)

VARIABLES
    comment,   \* GitHub: each comment's last edit and text
    mem,       \* the poller's state, in its process
    durable,   \* ctf:sync:state, the poller's state in Redis
    poller,    \* where the poller is in its loop
    calls,     \* POST /score requests not yet answered and heard
    solves,    \* ctf:solves:<target>, the time of each solve
    refused,   \* history: revisions the scorer refused for good, and why
    blind,     \* history: solves recorded while the policy could not be read
    wipedAt,   \* history: the clock when the solves were last wiped
    logFull,   \* history: the pause log was at its cap at some time
    edits, faults, crashes

pipelineVars == <<comment, mem, durable, poller, calls, solves, refused, blind, wipedAt,
                  logFull, edits, faults, crashes>>
vars == <<adminVars, pipelineVars>>

Solvable == Authors \X Challenges
NoSolves == [k \in Solvable |-> NoTime]

\* A revision as GitHub lists it, and the key the poller dedupes it by.
NoBody == [kind |-> "placeholder", solved |-> {}]
Revision == [id : Comments, at : Instant, body : Body]
SeenKey(rev) == <<rev.id, rev.at>>

\* etag holds the last page the poller was answered with, if it has one.
NoCursor == [since |-> NoTime, seen |-> <<>>, etag |-> {}]
FreshState == [repos |-> [r \in Repos |-> NoCursor], resetAt |-> NoTime,
               ingested |-> 0, dropped |-> 0]

\* todo: targets still to poll; page: comments of this target still to handle;
\* next and etag: the cursor the page ends with; stopAt: its first failure.
AtRest(pc) == [pc |-> pc, todo |-> <<>>, page |-> <<>>, next |-> NoTime,
               etag |-> {}, stopAt |-> NoTime]

Call == [rev : Revision, heard : BOOLEAN, iso : Stamp, blind : BOOLEAN,
         phase : {"arrived", "writing", "accepted", "refused", "rejected", "error"}]

Posted(c) == comment[c].at # NoTime
Rev(c) == [id |-> c, at |-> comment[c].at, body |-> comment[c].body]
Keys(rev) == {AuthorOf[rev.id]} \X rev.body.solved
Fault == faults < MaxFaults /\ faults' = faults + 1

(***************************************************************************)
(* GitHub (external).  An edit takes GitHub's time, to the second.  A        *)
(* comment is not edited twice within one unit of updated_at, and fewer     *)
(* comments than a page holds share one.                                    *)
(***************************************************************************)
GitHubNow == LET t == now + GitHubSkew IN t - (t % UpdatedAtUnit)

Upsert(c, body) ==
    /\ edits < MaxEdits
    /\ comment[c].at < GitHubNow
    /\ Cardinality({d \in Comments : RepoOf[d] = RepoOf[c] /\ comment[d].at = GitHubNow}) + 1 < PageSize
    /\ comment' = [comment EXCEPT ![c] = [at |-> GitHubNow, body |-> body]]
    /\ edits' = edits + 1
    /\ UNCHANGED <<adminVars, mem, durable, poller, calls, solves, refused, blind, wipedAt, logFull, faults, crashes>>

\* The comments a request lists, those updated at or after since.
Listed(r, since) == {c \in Comments : RepoOf[c] = r /\ Posted(c) /\ comment[c].at >= since}

\* A page of them, oldest first; GitHub is free to order equal times.
Pages(r, since) ==
    {page \in SeqOf({Rev(c) : c \in Listed(r, since)}, PageSize) :
        /\ \A i, j \in DOMAIN page : i < j => page[i].id # page[j].id /\ page[i].at <= page[j].at
        /\ \A c \in Listed(r, since) :
              \/ Contains(page, Rev(c))
              \/ Len(page) = PageSize /\ Last(page).at <= comment[c].at}

\* What Array.filter leaves of a list without repetitions, in its order.
Filtered(list, keep) ==
    {s \in SeqOf(ToSet(list) \cap keep, Len(list)) :
        /\ ToSet(list) \cap keep \subseteq ToSet(s)
        /\ \A i, j \in DOMAIN s : i < j =>
              \E m, n \in DOMAIN list : m < n /\ list[m] = s[i] /\ list[n] = s[j]}

(***************************************************************************)
(* The poller.                                                              *)
(***************************************************************************)
Cursor == mem.repos[Head(poller.todo)]
PollerAt(pc) == poller.pc = pc
PollerOnly == UNCHANGED <<adminVars, comment, durable, calls, solves, refused, blind, wipedAt, logFull, edits, crashes>>

\* main: the durable state is read before the first tick (the poller holds
\* until Redis answers).
Boot ==
    /\ PollerAt("down")
    /\ mem' = durable
    /\ poller' = AtRest("idle")
    /\ UNCHANGED faults /\ PollerOnly

\* A reset epoch other than the one last seen drops every cursor.
HonourReset(epoch) ==
    mem' = IF epoch # NoTime /\ epoch # mem.resetAt
           THEN [mem EXCEPT !.repos = FreshState.repos, !.resetAt = epoch]
           ELSE mem

StartTick(targets) ==
    /\ PollerAt("idle")
    /\ poller' = [AtRest("poll") EXCEPT !.todo = targets]
    /\ \/ HonourReset(settings.resetAt) /\ UNCHANGED faults
       \/ HonourReset(NoTime) /\ settings.resetAt # NoTime /\ Fault   \* unreadable: no reset
    /\ PollerOnly

\* Unreadable targets fail the whole tick closed.
TargetsUnreadable ==
    /\ PollerAt("idle")
    /\ Fault
    /\ poller' = AtRest("save")
    /\ UNCHANGED mem /\ PollerOnly

Fetch ==
    /\ PollerAt("poll")
    /\ \E page \in Pages(Head(poller.todo), Cursor.since) :
          \/ /\ page \in Cursor.etag                \* 304: nothing new
             /\ poller' = [poller EXCEPT !.pc = "handle", !.page = <<>>, !.stopAt = NoTime,
                                         !.next = Cursor.since, !.etag = Cursor.etag]
          \/ /\ page \notin Cursor.etag
             /\ \E kept \in Filtered(page, {rev \in ToSet(page) : rev.id \in ByBot}) :
                   poller' = [poller EXCEPT !.pc = "handle", !.page = kept, !.stopAt = NoTime,
                                 !.next = IF page = <<>> THEN Cursor.since ELSE Last(page).at,
                                 !.etag = {page}]
    /\ UNCHANGED <<mem, faults>> /\ PollerOnly

\* After the last target the heartbeat goes out and the state is saved.
NextTarget == IF Len(poller.todo) = 1 THEN AtRest("save")
              ELSE [AtRest("poll") EXCEPT !.todo = Tail(poller.todo)]

FetchFails ==
    /\ PollerAt("poll")
    /\ Fault
    /\ poller' = NextTarget
    /\ UNCHANGED mem /\ PollerOnly

\* The comments left to handle, and how the next one is disposed of.
Pending == PollerAt("handle") /\ poller.page # <<>>
Next1 == Head(poller.page)
Duplicate(rev) == Contains(Cursor.seen, SeenKey(rev))
PreReset(rev) == mem.resetAt # NoTime /\ rev.at < mem.resetAt
Submits(rev) == ~Duplicate(rev) /\ ~PreReset(rev) /\ rev.body.kind \in {"foreign", "score"}

LastOf(s, n) == IF Len(s) > n THEN SubSeq(s, Len(s) - n + 1, Len(s)) ELSE s
MarkSeen(st, r, rev) ==
    [st EXCEPT !.repos[r].seen =
        IF Contains(@, SeenKey(rev)) THEN @ ELSE LastOf(Append(@, SeenKey(rev)), SeenCap)]
Drop(st) == [st EXCEPT !.dropped = @ + 1]

\* Duplicates, comments from before the reset and comments with no usable
\* marker are marked and passed over; an unusable marker is counted as a drop.
SkipComment ==
    /\ Pending /\ ~Submits(Next1)
    /\ LET marked == MarkSeen(mem, Head(poller.todo), Next1)
           isDrop == ~Duplicate(Next1) /\ ~PreReset(Next1) /\ Next1.body.kind = "bad"
       IN  mem' = IF isDrop THEN Drop(marked) ELSE marked
    /\ poller' = [poller EXCEPT !.page = Tail(@)]
    /\ UNCHANGED faults /\ PollerOnly

\* Defect: the state is saved as soon as a revision is marked, before its answer.
SubmitThenSave ==
    /\ Pending /\ Submits(Next1)
    /\ mem' = MarkSeen(mem, Head(poller.todo), Next1)
    /\ durable' = mem'
    /\ calls' = calls \union {[rev |-> Next1, heard |-> TRUE, iso |-> NoTime,
                               blind |-> FALSE, phase |-> "arrived"]}
    /\ poller' = [poller EXCEPT !.pc = "await"]
    /\ UNCHANGED <<adminVars, comment, solves, refused, blind, wipedAt, logFull, edits, faults, crashes>>

Submit ==
    /\ Pending /\ Submits(Next1)
    /\ mem' = MarkSeen(mem, Head(poller.todo), Next1)
    /\ calls' = calls \union {[rev |-> Next1, heard |-> TRUE, iso |-> NoTime,
                               blind |-> FALSE, phase |-> "arrived"]}
    /\ poller' = [poller EXCEPT !.pc = "await"]
    /\ UNCHANGED <<adminVars, comment, durable, solves, refused, blind, wipedAt, logFull, edits, faults, crashes>>

\* Defect: a score the scorer rejects is not counted.
Uncounted(st, phase) == IF phase = "accepted" THEN [st EXCEPT !.ingested = @ + 1] ELSE st

Verdict(st, phase) ==
    CASE phase = "accepted" -> [st EXCEPT !.ingested = @ + 1]
      [] phase = "refused"  -> st
      [] phase = "rejected" -> Drop(st)

PageGoesOn == [poller EXCEPT !.pc = "handle", !.page = Tail(@)]

\* The first failure of a page is where the cursor will stop.
RetryLater ==
    /\ \E unmarked \in Filtered(Cursor.seen, ToSet(Cursor.seen) \ {SeenKey(Next1)}) :
          mem' = [mem EXCEPT !.repos[Head(poller.todo)].seen = unmarked]
    /\ poller' = [PageGoesOn EXCEPT !.stopAt = IF @ = NoTime THEN Next1.at ELSE @]

Hear(q) ==
    /\ PollerAt("await") /\ q.heard
    /\ q.phase \in {"accepted", "refused", "rejected", "error"}
    /\ calls' = calls \ {q}
    /\ IF q.phase = "error" THEN RetryLater
       ELSE mem' = Verdict(mem, q.phase) /\ poller' = PageGoesOn
    /\ UNCHANGED <<adminVars, comment, durable, solves, refused, blind, wipedAt, logFull, edits, faults, crashes>>

\* What the scorer still does for callers that no longer listen.
GoesOn(qs) == {[q EXCEPT !.heard = FALSE] : q \in {p \in qs : p.phase \in {"arrived", "writing"}}}

\* The connection breaks before the answer: the scorer's work goes on unheard.
LoseAnswer(q) ==
    /\ PollerAt("await") /\ q.heard
    /\ Fault
    /\ calls' = (calls \ {q}) \union GoesOn({q})
    /\ RetryLater
    /\ UNCHANGED <<adminVars, comment, durable, solves, refused, blind, wipedAt, logFull, edits, crashes>>

\* Defect: the cursor moves to the end of the page whatever failed in it.
FinishToTheEnd ==
    /\ PollerAt("handle") /\ poller.page = <<>>
    /\ LET r == Head(poller.todo)
       IN  mem' = [mem EXCEPT !.repos[r].since = poller.next, !.repos[r].etag = poller.etag]
    /\ poller' = NextTarget
    /\ UNCHANGED faults /\ PollerOnly

\* Defect: a page with a failure keeps its etag, so the retry is answered 304.
FinishWithEtag ==
    /\ PollerAt("handle") /\ poller.page = <<>>
    /\ LET r == Head(poller.todo)
       IN  mem' = [mem EXCEPT
               !.repos[r].since = IF poller.stopAt # NoTime THEN poller.stopAt ELSE poller.next,
               !.repos[r].etag  = poller.etag]
    /\ poller' = NextTarget
    /\ UNCHANGED faults /\ PollerOnly

FinishPage ==
    /\ PollerAt("handle") /\ poller.page = <<>>
    /\ LET r == Head(poller.todo)
           stopped == poller.stopAt # NoTime
       IN  mem' = [mem EXCEPT
               !.repos[r].since = IF stopped THEN poller.stopAt ELSE poller.next,
               !.repos[r].etag  = IF stopped THEN {} ELSE poller.etag]
    /\ poller' = NextTarget
    /\ UNCHANGED faults /\ PollerOnly

\* A save that fails is retried after the next tick.
Save ==
    /\ PollerAt("save")
    /\ \/ durable' = mem /\ UNCHANGED faults
       \/ Fault /\ UNCHANGED durable
    /\ poller' = AtRest("idle")
    /\ UNCHANGED <<adminVars, comment, mem, calls, solves, refused, blind, wipedAt, logFull, edits, crashes>>

PollerStep ==
    \/ Boot
    \/ \E l \in TargetLists : StartTick(l)
    \/ TargetsUnreadable
    \/ Fetch
    \/ FetchFails
    \/ SkipComment
    \/ Submit
    \/ \E q \in calls : Hear(q) \/ LoseAnswer(q)
    \/ FinishPage
    \/ Save

PollerCrash ==
    /\ ~PollerAt("down")
    /\ crashes < MaxCrashes
    /\ crashes' = crashes + 1
    /\ poller' = AtRest("down")
    /\ mem' = FreshState
    /\ calls' = GoesOn(calls)
    /\ UNCHANGED <<adminVars, comment, durable, solves, refused, blind, wipedAt, logFull, edits, faults>>

(***************************************************************************)
(* The scorer.                                                              *)
(***************************************************************************)
\* An answer nobody waits for is gone.
Answer(q, phase) == calls' = (calls \ {q}) \union (IF q.heard THEN {[q EXCEPT !.phase = phase]} ELSE {})
ScorerOnly == UNCHANGED <<adminVars, comment, mem, durable, poller, wipedAt, logFull, edits, crashes>>

\* The policy is read, then the score judged; a policy that cannot be read
\* records the score.
Judge(q) ==
    /\ q.phase = "arrived"
    /\ LET t == ScoreTime(q.rev.at, now, MaxFutureSkew)
           verdict == JudgeScoreTime(t, settings)
           Writing(b) == (calls \ {q}) \union {[q EXCEPT !.phase = "writing", !.iso = t, !.blind = b]}
       IN  \/ /\ q.rev.body.kind = "foreign"
              /\ Answer(q, "rejected")
              /\ UNCHANGED <<faults, refused>>
           \/ /\ q.rev.body.kind # "foreign" /\ verdict = "record"
              /\ calls' = Writing(FALSE)
              /\ UNCHANGED <<faults, refused>>
           \/ /\ q.rev.body.kind # "foreign" /\ verdict = "retry"
              /\ Answer(q, "error")
              /\ UNCHANGED <<faults, refused>>
           \/ /\ q.rev.body.kind # "foreign" /\ verdict \in Refusals
              /\ Answer(q, "refused")
              /\ refused' = refused \union {[key |-> SeenKey(q.rev), why |-> verdict]}
              /\ UNCHANGED faults
           \/ /\ q.rev.body.kind # "foreign"        \* the policy is unreadable
              /\ calls' = Writing(TRUE)
              /\ Fault
              /\ UNCHANGED refused
    /\ UNCHANGED <<solves, blind>> /\ ScorerOnly

\* Defect: a replay overwrites the time of the solve.
SetOver(keys, t) == [k \in Solvable |-> IF k \in keys THEN t ELSE solves[k]]

\* HSETNX: the first write of a solve is kept.
SetNX(keys, t) == [k \in Solvable |-> IF k \in keys /\ solves[k] = NoTime THEN t ELSE solves[k]]

Write(q, keys) ==
    /\ solves' = SetNX(keys, q.iso)
    /\ blind' = IF q.blind THEN blind \union {k \in keys : solves[k] = NoTime} ELSE blind

RecordSolves(q) ==
    /\ q.phase = "writing"
    /\ \/ Write(q, Keys(q.rev)) /\ Answer(q, "accepted") /\ UNCHANGED faults
       \/ \E part \in SUBSET Keys(q.rev) :      \* the pipeline fails part way
             Write(q, part) /\ Answer(q, "error") /\ Fault
    /\ UNCHANGED refused /\ ScorerOnly

ScorerStep == \E q \in calls : Judge(q) \/ RecordSolves(q)

\* Every request the scorer holds dies with it; the poller sees its own fail.
ScorerCrash ==
    /\ calls # {}
    /\ crashes < MaxCrashes
    /\ crashes' = crashes + 1
    /\ calls' = {[q EXCEPT !.phase = "error"] : q \in {p \in calls : p.heard}}
    /\ UNCHANGED <<adminVars, comment, mem, durable, poller, solves, refused, blind, wipedAt, logFull, edits, faults>>

(***************************************************************************)
(* The organizers: every settings write, and the reset, whose wipe takes    *)
(* the solves before its script freezes the event and moves the epoch.      *)
(***************************************************************************)
OrganizerStep(a) ==
    /\ AdminStep(a)
    /\ IF request[a].op = "wipe" /\ request'[a].op = "wiped"
       THEN solves' = NoSolves /\ blind' = {} /\ wipedAt' = now
       ELSE UNCHANGED <<solves, blind, wipedAt>>
    /\ logFull' = (logFull \/ Len(settings'.pauses) = PauseLogCap)
    /\ UNCHANGED <<comment, mem, durable, poller, calls, refused, edits, faults, crashes>>

TimePasses == Tick /\ UNCHANGED pipelineVars

Init ==
    /\ AdminInit
    /\ comment = [c \in Comments |-> [at |-> NoTime, body |-> NoBody]]
    /\ durable = FreshState
    /\ mem = FreshState
    /\ poller = AtRest("down")
    /\ calls = {}
    /\ solves = NoSolves
    /\ refused = {}
    /\ blind = {}
    /\ wipedAt = NoTime
    /\ logFull = FALSE
    /\ edits = 0 /\ faults = 0 /\ crashes = 0

Next ==
    \/ \E c \in Comments, b \in Bodies : Upsert(c, b)
    \/ PollerStep
    \/ PollerCrash
    \/ ScorerStep
    \/ ScorerCrash
    \/ \E a \in Admins : OrganizerStep(a)
    \/ TimePasses

Spec == Init /\ [][Next]_vars

\* The poller loops and the scorer answers what it holds; both processes are
\* restarted when they stop.
FairSpec == Spec /\ WF_vars(PollerStep) /\ WF_vars(ScorerStep)

(***************************************************************************)
(* Types.                                                                   *)
(***************************************************************************)
Cursors == [since : Stamp, seen : Seq(Comments \X Instant), etag : SUBSET Seq(Revision)]
PollState == [repos : [Repos -> Cursors], resetAt : Stamp, ingested : Nat, dropped : Nat]

TypeOK ==
    /\ AdminTypeOK
    /\ comment \in [Comments -> [at : Stamp, body : Body]]
    /\ \A st \in {mem, durable} :
          /\ st.ingested \in Nat /\ st.dropped \in Nat /\ st.resetAt \in Stamp
          /\ \A r \in Repos :
                /\ st.repos[r].since \in Stamp
                /\ Len(st.repos[r].seen) <= SeenCap
                /\ st.repos[r].seen \in Seq(Comments \X Instant)
    /\ poller.pc \in {"down", "idle", "poll", "handle", "await", "save"}
    /\ PollerAt("await") <=> Cardinality({q \in calls : q.heard}) = 1
    /\ \A q \in calls : q \in Call
    /\ solves \in [Solvable -> Stamp]

(***************************************************************************)
(* No score is lost.                                                        *)
(***************************************************************************)
\* The poller state st will not look at this revision again: it remembers it,
\* or its cursor has moved beyond it.
Consumed(st, rev) ==
    LET cursor == st.repos[RepoOf[rev.id]]
    IN  Contains(cursor.seen, SeenKey(rev)) \/ rev.at < cursor.since

Predates(st, rev) == \/ st.resetAt # NoTime /\ rev.at < st.resetAt
                     \/ wipedAt # NoTime /\ rev.at <= wipedAt + GitHubSkew

BeingSubmitted(rev) == \E q \in calls : q.heard /\ q.rev = rev
Recorded(rev) == \A k \in Keys(rev) : solves[k] # NoTime
Refused(rev) == \E r \in refused : r.key = SeenKey(rev)
Scores == {Rev(c) : c \in {d \in ByBot : Posted(d) /\ comment[d].body.kind = "score"}}

Settled(st, rev) == Recorded(rev) \/ Refused(rev) \/ Predates(st, rev)

\* A score the poller has consumed is on the board, was refused for good, is
\* being submitted, or is from before the last reset: neither a page cut
\* short, a scorer failure amid a page, an evicted dedupe key nor a dropped
\* cursor makes tick skip a score it has not delivered.
NoScoreLost == \A rev \in Scores :
    Consumed(mem, rev) => Settled(mem, rev) \/ BeingSubmitted(rev)

\* The same of the state a restart resumes from: what ctf:sync:state says was
\* consumed really was delivered, whenever the poller or the scorer dies and
\* whichever saves failed.
CrashLosesNoScore == \A rev \in Scores :
    Consumed(durable, rev) => Settled(durable, rev)

\* Every score comment the poller gave up on is in the dropped counter an
\* organizer sees, in the process and across a restart: a consumed comment with
\* an unusable marker, or one the scorer rejects, never goes uncounted.
Unusable(st) == {c \in ByBot :
    /\ Posted(c) /\ comment[c].body.kind \in {"bad", "foreign"}
    /\ Consumed(st, Rev(c)) /\ ~Predates(st, Rev(c)) /\ ~BeingSubmitted(Rev(c))}

DropsAreCounted == /\ Cardinality(Unusable(mem)) <= mem.dropped
                   /\ Cardinality(Unusable(durable)) <= durable.dropped

\* A score posted while scoring is open reaches the board: it is recorded,
\* refused for good or wiped, or edited again, or scoring stays in a freeze
\* whose start nobody recorded (the scorer answers 503 until it is lifted).
EveryScoreLands ==
    \A c \in ByBot, t \in 0..(MaxTime + GitHubSkew) :
        (comment[c].at = t /\ comment[c].body.kind = "score")
            ~> \/ comment[c].at # t
               \/ Settled(mem, Rev(c))
               \/ [](settings.paused /\ settings.pausedSince = NoTime)

(***************************************************************************)
(* Only what counts is recorded, with the time it was earned.               *)
(***************************************************************************)
\* No score posted during a freeze is on the board, however long it waited in
\* the poller's backlog, through retries, crashes, resumes and resets (ADR 67),
\* unless the policy was unreadable when the scorer judged it, or the capped
\* log may have had to drop an interval.
NoSolveFromAFreeze ==
    ~logFull => \A k \in Solvable \ blind : solves[k] \notin frozenAt

\* No score posted while scoring was open was refused as frozen, however late
\* the scorer judged it.
NoOpenScoreRefused ==
    \A r \in refused : r.why = "paused" => r.key[2] \notin openAt

\* A solve is never timed further ahead of the scorer's clock than the skew it
\* allows, whatever GitHub's clock says.
NoSolveFromTheFuture == \A k \in Solvable : solves[k] <= now + MaxFutureSkew

\* The types, what was given up on counted, and no solve timed in the future.
PipelineInv == TypeOK /\ DropsAreCounted /\ NoSolveFromTheFuture

\* A solve keeps the time it was first recorded with through every replay of
\* its comment; only the reset's wipe takes it away.
FirstWriteWins ==
    [][\A k \in Solvable :
          solves[k] # NoTime /\ solves'[k] # solves[k]
            => \E a \in Admins : request[a].op = "wipe"]_vars

\* The solve of a comment that still counts is timed by that comment or by an
\* earlier one: a score that waited in a backlog keeps its own time.
WaitingScoreKeepsItsTime ==
    \A rev \in Scores :
        JudgeScoreTime(rev.at, settings) = "record"
            => \A k \in Keys(rev) : solves[k] <= rev.at

\* Once the reset's freeze and epoch are in place, no solve from before the
\* epoch is on the board.
WipeSticks ==
    settings.resetAt # NoTime
        => \A k \in Solvable \ blind : solves[k] # NoTime => solves[k] >= settings.resetAt
=============================================================================
