# OWASP CTF in a Box: a verification project

TLA+ models of the parts of OWASP CTF in a Box that decide whether a
contestant's points are right, and of what organizers do to the box around
them: when a score counts, how it travels from a GitHub comment to the board,
who is on which team, what an answer earns, what a hint costs, what the board,
the metrics and the audit show, and what setup, deployment, imports, seeds and
edits leave behind. TLC checks the models on small instances; TLAPS proves the
main results about the scoring path, the reports and the deployment for every
size.

Paths below are relative to the repository, mounted at `src/`.

## The system

The platform is four long-running processes around one Redis (web app, scorer,
poller, the store), GitHub on one side and an organizer's terminal on the other:

| Component | Code | State it keeps | Operations | Hard behaviour |
|---|---|---|---|---|
| Event settings and pause log | `apps/web/src/lib/admin-store.ts` | `ctf:admin:settings` (freeze flag and its start, scoring window, reset epoch), `ctf:admin:pauses` | settings patch (`updateAdminSettings`), master reset (`resetEvent`) | the time a write carries is taken before its script is sent; several organizers; a reset is a long walk of deletes followed by one script; a capped log |
| Scoring policy | `scorer/src/store.js`, `sync/src/redis.js`, `schedule-window.ts`, `judgeScoreTime` in `scorer/src/serve.js` | none | is this instant in the window, frozen, before the reset | the same rule in three services; boundaries; a freeze of unknown start |
| Sync poller | `sync/src/` | `ctf:sync:state`: per repository a cursor, an etag and the last 500 revisions handled; counters | tick: read the reset epoch and the targets, fetch a page per target, submit each new revision, move the cursor; save | failures amid a page, lost answers, failed saves, crashes, an evicted dedupe key, a reset under way |
| Scorer ingest | `scorer/src/serve.js`, `scorer/src/store.js` | `ctf:solves:<target>` | `POST /score`: read the policy, judge, HSETNX each solve | awaits between read and write; partial pipeline; policy unreadable; clock skew |
| Team store | `apps/web/src/lib/team-store.ts` | `ctf:team:<slug>`, `...:members`, `ctf:user:<login>` (team field), `ctf:joincode:<code>` | create, join, leave, remove, rename, transfer, disband, regenerate code | every script trusts something read round trips earlier; four keys must agree |
| Organizer support | `admin-ops-store.ts` | the same keys | force remove, transfer, add, disband; delete or reset a contestant | disband and delete are a read, then a pipeline that is not atomic with it |
| Score revision and hint charge | `hint-store.ts`, `leaderboard/fold-cache.ts` | `ctf:admin:score-rev`, `ctf:admin:score-lowering`, hints owned and spend | bracket every score-lowering write; charge a hint | an optimistic lock over a gross that was folded earlier |
| Jeopardy, quiz and AI graders | `classic-store.ts`, `quiz-store.ts`, `ai-store.ts`, `ai-token.ts`, `api/ai/event/route.ts` | per-login solves, attempts, totals; counts of solvers; a nonce per signed event, the launch key | submit, grade, award; edit, delete, reset beside them | gate and script are round trips apart; resets that are not one script; single-use tokens with an expiry |
| Leaderboard fold | `leaderboard/` | a memo per app task | join the scorer's solves with the modules, team union, penalties, order, chart | a dozen reads of many moments; failed reads; a fold that began before a reset |
| Score audit | `scripts/score-audit.mjs` | none | recompute the board from the store and compare with the page | the memo between store and page |
| Event metrics | `metrics-store.ts` | none | funnel, rows, hints, timeline, team points, caveats | reads that fail; two spellings of a login; caps |
| Jeopardy catalogue, files | `classic-store.ts`, `attachments-store.ts`, `attachment-files-store.ts` | challenges, answers, categories, stories, files and their chunks | rename, save, delete, tell stories, import, replace, upload, export | requests of several pipelines that overlap or break off; byte caps |
| Quiz bank, AI catalogue, sponsors, images, archive | `quiz-store.ts`, `ai-store.ts`, `sponsors-store.ts`, `event-images-store.ts`, `event-store.ts`, `event-io.ts` | hashes of records, keys, bytes | upsert, delete, list, rotate, import, export, restore | record and secret in two hashes; a restore is a reset, a clear and sections |
| Demo fixture | `demo-seed.ts` | the same keys as the modules | seed, clear | a pipeline beside real players |
| Admin panels | `components/admin/use-admin-resource.ts` | browser state | list, edit, delete, reorder, import | replies in any order, other organizers |
| Setup and deployment | `setup/ctf-setup.sh`, `deploy/fly/deploy.sh` | GitHub forks; `.env`, `.env.fly`, the machine | org, private, launch, upgrade, doctor, wizard; init, refresh, deploy | each call may fail or be unheard; two terminals; interrupts |
| Rubric, probes, exec judge | `scorer/src/judge.js` ... | none | score a pull request in CI | runs on GitHub; its output is a comment's text |
| Sign-in, activity log, rate limits, health | | | | not modelled |

How they interact: the scoring workflow upserts one GitHub comment per pull
request; the poller reads comments by `since` cursor and posts each revision
to the scorer over HTTP; the scorer reads the settings from Redis and writes
the solves there; organizers write the settings and the reset from the app;
contestants submit to the graders in the app, which read the same settings.
The fold reads what the scorer and the graders wrote; the hint charge reads
the fold. Teams, settings and grades are each written by one Lua script
(save for the exceptions that `TeamSupport` and the resets model), so what
races is what the scripts were handed, not the scripts.

What makes each correct:

- settings: the window can open; the pause log plus the open freeze cover
  exactly the instants at which scoring was frozen;
- pipeline: no score the cursor has passed is lost, a score counts exactly
  when it was posted while scoring was open, the first write's time stands,
  drops are counted, every score lands in the end, a reset sticks;
- teams: records, rosters, captains and join codes agree; caps hold; support
  operations leave what the team scripts would have left;
- hint charge: nobody buys a hint with points that do not count, and the spend
  is what the hints owned have cost;
- graders: totals equal the rows they sum, attempts stay within cap and
  cooldown, a story is solved in order, a signed event pays once;
- board, metrics, audit: what is shown is what the box holds, or says so;
- catalogue, banks, archive: totals and caps are exact, a file listed can be
  read, a secret belongs to its record, an export is a file the import takes;
- seed, panels, setup: what is reported is so, what is done stays done, and a
  draft is not lost.

## The modules

| Module | Models | Code |
|---|---|---|
| `ScoringPolicy` | the window, freeze and reset rule as operators; the scorer's verdict and its clock clamp | `outsideScoringWindow`, `pausedAt`, `judgeScoreTime`, `solveTime` |
| `AdminSettings` | settings and pause log under concurrent patches and resets; the clock | `UPDATE_SCRIPT`, `RESET_SCRIPT`, `updateAdminSettings`, `resetEvent` |
| `ScorePipeline` | GitHub comments, poller, scorer, solves, on top of `AdminSettings` | `sync/src/*`, `scorer/src/serve.js` `score`, `store.js` `recordSolves` |
| `Membership` | abstract specification: rosters that share nobody, each with a captain | (a promise, not code) |
| `TeamStore` | the team scripts, the reads before them, the one-script overrides; refines `Membership` | `team-store.ts`, `FORCE_*` scripts of `admin-ops-store.ts` |
| `TeamSupport` | `TeamStore` plus disband and delete as read-then-pipeline | `forceDisbandTeam`, `deleteUser` |
| `HintLedger` | one contestant's reveals against operations that lower scores | `revealHint`, `hintGate`, `REVEAL_SCRIPT`, `hintBalance`, `fold-cache.ts`, what they bracket |
| `Tally` | abstract specification: what a grader promises of totals | (a promise, not code) |
| `Graders` | gate, story read and script of the three modules, beside edits, resets and moves; refines `Tally` | `classic-store.ts`, `quiz-store.ts`, `ai-store.ts`, the resets of `admin-ops-store.ts` and `admin-store.ts` |
| `AiEvent` | signed solve events, their nonce, the launch key pair | `api/ai/event/route.ts`, `ai-store.ts`, `ai-token.ts` |
| `Board` | the leaderboard fold read by read, and its memo | `leaderboard/*` |
| `ScoreAudit` | the audit's own recompute, and one audit beside the memo | `scripts/score-audit.mjs` |
| `Metrics` | the organizer's metrics read by read | `metrics-store.ts` |
| `Content` | the jeopardy catalogue and its files | `classic-store.ts`, `attachments-store.ts`, `attachment-files-store.ts`, `event-store.ts` |
| `Banks`, `Brand`, `Archive` | quiz bank and AI catalogue; sponsors and images on top; the whole-event archive on top | `quiz-store.ts`, `ai-store.ts`, `sponsors-store.ts`, `event-images-store.ts`, `event-store.ts` |
| `DemoSeed` | seed, clear and reset, command by command | `demo-seed.ts` |
| `AdminPanel` | the list-and-editor state machine of the module panels | `use-admin-resource.ts`, `admin-quiz-controls.tsx` |
| `Provision` | the terminals that provision and open the forks | `setup/ctf-setup.sh` |
| `FlyDeploy` | the wizard's answers and the deploy script | `setup/ctf-setup.sh`, `deploy/fly/deploy.sh` |
| `Sums` | lemmas about sums over finite sets, places among numbers, sequences laid end to end and sets laid out in one, used by five proofs | |
| `ScorePipeline_proofs` (with `AdminSettings`), `Stores_proofs` (`TeamStore` and `Content`), `HintLedger_proofs`, `Graders_proofs` (with `Archive`), `Reports_proofs` (`Board` and `ScoreAudit`), `Organizer_proofs` (`AiEvent`, `AdminPanel`, `DemoSeed` and `Provision`), `FlyDeploy_proofs` | theorems | |
| `MC*` | instances for TLC; `MCSetup`, `MCReports`, `MCArchive` and `MCOrganizer` put components that share no state beside each other | |

### State and actions, and what they stand for

**AdminSettings.** `settings` is the hash and the log. A request is one record
per organizer: `SendUpdate` runs up to the await of the bracket, taking the
time stamp; `LandUpdate` is the script (refusal of a window that cannot open,
then freeze bookkeeping). A reset is `SendReset`, `WipeEvent` (the deletes),
`StampReset` (the time is taken after them) and `LandReset`. `LoseWrite` is
any failure on the way; whatever was deleted stays deleted. `frozenAt` and
`openAt` are history: an instant is added to one of them by `Tick` only when
scoring stood so from the beginning of the instant to its end with no request
that could say otherwise on its way, which is what `steady` tracks.

**ScorePipeline.** A poller step is what runs between two awaits: `Boot`,
`StartTick`, `Fetch`, `SkipComment`, `Submit`, `Hear`, `FinishPage`, `Save`.
`mem` is the state in the process and `durable` the copy in Redis; a crash
drops the first. `Pages` is what a listing may answer: at most a page of the
comments updated since the cursor, oldest first, in any order among equal
times; `Filtered` is what `Array.filter` leaves of it. A score request is a
record in `calls` with a phase: it arrives, is judged (`Judge`: policy read
and verdict), is written (`RecordSolves`, possibly a part of it) and is heard.
A request whose caller died or stopped listening goes on unheard. Comments
have a kind instead of a text: no marker, a marker the poller cannot use, one
the scorer rejects, a score. GitHub's `updated_at` is the clock rounded down to
`UpdatedAtUnit` plus `GitHubSkew`. `Upsert`, the listing and the clock are
external. `logFull` is history: the pause log has been at its cap.

**TeamStore.** One slot of `request` per request the app is handling. The
`Send*`, `ResolveCode` and `ReadCap` actions are the reads; the `Land*`
actions are the Lua scripts. Captain requests and overrides that read nothing
first are one action. A team's name is represented by the slug it makes.
`LoseRequest` covers every failure before the script, a closed registration
window among them. **TeamSupport.** `support` is the pipeline an organizer's
request has still to run: `ReadDisband` and `ReadDelete` fill it from what they
read, `RunCommand` runs one command at a time, with the scripts of other
requests in between.

**HintLedger.** A request is what `revealHint` holds between two awaits, with
the place it has reached: `Reveal` and `Gate` are its two reads of the
settings, then the revision, the marker, the fold source by source, the
penalty, the spend, and the script, which is `Retry`, `Answer` or `Charge`.
An organizer request has brackets to open, open ones and writes left; the
kinds differ in their brackets and in the order of their writes. Scorer
points and app-side points are the two sources of a fold that is not atomic;
switching a module off is a patch of `live`. `Refuse` stands for every
refusal that writes nothing (progress, time, story lock, visibility, failed
reads). `paid` and `unread` are history: what each owned hint cost, and that a
hint was charged without a balance.

**Graders.** A behaviour is of one module, `mod`. A submission goes through
`Arrive` (settings), `ClassicGate`, `QuizGate` or `AiGate` (the contestant's
rows), `Story` (jeopardy: records, stories, roster) and `RunScript`, which
grades and awards on what it reads itself and on what it was handed. `jobs`
holds the commands an edit, a contestant's reset or the master reset has still
to send, run one by one (`RunClear`, `RunWipe`); a wipe may fail and be run
again. `torn` is history: a script fell between two commands of a reset;
`shifted`: somebody moved or an item was edited. `InChain` and `Earlier` are
the story as `storyPositions` counts it.

**AiEvent.** One player, one challenge, one token. `Receive` is the route's
checks, `Claim` the nonce's SET NX EX, `AwardGate` and `AwardScript` the award,
`Release` the DEL of a claim that paid nothing; every call may fail or its
answer be lost. `LaunchReads`, `LaunchSets` and `HandOut` mint the key pair. A
master reset and an archive import delete rows, nonces and key, one command at a
time. `doubt` is history: an award's answer was lost, or a wipe took the nonce of a
request that goes on, so that what the nonce says is no longer what was paid.

**Board.** `folds` are the walks in progress, each a list of reads still to do
and `seen`, what the reads returned; `memo` is per app task, with the fold in
flight it shares. The board is computed from `seen` alone, by operators that
follow `withModuleContributions` and `withTeamStandings`. Beside the folds
contestants score, move and buy hints, and one organizer resets a contestant.
**ScoreAudit** has the auditor's recompute over the same stores, and its wait
for the memo. **Metrics** is a click: one read after another, any of which may
be lost, while players play; its figures are compared with those of the box.

**Content**, **Banks**, **Brand**, **Archive**. A request is a job (a desk) with
the commands its current pipeline has left and the place its handler resumes
at; another request's commands run between any two; a command may be refused
while the next ones run, and the rest of a pipeline may never arrive.
`Content` has chunks (`blob`), a byte total and two caps. In `Banks` the store
is one cell per hash and field; `Brand` and `Archive` add operations to it.
`damaged` remembers what overlapping or broken requests wrote; an import that ran
whole mends all of it but the images its file does not carry (`Unmended`).

**DemoSeed**, **AdminPanel**, **Provision**, **FlyDeploy**. A seed is a list of
commands per organizer. The panel is the hook's state with up to four requests
in flight, each split into the store's step and the reply. A terminal holds
the instructions of its command, one read or write on GitHub each. A shell
holds the steps of its script; an env file gives each key the list of its
assignments, the last of which counts.

## What the runs check

| Run (module, configuration) | Question | Properties |
|---|---|---|
| `setup` (`MCSetup`) | do concurrent patches and resets keep window and log right? do the scripts that set a box up deploy what was written? | `AdminTypeOK`, `WindowCanOpen`, `FreezeIsRemembered`, `OpenIsRemembered`, `FlyInv`, `OwnKept` |
| `delivery` (`MCScorePipeline`, `PipelineDelivery.cfg`) | is a score ever lost, its time changed or its loss uncounted, through paging, eviction, faults, crashes and skew? | `PipelineInv`, `NoScoreLost`, `CrashLosesNoScore`, `FirstWriteWins` |
| `freeze` (`PipelineFreeze.cfg`) | does a score count exactly when it was posted while scoring was open? | `NoSolveFromAFreeze`, `NoOpenScoreRefused` |
| `liveness` (`PipelineLiveness.cfg`) | does every score land? | `EveryScoreLands` |
| `teams` (`MCTeamStore`) | do the four kinds of key agree through every race, and implement the abstract membership? | `TeamTypeOK`, `RosterAgrees`, `CaptainOnRoster`, `CodesAgree`, `CapHolds`, `ImplementsMembership` |
| `hint_charge` (`MCHintLedger`, `HintCharge.cfg`) | can a charge, between fold and script, pass a score that has been lowered, or fall into a reset? | `HintInv`, `ChargesAffordable` |
| `hint_marker` (`HintMarker.cfg`) | does the marker come down whatever fails in a bracket? | `MarkerComesDown` |
| `graders` (`MCArchive`) | are totals, attempts and stories right while answers race with edits, resets and moves? do banks, sponsors, images and the archive hold together when requests overlap or break off? | `GraderInv`, `AttemptsMetered`, `StoryInOrder`, `ImplementsTally`, `BoxInv` |
| `reports` (`MCReports`) | do board, audit and metrics show what the box holds, or say that they are short? | `BoardInv`, `LoweredScoresGone`, `AuditorAgrees`, `ComparesWhatItRead`, `MetricsInv` |
| `content` (`MCContent`) | are caps and totals exact, files readable and lists well formed, whatever overlaps or is cut short? | `ContentInv`, `ExportRestores` |
| `organizer` (`MCOrganizer`, `Organizer.cfg`) | do signed events pay once, are reports of provisioning true and done steps kept, is the seed all or nothing, is a draft kept? | `AiInv`, `ProvInv`, `NothingUndone`, `DemoInv`, `PanelInv`, `DraftKept` |
| `wizard` (`MCProvision`, `Wizard.cfg`) | expected to fail: does the wizard stop when provisioning fails? | `WizardStops` |

Several properties are conjunctions of named parts, stated in their modules:
`PipelineInv` (types, `DropsAreCounted`, `NoSolveFromTheFuture`), `HintInv`
(types, `MarkerWhileWriting`, `SpendBacked`), `GraderInv` (types,
`TotalsBacked`, `TotalsExact`), `AttemptsMetered` (`AttemptsWithinCap`,
`AttemptsSpaced`), `BoardInv` (sums, ratios, single flight, charts, that a board
lies between two moments and, where nothing happened beside it, is exact),
`MetricsInv`, `ContentInv`
(`BytesExact`, `CapsHold`, `FilesKept`, `ListsWellFormed`, `CategoriesCover`),
`BoxInv` (`BanksInv`, `BrandInv`, `ArchiveInv`), `AiInv` (types,
`RequestPaysOnce`, `SpentMeansSolved`, `TokensVerify`), `ProvInv`, `DemoInv`,
`PanelInv`, `FlyInv` (types, `DeployedAsWritten`, `RefreshSettles`,
`MachineServes`, `NothingLeftBehind`, `WizardKeepsAnswers`).

`wizard` states what a comment of the repository says and finds it violated:
`ctf-setup.sh:2368-2370` says that a failed provisioning is a stop, but the
wizard runs `cmd_org` as the condition of an `if` (`:2371`), where `errexit` is
off, so a failed step goes on and the org is reported as provisioned.

### Disagreements

Each line names a definition of the modules that a comment, a doc or common
sense would have, with the instance that shows it violated. They are no runs
of their own: to see one, take the configuration, make the changes and check
the property alone.

| Configuration and changes | Property | What the code does |
|---|---|---|
| `PipelineFreeze.cfg`: `Patches <- NoPatches`, `MaxWrites = 1`, `UpdatedAtUnit = 1`, `MaxFaults = 0` | `WipeSticks` | the master reset deletes the solves before it freezes and moves the epoch; a score judged in between is on the reset board |
| `PipelineDelivery.cfg`: `Comments` and `ByBot` `{c1, c2}`, `RepoOf <- OneRepo`, `AuthorOf <- OneAuthor`, `Challenges = {x}`, `Bodies <- ScoreBodies`, `TargetLists <- OnlyR1`, `SeenCap = 2`, `PageSize = 3`, `GitHubSkew = 0`, `MaxCrashes = 0` | `WaitingScoreKeepsItsTime` | the poller goes on past a failed comment, so a later comment's time for the same challenge is stored first |
| `MCTeamStore.cfg` on `MCTeamSupport`, `SPECIFICATION SupportSpec` | `CodesLeadToTeams` | a force disband deletes the join code it read, not the one regenerated since |
| the same | `RosterAgreesAtRest` | a delete removes the contestant from the team they were on when it read |
| `MCTeamStore.cfg` | `NamesAreUnique` | a rename leaves the slug, so a second team can take the new name |
| `HintCharge.cfg`: `Hints = {h1}`, `Operations = {o1}`, `Patches <- WindowPatches`, `Budget <- WriteAndReset`, `MaxTime = 1` | `AllAffordable` | a hint owned when the gate finds scoring closed passes without a balance; reset away before the script, it is charged unchecked |
| the same with `Requests = {r1}`, `Budget <- OneWrite`, no symmetry | `ChargesInWindow` | the scheduled end the script compares is the one the request read first |
| `HintCharge.cfg`: `Requests = {r1}`, `Hints = {h1}`, `Budget <- TwoDeletes`, `MaxFaults = 1`, no symmetry | `ChargesAffordable` | the expiry of a marker left up by a failed begin fires under a later operation |
| `MCArchive.cfg` | `StepFollowsTeam`, `NoSolveOfADeletedItem`, `CountsAreNatural` | a join, a delete or a reset slips in between the reads of a submission and its script, or between a reset's commands |
| `MCReports.cfg` | `EveryLineMeetsRow` | the chart of a person known by two spellings ends short of the row |
| the same | `TeamPointsNeverShort` | one command of a batch that fails makes team points smaller, not absent (`module-contributions.ts:523-524`, `classic-store.ts:1071-1074`) |
| the same | `AuditorPasses`, `ComparesAlways` | the auditor does not know blocks or rows at zero, nor adjustments; points that come and go between its two reads are on the board alone |
| the same | `ShortfallsNamed`, `EveryShortfallSaid` | a failed sweep of players shortens more figures than its caveat names (`metrics-store.ts:466`); a failed command of the totals is not said (`:401-402`) |
| `MCContent.cfg` | `FilesAlwaysReadable`, `CategoriesAlwaysCover`, `ExportComplete` | a lost answer leaves a file without chunks; overlapping requests leave challenges off the list; a failed read leaves rows out of a backup |
| `Organizer.cfg`: `Stall = 1` | `RequestPaysOnce` | a request held up between its checks and its claim outlives its nonce |
| `Organizer.cfg` | `HiddenInTime` | the box is asked once whether the event is launched, forks are read and hidden later: a press or a contestant's fork in between is missed (`ctf-setup.sh:1284-1326`, against `:1268-1271` and `:1310-1312`) |
| the same | `NeverOlder` | an older checkout writes its workflow over one put there after its read, or when its read failed: `check_step` answers "not done" (`ctf-setup.sh:345-363`) |
| `Organizer.cfg`: `Days <- SolveDays` | `EverySolverCounted` | a seed sets the counts of its items and loses a solve that landed amid it (`demo-seed.ts:128-129`) |
| `Organizer.cfg`: `Days <- MoveDays`, `Careless = {"move"}`; `Days <- ListDays`, `Careless = {"list"}` | `NobodyOnAGhost`, `OneTeamEach`; `OnTheBoard` | an organizer who moves the fixture's players, or saves a stale category list, beside a clear or a seed |
| `Organizer.cfg`: `Visits <- DragVisits`, `SharedVisits`, `TwinVisits` | `OnlyMovesReorder`, `ReorderMovesOnly`, `OneItemPerDraft` | a save, a reorder and another organizer's write overlap (`admin-quiz-controls.tsx:33`, `use-admin-resource.ts:105-106`) |
| `MCSetup.cfg` | `RemovedOnAnyExit` | the rendered file is made before the trap that removes it is set (`deploy.sh:1013-1040`): an interrupt between the two leaves it, where the comment (`:1023-1025`) says "Removed on ANY exit" |
| the same | `EveryAnswerKept` | answers are written one by one and the wizard asks for all of them or none: an interrupt after the administrators and before the scorer image or the URL drops those for good (`ctf-setup.sh:1899-1977`) |
| `MCSetup.cfg` | `TokenIsOwn` | a first init takes the token of the `.env` it copies (`deploy.sh:462-463`) |

Smaller ones, read while modelling and not stated as definitions:
`renameAiCategory` finds a name ignoring case but moves only exact matches;
exports treat a failed read of questions, keys or AI hashes as empty; a blank
choice label, or a category list that drops a used name or keeps two spellings,
makes an export that an import refuses; two overlapping quiz upserts mix record
and key; a sponsor upsert that keeps its logo and one that replaces it leave
row and bytes apart; an import reads its guard before the reset, so an
organizer may resume scoring in between; a failed import leaves the box
emptied; a settings tab that saves after a rename elsewhere asks for the old
name in the reset dialog (`use-admin-settings.ts:226`, comment at `:77-83`); a
live poll whose first load is aborted is not retried (`use-live-poll.ts:80-82`);
a file read that ends while the import dialogs are open swaps the text that is
posted (`admin-event-controls.tsx:238`, `:261`); `score-audit.mjs:833-834` speaks
of `revalidate: 30` where `lambda.ts:268` is `no-store`.

### Bounds, and why they are enough

- `setup`, settings: two organizers, four requests, instants 0 to 4, a log of
  two. Four writes make freeze, resume, freeze, resume with a reset or a second
  organizer in between; the log fills up. One start is a new event, the other a
  freeze without a recorded start. Deployment: two shells; `Scenes` give the
  files to start with and how many commands, faults, edits and moves of tree and
  images there are; every size, memory and region is one of a few.
- `delivery`: pages of two over three comments and a dedupe window of one, so
  paging, eviction and re-reading all happen; two of the comments are scores
  of one contestant for one challenge; one fault and one crash, and with both
  at most one edit (`WithinOneRepository`). Or two repositories, polled together
  or only one of them, with every kind of text (`WithinTwoRepositories`).
- `freeze`: three organizer writes, which is freeze, resume or reset, launch;
  two instants to a unit of `updated_at`, so a comment's time can be earlier
  than the moment it was posted; one comment and one fault.
- `liveness`: the smallest instance with a fault, a crash, an edit of a
  comment under way and a freeze, whether dated or of unknown start.
- `teams`: three players, two teams, three codes, two requests in flight, caps
  one and two. Two joiners and a captain contend for a slot; a join outlives
  its team and meets another on its slug; two regenerations race.
- `hint_charge`: two tabs, two hints at one point, at most one point in each
  of two sources, so one hint or two are affordable and either source may be
  the one that goes; a settings write and a delete (two nested brackets) run
  at once. A request is refused, retried once, refused again, or charged.
  `hint_marker`: a master reset and a contestant's reset at once, one fault,
  scoring ends during the run; no points, since the marker does not depend on
  them.
- `graders`: two teammates, two items that are the two steps of a story, a
  right and a wrong answer, two requests in flight, one tick of the clock.
  `MCAllowances` says which events meet: tabs on one item while settings change;
  an edit, previews and signed events with a fault; a contestant's reset and
  the master reset; a master reset that fails and is run again; the story and a
  move. The archive part has two desks, one question, one AI target, two
  sponsors, one image slot, at most `MaxKeys = 3` signing keys and lists of two
  (`ListCap`), in `SomeScenes` of a few requests and faults each.
- `reports`: four spellings of three people, three items, two teams, two folds
  and two app tasks; `Ttl = 1`, `TopN = 2`, `MaxTime = 3`; `Worlds` are a quiz
  night, a jeopardy beside the scorer and all modules. The audit: a memo of 2,
  waits of 5 and 3, two attempts. The metrics: three spellings of two people,
  a question, a challenge and a flaw, caps of two (`MaxContestants`,
  `MaxBuckets`).
- `content`: two challenges, four names of which two differ in case, two
  stories, files of one and two chunks, caps of two and three, two requests at
  a time in eleven allowances.
- `organizer`: one tool at work at a time. AI events: two requests and two
  launches, stamps at both ends of a skew of two, a nonce of `2 * Skew + 1`, no stall
  between checks and claim (`Stall = 0`). Provisioning: two terminals, two targets
  and two checkouts. Seed: two fixture and two real contestants, three challenges,
  two desks. Panel: two or three items, room for two, one list read at a time.

`MaxTime`, `MaxNow`, `LastTick`, `MaxWrites`, `MaxEdits`, `MaxFaults`,
`MaxCrashes`, `MaxPoints`, `Budget`, `Allowances`, `AuditAllowances`, `Worlds`,
`Boxes`, `Scenes`, `Sessions`, `Days` and `Visits` are bounds of the model only:
they sit in guards and initial states and have no counterpart in the code. A
run with such bounds comes to rest when they are used up, so it does not check
for deadlock. `teams` has no such bound and does; since an organizer may set the
cap at any time this says little there, and no process of this system waits for
another except the poller for the scorer, which `liveness` covers.

Symmetry is over requests in flight, organizers, terminals and hints, none of
which is ordered or chosen; runs with liveness properties have none.

### Fairness

`FairSpec` of `ScorePipeline` asks weak fairness of the poller's and of the
scorer's steps and of nothing else. The poller is a `for (;;)` around `tick`,
`persist` and a sleep (`sync/src/index.js:303`); the scorer answers each request
it holds; both are restarted by compose (`restart: unless-stopped`,
`on-failure`). Organizers, the clock, GitHub edits, faults and crashes happen or
do not; faults and crashes are finitely many. In `HintLedger`, `FairSpec` asks
weak fairness of each organizer request's next step, since an awaited call
answers or times out, and of the expiry of the marker, which Redis keeps;
requests that die do so by a fault. `EveryScoreLands` excepts the one state in
which the scorer keeps answering 503 by design, a freeze of unknown start.

## What is proved

Every theorem is about every value of the constants that its module's
assumption admits. Assumptions are named, sit in the module that declares the
constants, and are evaluated by TLC in every run of that module.

`ScorePipeline_proofs`, of `AdminSettings`, from `AdminAssumption` (a log cap of
at least one, well-formed patches, an initial state whose window can open):

- `AdminTypeCorrect`, `WindowAlwaysCanOpen`, `FreezeAlwaysRemembered`,
  `OpenAlwaysRemembered`, by the inductive invariant `AdminInv`. The
  properties are not inductive as they stand: a request in flight carries a
  stamp older than its script. `EdgesAhead` says that every instant counted
  as frozen is before the stamp of any resume in flight, and every instant
  counted as open before the stamp of any freeze, `SteadyIsTrue` what the
  current instant's bookkeeping means, and `FreezeKept` excludes the freeze
  of unknown start that `PausedAt` would count for every instant and a later
  resume would drop.

The same module, of `ScorePipeline`, from `PipelineAssumption` (finitely many
comments, each of one repository and author; page and dedupe caps of at least
one) and those facts of the settings:

- `ConsumedScoresAreDelivered` (`NoScoreLost`) and `RestartLosesNoScore`
  (`CrashLosesNoScore`), by `DeliveryInv` (`DeliveryIsInvariant`). A cursor in
  memory is about the comments as they will be, so the invariant speaks of the
  page in hand: it is in order and within the cursor it will leave (`PageInOrder`),
  whatever is behind that cursor and no longer on the page is settled
  (`ScannedIsSettled`), and the one request it waits for is about the comment it
  is at, and says accepted or refused only of a revision that is (`OneCall`).
  `Timely` says that nothing the poller holds is newer than GitHub, so that an
  edit between a listing and the cursor's move is listed again.
- `FirstWriteIsKept` (`FirstWriteWins`), `SolvesAreNotFromTheFuture`.
- `FreezeIsHonoured` (`NoSolveFromAFreeze`), if `GitHubSkew = 0` or
  `MaxFutureSkew = 0`, and `OpenIsHonoured` (`NoOpenScoreRefused`), if
  `GitHubSkew = 0`: a comment timed in the scorer's future is judged by
  settings that are not yet those of its instant, and nothing else can say more
  of it. The invariants are `FreezeHonoured` and `OpenHonoured`: a solve's time
  is at no instant that was frozen and at none that may still turn out frozen.
  The pause log forgets when it is at its cap, which `logFull` remembers.
- `PipelineIsSound` (`PipelineInv`): the types, by `Capped` (the dedupe lists
  stay within their cap whatever is filtered out of them); and that drops are
  counted, by `Counted`: the count saved and the count in memory are each no
  less than the comments that the cursor of the same state has given up on, and
  between two saves the memory's also covers what the page in hand was read past.

`Stores_proofs`, of `TeamStore`, from `TeamAssumption` (finitely many players, model
values outside the sets they stand beside, caps of at least one):

- `TeamTypeCorrect`, `RostersAlwaysAgree`, `CaptainAlwaysOnRoster`,
  `CodesAlwaysAgree` by `TeamInv`. The scripts check caller and team but
  trust the join code they are handed, so the invariant adds `DrawsFree` and
  `DrawsDistinct`: a code drawn and not stored yet is free and nobody else's.
- `CapAlwaysHolds` by `CapInv`, which adds `CapsRecorded`: the cap a request
  carries is one that has been in force, however stale.
- `TeamStoreImplementsMembership`: each script maps to one step of
  `Membership` or to a stutter, from `TeamInv`.

and of `Content`, from `ContentAssumption` (finitely many items; sizes and caps are
numbers; the boards and bundles a behaviour may begin with or bring parse), for any
number of requests, challenges, names and files and any order of faults:

- `ContentHolds` (`ContentInv`), by the inductive invariant `ContentIInv`, in six parts:
  - `Typed`: types, and what each request is at each of its points.
  - `Blamed`: a request that goes on after a refused command has left what it was
    bringing in `half`.
  - `FilesInv`: ids and chunk prefixes are drawn once (`Listed`, `OwnPrefix`,
    `OwnPuts`), what a writer wrote is there until it drops it (`Puts`), and a
    chunk is a listed file's or a writer's (`Accounted`). From it follow exact
    totals, the caps and readable files. A commit adds a file nobody else has,
    so a total is a sum over a set that grows or shrinks by known elements
    (`WeightsGrow`, `WeightsShrink`, by `Sums`).
  - `PutsInv`: which requests take challenges away, by which commands.
  - `Orphans`: files of a challenge that is gone are on the list of a request
    that is deleting them.
  - `CoverInv`, for requests that do not overlap: of each kind of request, what
    its remaining commands bring and which list they end at (`RenameCover`: every
    challenge of the old name is still to be moved before the list is written;
    `BringCover`: there is one set of names that all commands left of an import
    fit). `SettledBy` says that wherever the request stops, what is in use is on
    the list or in `half`.

`HintLedger_proofs`, from `HintAssumption` (finitely many hints and organizer
requests, settings and patches that are settings):

- `LedgerTypes`, by `TypesInv`.
- `ShopHolds`: `Spec /\ []NoLateStart` implies `MarkerWhileWriting` and
  `ChargesAffordable`, by `Shop`: the marker counts at least the brackets open
  (their set and its cardinality), and a balance whose revision still stands
  while no marker is up is at most what the contestant has and exactly what was
  spent. `NoLateStart` says that no operation begins while the expiry of a
  marker nobody closes is about to fire. It is a hypothesis because the code
  does not give it: `HintCharge.cfg` with two deletes and one fault shows what
  happens without it (Disagreements).
- `QuietShopHolds` discharges it where no fault occurs (`MaxFaults = 0`), by
  `Quiet`: the marker is exactly the count of open brackets and never ages.
- `HintInvHolds` (`HintInv`, so `SpendBacked` too), `MaxFaults = 0`, by `Spend`:
  between the two deletes of a reset nothing is charged, and otherwise the spend
  is the sum of what the hints owned were charged.

`Graders_proofs`, from `GraderAssumption` alone (finitely many logins, items and
settings; typed constants):

- `GraderTypes` (types) and `TotalsAreBacked` (`GraderInv`), by `TypesInv` and
  `TotalsInv`. `TypesInv` adds the shapes of what is in flight: a reset's
  queue deletes the rows before every total (`InOrder`), and a request carries
  limits that some settings had (`Limited`). In `TotalsInv` a total is that of its rows
  unless a command still queued will clear it (`Backed`, `Exact`), and a reset
  past the rows has left none behind (`Emptied`).
- `AttemptsAreMetered` (`AttemptsMetered`): the script decides, and what the
  request carries is a limit that some settings had.
- `StoryStaysInOrder` (`StoryInOrder`), by `StoryRead`: while nobody moves and
  nothing is edited, the step before, the crew and the mates that a request
  carries to its script are those of the roster and the catalogue as they stand.
- `GraderImplementsTally` (`ImplementsTally`): each step of each grader is a
  banking, a voiding or a stutter of `Tally`.

And of `Archive`:

- `RefusedImportsLeaveAll` (`RefusedLeavesAll`, a part of `BoxInv`), by
  `Cautious`: a request whose file the checks refuse has read the pause or is
  about to, has at most that read left to send, and has written nothing; of
  other requests it only hears that they are there. From no assumption.
- `ImportsRunFrozen` (`FrozenWhileReplacing`, another part), by `Steady`: no
  command of any request ends the pause or clears its hash (`Gentle`), and an
  import that nobody resumed meanwhile has set the pause or is about to, before it
  clears (`Pausing`). That what an import lays out is a list of such commands
  (`Calm`, `LaidOut`, `FlattenedIs`) needs what JSON and Redis give: sections
  are lists or have finitely many keys, also those read back (`SheetsAreLists`,
  `OrdersAreLists`, `ArchivesAreFiles`, `StoresAreFinite`); and `AbsentIsNoFlag`.

`Reports_proofs`, of the board's memo, from `BoardAssumption` (finitely many
items, worlds whose rows are rows):

- `FoldsShared` (`SingleFlight`, a part of `BoardInv`), by `Flights`: what a task
  shares is a fold of the generation it was begun under, and no generation is
  ahead of its task's (`Generations`).
- `LoweredScoresAreGone` (`LoweredScoresGone`), by `Lowered`: a fold begun before
  the reset's bracket is of an older generation, one begun after it and still
  running has read nothing the reset has yet to delete, and what it has read of
  a row is no more than the row will have (`RowsFine` and the lemmas on the
  worth of rows, which are sums, by `Sums`).

and of the audit, from `AuditAssumption`:

- `AuditComparesWhatItRead` (`ComparesWhatItRead`), if `FoldTtl <= Settle`, by
  `ReadsInOrder`: first fetch, store, second fetch are read in that order of time
  whoever else opens the board meanwhile, so long as no points go. The script waits 12 s
  between its fetches, the memo lives 10; with a shorter wait it is not so, and the
  hypothesis says so.

`Organizer_proofs`, of `AiEvent`, from `AiAssumption`:

- `AiTypes`, `AiSpentMeansSolved` and `AiTokensVerify`, of which the last needs
  that no launch handed out is of the current epoch while there is no key
  (`KeyIsOfTheEpoch`).
- `AiHolds` (`AiInv`), if `Stall = 0`, by `InTheWindow` (a request's stamp is
  within the skew of the second it was received or claimed in) and `NonceGuards`:
  at most one request at a time holds the nonce, and a stamp that was paid is out
  of its window or the nonce stands until it is. With `Stall > 0`
  it is not so (Disagreements).

of `AdminPanel`, from `PanelAssumption` (an order of the ids; what is stored at
first are rows):

- `DraftsKept` (`DraftKept`), by `DraftHeld` and `FormsHeld`: a reply is of the
  draft it was sent for or finds another one open and leaves it alone.
- `PanelShowsStore` (`PanelInv`), by `ListInv`. The property speaks of a quiet
  panel; the invariant says what list and store differ in while a request is in
  flight: a save by the row it wrote, a delete by the row it took, a reorder by
  the rows it has still to send (`Owed`), which needs that what was read back is
  what is stored and that only one request is out while nothing set the two
  apart (`OneAtATime`). A list is sorted by how many rows are before each, so
  the proofs count (`Sorted`).

of `DemoSeed`, from `DemoAssumption` (finitely many contestants and items, a list of
categories within its limit at the start of a day):

- `DemoKeepsShape`: the types, what a request has still to send, and that a
  reset's counts are wiped last (`ResetRests`).
- `PlayersAreKept` (`PlayersKept`), by `Kept`, which speaks of every challenge
  and not of those a contestant solved. No hypothesis: it holds whoever is
  careless.
- `CategoriesListed` (`OnTheBoard`), if no organizer saves a category list read
  before (`"list" \notin Careless`).
- `DemoAnswersTrue` (`AnswersTrue`), if no organizer moves the fixture's players
  (`"move" \notin Careless`), by `RequestsOnTrack`: of a request that was alone
  and lost no command, each command is still to be sent or what it does stands
  (`Stands`), whatever contestants do meanwhile.
- `DemoHolds` (`DemoInv`), with both hypotheses. Each is needed: the
  disagreements have the day on which each kind of carelessness shows.

and of `Provision`, from `ProvAssumption` (the targets are a list, the first checkout
is one):

- `CommandsAccount`, the inductive invariant `RunInv`, for any number of terminals,
  targets, checkouts and faults. Of each running command it says three kinds of
  things: the order its remaining instructions keep (`Paired`: every read is
  followed by its write; `BoxFirst`, `WaitFirst`, `ForkFirst`), what a write
  was preceded by: a read that said nobody had forked, a workflow older or unread, an
  index that was there (`SeenFirst`, `Indexed`),
  and that what it is to do is ahead of it or done (`OrgCovers`, `LaunchCovers`,
  `DoctorCovers`, `OrgMirrors`). Of each report made it says that it still holds
  (`ToldTrue`), which is where the other terminals and GitHub come in.
- `ProvHolds` (`ProvInv`) and `UndoneHolds` (`NothingUndone`) follow from it.

The three have no hypothesis. The script holds no lock on GitHub, so a press, a
contestant's fork, another checkout or a failed read may fall between what a
command reads and what it writes. `NothingUndone` names the windows this leaves,
and no others: Launch pressed after this command asked the box, a fork made after
this command read that there was none, and a workflow this command met as older
than its own, or could not read, which `check_step` takes for "not done"
(`ctf-setup.sh:352-363`). `saw` in the command's record is what it last read of the
fork it is about to write to; `newest` and `shut` in a fork's are the newest
workflow it has had and whether it was hidden after the press, so that a report
says of a fork another command changed what remains true of it. TLC finds each
window needed: without any one of them the property fails on the run's instance
(`HiddenInTime`, `NeverOlder` have none of them).

`FlyDeploy_proofs`, from `FlyAssumption` (presets and amounts of memory are numbers;
each scene starts from files that may be there and, where the wizard runs, from
one that says what the organizer answers or does not say):

- `CommandsKeepOrder`, the inductive invariant `FlyShape` the others rest on: a
  command's steps keep their order (`Orderly` by `Rank`, and `Closing`, the four
  last steps of a deploy), and what a step relies on is behind it (`Behind`: the
  file is there, and checked; `HasSource`; `Placed`).
- `OwnIsKept` (`OwnKept`), from how each step changes a file (`FileGoes`).
- `MachinesServe` (`MachineServes`), by `Boxes`: a rendered file and a machine
  have what they need, whoever edits `.env.fly` after the check.
- `NothingIsLeftBehind` (`NothingLeftBehind`): wherever a deploy fails or is
  interrupted, the rendered file is gone, but for one that was cut after the
  rendering and before the trap, which the file's `cut` records. The next deploy
  renders over that one, and its trap removes it.
- `RefreshesSettle` (`RefreshSettles`) and `DeploysAsWritten`
  (`DeployedAsWritten`), about a command that was alone (`Alone`): each step it
  has still to do it does, and each it has done stands (`RefreshOnTrack`,
  `DeployOnTrack`).
- `WizardAnswersKept` (`WizardKeepsAnswers`), wherever the wizard is interrupted, by
  `WizardInv`: where a wizard is in its questions says which answers are in the
  file (`Answers`), and a file that has the basics has all of them but those an
  interrupt kept from being written (`unsaid`), or a wizard is at the moment writing
  them (`BasicsCount`), which is why it may skip the questions. What such an
  interrupt can cost is the scorer image and the URL (`InterruptedAnswers`); the
  organization and the administrators are never lost.
- `DeploymentHolds` (`FlyInv`), all of these.

`Sums` holds the lemmas on sums these proofs need: a fold over a finite set of
any size is there (`SumsExist`), takes one element at a time (`TotalTakes`), and
so on. They are inductions, and the library's induction theorems take an operator
as a parameter, which the provers cannot instantiate; so each is made as an
argument about a least counterexample, which the library's `WFMin` and
`FS_StrictSubsetOrderingWellFounded` provide (`LeastSubset`). The folds of the
community modules are unfolded by definition.

Every invariant named here was a TLC invariant on the instance of its run before
it was proved. Some definitions changed for the proofs, and are closer to the
code for it: a page and a filter are sets of possible answers and not one
computed by sorting, `NoSolveFromAFreeze` speaks of a log that was ever
full and not of one that is full now, a shell keeps one record through its
commands, and a wipe of the nonces beside a request that has claimed one is
remembered.

Only model-checked: liveness (`EveryScoreLands`, `MarkerComesDown`) and anything
with fairness or ENABLED, which is out of the prover's reach; `TeamSupport`;
what the board shows of what it read, the audit's recompute and the metrics, whose
operators fold sequences in an order the code fixes; what an export of `Content` holds
(`ExportRestores`); the banks, sponsors and images, and of the archive what an
import leaves and an export holds (`Replaced`, `BackupsReadable`).

## Assumptions of the models

- Requests in flight draw different join codes, and free ones. The code draws
  ten times from 31^6 and uses the last candidate unchecked
  (`team-store.ts:148`).
- A comment is not edited twice within a unit of `updated_at`, and fewer
  comments than a page holds share one. Beyond that the code loses revisions
  (the dedupe key is `id@updated_at`, the cursor is a time).
- GitHub lists an edit as soon as it is made.
- Organizers' and scorer's clock is one clock; GitHub's may run ahead.
- A Lua script is atomic; a pipeline is not, where that matters: HSETNX of
  several solves, disband, delete, resets, seeds, edits, imports. The master
  reset's deletion of the scorer's solves is one step of `AdminSettings`.
- A command to Redis that timed out has landed by then or never will.
- No operation that lowers scores runs for the five minutes of the marker's
  expiry: the expiry only ages while none runs (`GuardAges`). A source of
  points is deleted in one step.
- In `HintLedger` and `Graders` a contestant's login has one spelling; `Board`
  and `Metrics` have several.
- A signed event's request takes no time between its checks and its claim
  (`Stall = 0`; the disagreements have the other case) and at most two skews
  after it.
- The wizard meets a `.env` without answers to its questions, or with those the
  organizer gives again, and nobody edits the file by hand while it is in use
  (`Unanswered`): what Enter accepts is what is there.

## Not modelled, and why

Left out of the modelled parts: the migration of the poller's legacy state
file and the repair of damaged state, the heartbeat, scores sent without a
time (an older poller), the registration window beyond refusing, audit and
activity lines, the mock stores of development mode, normalisation and
validation of texts, token and archive encodings, medians and CSV of the
metrics, the flight payload the audit parses, GitHub app setup, compose on a
single host, teardown and the AWS deployment. Left out entirely: sign-in
through a library, rubric and probes (they run in the scoring workflow), rate
limits, the activity log, health, styling and most panels, which are forms over
the stores' operations. They are content or I/O, or run outside the box.

## Plan

1. Done: settings, pipeline, teams and support, hints, graders with `Tally`, AI
   events, board, audit, metrics, catalogue and files, banks and archive, seed,
   panels, provisioning, deployment.
2. Done: proofs of settings, pipeline, teams (with the refinement of
   `Membership`), hints, graders (with the refinement of `Tally`), the board's
   memo, the audit, AI events, the catalogue and its files, the panel, the seed,
   provisioning, deployment.
3. Next proofs: what an export holds, the metrics' sums.
4. An abstract account that `HintLedger` implements.
5. The poller's legacy-state migration; the login rename of `admin-ops-store.ts`.
