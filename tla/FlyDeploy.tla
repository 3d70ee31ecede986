----------------------------- MODULE FlyDeploy -----------------------------
(***************************************************************************)
(* The setup wizard of setup/ctf-setup.sh and deploy/fly/deploy.sh: a shell  *)
(* writes the box's .env, copies it into .env.fly, tops that up, refreshes   *)
(* it, and deploys it: app, volume, images, a compose file rendered out of   *)
(* the env file, secrets, machine.  Any step may fail or be interrupted, and *)
(* the organizer runs the script again, in the same checkout from another    *)
(* shell too, while files are edited, credentials rotate, the tree changes   *)
(* and the scorer image is pushed anew.                                      *)
(*                                                                         *)
(* An env file gives each key its assignments in order; the last one counts. *)
(* Keys that go together are one: "app" is the sync App's id and key,        *)
(* "oauth" the client id and secret, "auth" the box's own secrets, "dir" the *)
(* two directories of the volume.                                           *)
(***************************************************************************)
EXTENDS Integers, Sequences, FiniteSets, SequencesExt

CONSTANTS
    Shells,          \* terminals, in one checkout
    Values,          \* what an organizer may give a key the refresh copies
    Https,           \* event URLs a deploy accepts
    FlyUrl,          \* https://<app>.fly.dev
    Regions, DefaultRegion,
    PresetCpus,      \* machine presets: [shared, cpus]
    MegaBytes,       \* spellings of an amount of memory
    Broken,          \* versions of the scorer image without an amd64 build
    Scenes           \* [source, file, wish, uses]: the files at first, what the organizer
                     \* answers the wizard, and how often what may happen

VARIABLES
    source, file,    \* .env and .env.fly
    tree,            \* [head, content] of the checkout: clean while they are equal
    upstream,        \* the version SCORE_IMAGE names
    registry,        \* what the tags of registry.fly.io name
    hosting,         \* the app: [made, volumes, secrets]
    rendered,        \* compose.fly.yml
    machine,         \* [env, image, pinned, region, memory]
    shell,           \* the commands that run
    chance,          \* what is left of the scene
    wish,
    unsaid,          \* history: answers given, that an interrupt kept from being written
    reported         \* history: the command that has just ended well, with nothing else at work meanwhile
flyVars == <<source, file, tree, upstream, registry, hosting, rendered, machine,
             shell, chance, wish, unsaid, reported>>

Blank == ""
Copied == <<"oauth", "app", "inst", "score", "org", "admins">>
BlankClears == {"inst"}
Tokens == {"token", "password"}
Needed == {"auth", "oauth", "org", "admins", "token", "password", "score"}
Kept == Tokens \union {"auth", "region"}
Keys == ToSet(Copied) \union Kept \union {"url", "dir", "size", "memory", "autostop"}
Secrets == Tokens \union {"url", "auth", "oauth", "app", "inst"}
Images == {"app", "sync", "scorer"}
NoFile == <<>>
Nothing == [of |-> -1, stamp |-> -1]
Unknown == -1
NoImages == [i \in Images |-> Nothing]
NoMachine == [image |-> NoImages]
NoRun == [cmd |-> "none"]
NoRead == [k \in Tokens \union {"url", "region"} |-> Blank]

\* What a key may be given.
Texts == {Blank, "own", "localhost", "drawn1", "drawn2", "data", FlyUrl, DefaultRegion}
         \union Values \union Https \union Regions
         \union UNION {UNION {ToSet(f[k]) : k \in DOMAIN f} : f \in {scene.source : scene \in Scenes}
                                                                     \union {scene.file : scene \in Scenes}}
         \union UNION {{scene.wish[k] : k \in DOMAIN scene.wish} : scene \in Scenes}
Env == [Keys -> Seq(Texts)]
Sound(f) == f \in Env /\ \A r \in ToSet(f["region"]) : r \in Regions \union {Blank}
Commands == {"init", "refresh", "deploy", "redeploy", "wizard"}
Answered == {"org", "admins", "score", "url"}
Asked == Answered \union {"app", "oauth"}

\* dotenv_get: the last assignment wins, an absent one is blank.
Live(f, k) == IF f = NoFile \/ f[k] = <<>> THEN Blank ELSE Last(f[k])
Missing(f, k) == Live(f, k) = Blank
With(f, k, v) == [f EXCEPT ![k] = <<v>>]
Added(f, k, v) == [f EXCEPT ![k] = Append(@, v)]

\* wiz_basics: what has been answered is not asked again.
BasicsDone(f) ==
    /\ ~Missing(f, "admins") /\ f["score"] # <<>>
    /\ Missing(f, "score") \/ ~Missing(f, "org")

\* The wizard meets a file that says what the organizer will answer, or does not
\* say: it asks for nothing that has been answered.
Unanswered(scene) ==
    /\ scene.uses["edits"] = 0 /\ scene.wish["url"] # Blank
    /\ scene.source # NoFile =>
         /\ \A k \in Answered \ {"url"} : Live(scene.source, k) \in {Blank, scene.wish[k]}
         /\ BasicsDone(scene.source) => \A k \in Answered : Live(scene.source, k) = scene.wish[k]

ASSUME FlyAssumption ==
    /\ \A p \in DOMAIN PresetCpus : PresetCpus[p] \in [shared : BOOLEAN, cpus : Nat \ {0}]
    /\ \A m \in DOMAIN MegaBytes : MegaBytes[m] \in Nat
    /\ \A scene \in Scenes :
         /\ scene.uses \in [Commands \union {"edits", "moves", "hands", "faults"} -> Nat]
         /\ \A f \in {scene.source, scene.file} \ {NoFile} : Sound(f)
         /\ scene.wish \in [Asked -> Texts]
         /\ scene.uses["wizard"] > 0 => Unanswered(scene)

Chance(kind) == chance[kind] > 0 /\ chance' = [chance EXCEPT ![kind] = @ - 1]
Runs(s) == shell[s] # NoRun
At(s, step) == Runs(s) /\ shell[s].todo # <<>> /\ Head(shell[s].todo)[1] = step
Arg(s) == Head(shell[s].todo)[2]
Advance(s) == shell' = [shell EXCEPT ![s].todo = Tail(@)]
AdvanceTo(s, steps) == shell' = [shell EXCEPT ![s].todo = steps \o Tail(@)]

\* The trap that removes the rendered file is set once it is there.
Trapped(s) == At(s, "secrets") \/ At(s, "ship")
\* A script that stops: the wizard goes on behind the one it has called.
Quit(s) ==
    /\ shell' = IF shell[s].cmd = "wizard" /\ shell[s].calls
                THEN [shell EXCEPT ![s].todo = <<>>] ELSE [shell EXCEPT ![s] = NoRun]
    /\ rendered' = IF Trapped(s) THEN NoFile ELSE rendered
Disturbed == [s \in Shells |-> IF Runs(s) THEN [shell[s] EXCEPT !.alone = FALSE] ELSE NoRun]
cloud == <<registry, hosting, machine>>
outside == <<tree, upstream, wish, unsaid>>
-----------------------------------------------------------------------------
(* The commands, as their steps. *)

InitSteps == <<<<"file", "-">>>>
TopUps == <<<<"draw", "token">>, <<"region", "-">>, <<"draw", "password">>, <<"dir", "-">>>>
Refreshes == [i \in DOMAIN Copied |-> <<"copy", Copied[i]>>]
Builds == <<<<"build", "app">>, <<"build", "sync">>, <<"mirror", "-">>>>
DeploySteps(builds) ==
    <<<<"check", "-">>, <<"app", "-">>, <<"volume", "-">>>> \o builds
    \o <<<<"pin", "-">>, <<"render", "-">>, <<"secrets", "-">>, <<"ship", "-">>>>
WizardSteps == <<<<"create", "-">>, <<"basics", "-">>, <<"configure", "app">>, <<"configure", "oauth">>,
                 <<"org", "-">>, <<"fly", "-">>>>
StepsFor(cmd) ==
    CASE cmd = "init" -> InitSteps \o TopUps
      [] cmd = "refresh" -> InitSteps \o Refreshes \o TopUps
      [] cmd = "deploy" -> DeploySteps(Builds)
      [] cmd = "redeploy" -> DeploySteps(<<>>)
      [] cmd = "wizard" -> WizardSteps

Start(s, cmd) ==
    /\ ~Runs(s) /\ Chance(cmd)
    /\ shell' = [Disturbed EXCEPT ![s] = [cmd |-> cmd, todo |-> StepsFor(cmd), calls |-> FALSE, asked |-> FALSE,
                                          alone |-> \A t \in Shells : ~Runs(t), read |-> NoRead,
                                          stamp |-> Unknown, images |-> NoImages, pinned |-> {}]]
    /\ reported' = "none"
    /\ UNCHANGED <<source, file, rendered, cloud, outside>>
-----------------------------------------------------------------------------
(* init: .env.fly is created once, and topped up after that. *)

CreateFile(s) ==
    /\ At(s, "file")
    /\ \/ file # NoFile /\ Advance(s) /\ UNCHANGED <<file, rendered>>
       \/ file = NoFile /\ source = NoFile /\ Quit(s) /\ UNCHANGED file
       \/ file = NoFile /\ source # NoFile /\ file' = With(source, "url", FlyUrl)
          /\ Advance(s) /\ UNCHANGED rendered
    /\ UNCHANGED <<source, cloud, outside, chance, reported>>

\* Defect: a blank value is copied like any other.
BlankCopies(k) == FALSE

\* An explicit blank means something for the installation alone.
KeepsBlank(k) == Missing(source, k) /\ k \notin BlankClears

\* --refresh: the value is replaced, and its duplicates with it.
Copy(s) ==
    /\ At(s, "copy")
    /\ LET k == Arg(s)
           agrees == Live(source, k) = Live(file, k) /\ Len(file[k]) <= 1
       IN  IF source = NoFile THEN Quit(s) /\ UNCHANGED file
           ELSE /\ file' = IF source[k] = <<>> \/ KeepsBlank(k) \/ agrees THEN file
                           ELSE With(file, k, Live(source, k))
                /\ Advance(s) /\ UNCHANGED rendered
    /\ UNCHANGED <<source, cloud, outside, chance, reported>>

\* Defect: a refresh draws the deployment's tokens anew.
DrawsAnew(k) == TRUE

\* A token of the deployment's own is drawn where there is none.
Draws(k) == Missing(file, k)
Draw(s) ==
    /\ At(s, "draw")
    /\ IF Draws(Arg(s)) THEN \E v \in {"drawn1", "drawn2"} \ {Live(file, Arg(s))} : file' = Added(file, Arg(s), v)
       ELSE UNCHANGED file
    /\ Advance(s)
    /\ UNCHANGED <<source, rendered, cloud, outside, chance, reported>>

\* The region is asked for; what is no region code is refused.
AskRegion(s) ==
    /\ At(s, "region")
    /\ \/ ~Missing(file, "region") /\ Advance(s) /\ UNCHANGED <<file, rendered>>
       \/ Missing(file, "region") /\ Advance(s) /\ UNCHANGED rendered
          /\ \E r \in Regions : file' = Added(file, "region", r)
       \/ Missing(file, "region") /\ Quit(s) /\ UNCHANGED file
    /\ UNCHANGED <<source, cloud, outside, chance, reported>>

PlaceData(s) ==
    /\ At(s, "dir")
    /\ file' = IF Missing(file, "dir") THEN Added(file, "dir", "data") ELSE file
    /\ Advance(s)
    /\ UNCHANGED <<source, rendered, cloud, outside, chance, reported>>
-----------------------------------------------------------------------------
(* deploy *)

\* What is read before anything is done.  A stamp is the revision, if the tree
\* is clean.
ReadOf(f) == [k \in Tokens \union {"url", "region"} |->
                IF k = "region" /\ Missing(f, k) THEN DefaultRegion ELSE Live(f, k)]
Revision == IF tree.content = tree.head THEN tree.head ELSE Unknown
Check(s) ==
    /\ At(s, "check")
    /\ IF /\ file # NoFile /\ Live(file, "url") \in Https
          /\ \A k \in Needed : ~Missing(file, k)
       THEN /\ shell' = [shell EXCEPT ![s].todo = Tail(@), ![s].read = ReadOf(file), ![s].stamp = Revision]
            /\ UNCHANGED rendered
       ELSE Quit(s)
    /\ UNCHANGED <<source, file, cloud, outside, chance, reported>>

CreateApp(s) ==
    /\ At(s, "app")
    /\ hosting' = [hosting EXCEPT !.made = TRUE]
    /\ Advance(s)
    /\ UNCHANGED <<source, file, registry, rendered, machine, outside, chance, reported>>

\* A list that cannot be read names no volume, and another one is made.
MakeVolume(s) ==
    /\ At(s, "volume")
    /\ \/ hosting.volumes # {} /\ UNCHANGED <<hosting, chance>>
       \/ /\ IF hosting.volumes = {} THEN UNCHANGED chance ELSE Chance("faults")
          /\ hosting' = [hosting EXCEPT !.volumes = @ \union {shell[s].read.region}]
    /\ Advance(s)
    /\ UNCHANGED <<source, file, registry, rendered, machine, outside, reported>>

Build(s) ==
    /\ At(s, "build")
    /\ registry' = [registry EXCEPT ![Arg(s)] = [of |-> tree.content, stamp |-> shell[s].stamp]]
    /\ Advance(s)
    /\ UNCHANGED <<source, file, hosting, rendered, machine, outside, chance, reported>>

\* The scorer is copied, not built, and looked at afterwards: one that Fly
\* cannot run stops the deploy, one that cannot be looked at does not.
Mirror(s) ==
    /\ At(s, "mirror")
    /\ registry' = [registry EXCEPT !["scorer"] = [of |-> upstream, stamp |-> Unknown]]
    /\ \/ upstream \in Broken /\ Quit(s) /\ UNCHANGED chance
       \/ upstream \notin Broken /\ Advance(s) /\ UNCHANGED <<chance, rendered>>
       \/ upstream \in Broken /\ Chance("faults") /\ Advance(s) /\ UNCHANGED rendered
    /\ UNCHANGED <<source, file, hosting, machine, outside, reported>>

\* pin_digest: what the tags name once the builds are pushed; a tag whose digest
\* cannot be read stays a tag.
Pinnable == {i \in Images : registry[i] # Nothing}
Pin(s) ==
    /\ At(s, "pin")
    /\ \E pinned \in SUBSET Pinnable :
         /\ IF pinned = Pinnable THEN UNCHANGED chance ELSE Chance("faults")
         /\ shell' = [shell EXCEPT ![s].images = registry, ![s].pinned = pinned, ![s].todo = Tail(@)]
    /\ UNCHANGED <<source, file, cloud, rendered, outside, reported>>

\* render-compose.sh: every container's environment from one reading of the
\* file, every image from the command line.  History: cut, where the deploy was
\* interrupted before it set the trap.
EnvOf(f) == [k \in Keys |-> Live(f, k)]
Rendering(s) == [env |-> EnvOf(file), image |-> shell[s].images, pinned |-> shell[s].pinned, cut |-> FALSE]
Render(s) ==
    /\ At(s, "render")
    /\ \/ \E k \in Tokens : Missing(file, k) /\ Quit(s)
       \/ (\A k \in Tokens : ~Missing(file, k)) /\ rendered' = Rendering(s) /\ Advance(s)
    /\ UNCHANGED <<source, file, cloud, outside, chance, reported>>

SetSecrets(s) ==
    /\ At(s, "secrets")
    /\ hosting' = [hosting EXCEPT !.secrets =
                     [k \in Secrets |->
                        IF k \in Tokens \union {"url"} THEN shell[s].read[k] ELSE Live(file, k)]]
    /\ Advance(s)
    /\ UNCHANGED <<source, file, registry, rendered, machine, outside, chance, reported>>

\* FLY_VM_SIZE and FLY_VM_MEMORY.  The least of a preset replaces fly.toml's
\* 1024 where it is more.
Least(size) == IF size = Blank THEN 0
               ELSE PresetCpus[size].cpus * (IF PresetCpus[size].shared THEN 256 ELSE 2048)
Most(size) == IF size = Blank THEN 2048
              ELSE PresetCpus[size].cpus * (IF PresetCpus[size].shared THEN 2048 ELSE 8192)
Grain(size) == IF size # Blank /\ ~PresetCpus[size].shared THEN 1024 ELSE 256

SizePasses(size, memory) ==
    /\ size \in DOMAIN PresetCpus \union {Blank}
    /\ memory # Blank => /\ memory \in DOMAIN MegaBytes /\ MegaBytes[memory] >= 1024
                         /\ Least(size) <= MegaBytes[memory] /\ MegaBytes[memory] <= Most(size)
                         /\ MegaBytes[memory] % Grain(size) = 0
MemoryOf(size, memory) ==
    IF memory # Blank THEN MegaBytes[memory] ELSE IF Least(size) > 1024 THEN Least(size) ELSE 1024

\* The machine is made, or updated where it is; Fly refuses what it cannot
\* place or run.
Deployable(s) ==
    /\ SizePasses(Live(file, "size"), Live(file, "memory"))
    /\ Live(file, "autostop") \in {Blank, "off", "stop", "suspend"}
    /\ rendered # NoFile
    /\ \A i \in Images : rendered.image[i] # Nothing
    /\ rendered.image["scorer"].of \notin Broken
    /\ machine # NoMachine \/ shell[s].read.region \in hosting.volumes
Ship(s) ==
    /\ At(s, "ship")
    /\ IF Deployable(s)
       THEN /\ machine' = [env |-> rendered.env, pinned |-> rendered.pinned,
                           image |-> [i \in Images |-> IF i \in rendered.pinned THEN rendered.image[i]
                                                       ELSE registry[i]],
                           region |-> IF machine = NoMachine THEN shell[s].read.region ELSE machine.region,
                           size |-> Live(file, "size"), memory |-> MemoryOf(Live(file, "size"), Live(file, "memory"))]
            /\ rendered' = NoFile /\ Advance(s)
       ELSE Quit(s) /\ UNCHANGED machine
    /\ UNCHANGED <<source, file, registry, hosting, outside, chance, reported>>

Report(s) ==
    /\ Runs(s) /\ shell[s].todo = <<>>
    /\ reported' = IF shell[s].alone THEN shell[s].cmd ELSE "none"
    /\ shell' = [shell EXCEPT ![s] = NoRun]
    /\ UNCHANGED <<source, file, cloud, rendered, outside, chance>>
-----------------------------------------------------------------------------
(* The wizard. *)

\* cmd_secrets: never over a file that is there.  The URL is asked for next.
WriteSecrets(s) ==
    /\ At(s, "create")
    /\ IF source # NoFile THEN Advance(s) /\ UNCHANGED source
       ELSE /\ source' = [k \in Keys |-> IF k \in Tokens \union {"auth"} THEN <<"own">>
                                         ELSE IF k = "url" THEN <<"localhost">>
                                         ELSE IF k \in ToSet(Copied) THEN <<Blank>> ELSE <<>>]
            /\ shell' = [shell EXCEPT ![s].todo = <<<<"set", "url">>>> \o Tail(@), ![s].asked = TRUE]
    /\ UNCHANGED <<file, rendered, cloud, outside, chance, reported>>

\* What Enter accepts is what is there; an image that is named is not asked for.
Answer(k) ==
    CASE k = "score" /\ wish.score # Blank /\ ~Missing(source, k) -> Live(source, k)
      [] k \in {"org", "admins", "url"} /\ wish[k] = Blank -> Live(source, k)
      [] OTHER -> wish[k]

\* set_env_var, of a key the organizer has answered
SetAnswer(s) ==
    /\ At(s, "set")
    /\ source' = With(source, Arg(s), Answer(Arg(s)))
    /\ unsaid' = unsaid \ {Arg(s)}
    /\ Advance(s)
    /\ UNCHANGED <<file, rendered, cloud, tree, upstream, wish, chance, reported>>

\* No admin, or no organization to fork into, is refused before anything is
\* written.
Basics(s) ==
    /\ At(s, "basics")
    /\ LET refused == ~BasicsDone(source) /\ \/ Answer("admins") = Blank
                                             \/ Answer("score") # Blank /\ Answer("org") = Blank
       IN  \/ refused /\ Quit(s)
           \/ ~refused /\ UNCHANGED rendered
              /\ AdvanceTo(s, IF BasicsDone(source) THEN <<>>
                              ELSE <<<<"set", "org">>, <<"set", "admins">>, <<"set", "score">>>>
                                   \o (IF shell[s].asked THEN <<>> ELSE <<<<"set", "url">>>>))
    /\ UNCHANGED <<source, file, cloud, outside, chance, reported>>

\* wiz_sync_app, wiz_oauth_app: without Secure Development there is nothing to
\* poll; the organizer may give up.
Configure(s) ==
    /\ At(s, "configure")
    /\ LET k == Arg(s) IN
       \/ AdvanceTo(s, <<>>)
       \/ Missing(source, k) /\ (k = "app" => ~Missing(source, "score")) /\ AdvanceTo(s, <<<<"set", k>>>>)
    /\ UNCHANGED <<source, file, rendered, cloud, outside, chance, reported>>

\* wiz_org: an organization that is not there, and provisioning that fails,
\* stop the wizard.
ProvisionOrg(s) ==
    /\ At(s, "org")
    /\ \/ Advance(s) /\ UNCHANGED rendered
       \/ ~Missing(source, "score") /\ Quit(s)
    /\ UNCHANGED <<source, file, cloud, outside, chance, reported>>

\* wiz_fly_deploy: init, the public hostname, a deploy; the organizer may say no
\* to the one and to the other.
WizardFly(s) ==
    /\ At(s, "fly")
    /\ \E steps \in {<<>>, InitSteps \o TopUps \o <<<<"hostname", "-">>>>,
                     InitSteps \o TopUps \o <<<<"hostname", "-">>>> \o DeploySteps(Builds)} :
         /\ steps # <<>> => ~Missing(source, "score")
         /\ shell' = [shell EXCEPT ![s].todo = steps, ![s].calls = TRUE]
    /\ UNCHANGED <<source, file, rendered, cloud, outside, chance, reported>>
\* What is no hostname ends it.
Hostname(s) ==
    /\ At(s, "hostname")
    /\ \/ (\E url \in Https : file' = With(file, "url", url)) /\ Advance(s) /\ UNCHANGED rendered
       \/ Quit(s) /\ UNCHANGED file
    /\ UNCHANGED <<source, cloud, outside, chance, reported>>
-----------------------------------------------------------------------------
(* What else happens. *)

\* A step fails, or the organizer interrupts it.  The answers that have been
\* given are written one by one; a rendered file waits for its trap.
Writes(s) == At(s, "set") /\ (Arg(s) \in {"admins", "score"} \/ (Arg(s) = "url" /\ ~shell[s].asked))
Unwritten(s) == {k \in Answered : \E i \in DOMAIN shell[s].todo : shell[s].todo[i] = <<"set", k>>}
LeavesRendered(s) ==
    /\ At(s, "render") /\ \A k \in Tokens : ~Missing(file, k)
    /\ rendered' = [Rendering(s) EXCEPT !.cut = TRUE]
    /\ shell' = [shell EXCEPT ![s] = NoRun]
StepFails(s) ==
    /\ Runs(s) /\ shell[s].todo # <<>> /\ Chance("faults")
    /\ unsaid' = IF Writes(s) THEN unsaid \union Unwritten(s) ELSE unsaid
    /\ Quit(s) \/ LeavesRendered(s)
    /\ UNCHANGED <<source, file, cloud, tree, upstream, wish, reported>>

\* An init cut short leaves the file without its last line.
CutShort(s) ==
    /\ At(s, "file") /\ file = NoFile /\ source # NoFile /\ Chance("faults")
    /\ file' = [source EXCEPT !["url"] = <<>>] /\ Quit(s)
    /\ UNCHANGED <<source, cloud, outside, reported>>

Outside(kind) == Chance(kind) /\ shell' = Disturbed /\ reported' = "none"

\* A credential is rotated in .env; .env.fly is edited by hand, its first or a
\* new assignment of a key.
EditSource(k, v) ==
    /\ source # NoFile /\ Outside("edits")
    /\ source' = With(source, k, v)
    /\ UNCHANGED <<file, rendered, cloud, outside>>
EditFile(k, v) ==
    /\ file # NoFile /\ Outside("hands") /\ v # Blank
    /\ \/ file' = Added(file, k, v)
       \/ file[k] # <<>> /\ file' = [file EXCEPT ![k][1] = v]
    /\ UNCHANGED <<source, rendered, cloud, outside>>

EditTree ==
    /\ Outside("moves") /\ tree' = [tree EXCEPT !.content = tree.head + 1]
    /\ UNCHANGED <<source, file, rendered, cloud, upstream, wish, unsaid>>
Commit ==
    /\ tree.content # tree.head /\ Outside("moves") /\ tree' = [tree EXCEPT !.head = tree.content]
    /\ UNCHANGED <<source, file, rendered, cloud, upstream, wish, unsaid>>
PushScorer ==
    /\ Outside("moves") /\ upstream' = upstream + 1
    /\ UNCHANGED <<source, file, rendered, cloud, tree, wish, unsaid>>

\* A machine that restarts resolves its tags anew.
RestartMachine ==
    /\ machine # NoMachine
    /\ machine' = [machine EXCEPT !.image = [i \in Images |-> IF i \in machine.pinned THEN @[i] ELSE registry[i]]]
    /\ machine' # machine
    /\ UNCHANGED <<source, file, registry, hosting, rendered, shell, chance, outside, reported>>

FlyInit ==
    \E scene \in Scenes :
        /\ source = scene.source /\ file = scene.file /\ wish = scene.wish /\ chance = scene.uses
        /\ unsaid = {}
        /\ tree = [head |-> 0, content |-> 0] /\ upstream = 0
        /\ registry = [i \in Images |-> Nothing]
        /\ hosting = [made |-> FALSE, volumes |-> {}, secrets |-> NoFile]
        /\ rendered = NoFile /\ machine = NoMachine
        /\ shell = [s \in Shells |-> NoRun] /\ reported = "none"

ScriptStep(s) ==
    \/ CreateFile(s) \/ Copy(s) \/ Draw(s) \/ AskRegion(s) \/ PlaceData(s)
    \/ Check(s) \/ CreateApp(s) \/ MakeVolume(s) \/ Build(s) \/ Mirror(s) \/ Pin(s) \/ Render(s)
    \/ SetSecrets(s) \/ Ship(s) \/ Report(s)
    \/ WriteSecrets(s) \/ SetAnswer(s) \/ Basics(s) \/ Configure(s) \/ ProvisionOrg(s)
    \/ WizardFly(s) \/ Hostname(s)

FlyNext ==
    \/ \E s \in Shells, cmd \in Commands : Start(s, cmd)
    \/ \E s \in Shells : ScriptStep(s) \/ StepFails(s) \/ CutShort(s)
    \/ \E k \in ToSet(Copied), v \in Values \union {Blank} : EditSource(k, v) \/ EditFile(k, v)
    \/ EditTree \/ Commit \/ PushScorer \/ RestartMachine

FlySpec == FlyInit /\ [][FlyNext]_flyVars
-----------------------------------------------------------------------------
(* Properties *)

PlainSteps == {"create", "basics", "org", "fly", "file", "region", "dir", "hostname", "check", "app",
               "volume", "mirror", "pin", "render", "secrets", "ship"}
Steps == {<<a, "-">> : a \in PlainSteps} \union {<<"draw", b>> : b \in Tokens}
         \union {<<"copy", b>> : b \in ToSet(Copied)} \union {<<"build", b>> : b \in {"app", "sync"}}
         \union {<<"set", b>> : b \in Asked}
         \union {<<"configure", b>> : b \in {"app", "oauth"}}
Item == [of : Int, stamp : Int]
Shell == [cmd : Commands, todo : Seq(Steps), calls : BOOLEAN, asked : BOOLEAN, alone : BOOLEAN,
          read : [Tokens \union {"url", "region"} -> Texts], stamp : Int, images : [Images -> Item],
          pinned : SUBSET Images]
FlyTypeOK ==
    /\ \A f \in {source, file} \ {NoFile} : Sound(f)
    /\ wish \in [Asked -> Texts] /\ unsaid \subseteq Answered
    /\ tree \in [head : Nat, content : Nat] /\ upstream \in Nat /\ registry \in [Images -> Item]
    /\ hosting \in [made : BOOLEAN, volumes : SUBSET (Regions \union {DefaultRegion}),
                    secrets : [Secrets -> Texts] \union {NoFile}]
    /\ shell \in [Shells -> Shell \union {NoRun}]
    /\ chance \in [Commands \union {"edits", "moves", "hands", "faults"} -> Nat]
    /\ reported \in Commands \union {"none"}

\* A deploy that ends well, nothing else having moved, has put all of the env
\* file on the machine, with the secrets that go with it and the images the
\* registry holds; and one that builds has put the checkout and the scorer of
\* the day there, a stamp on the app only where the stamp describes it.
DeployedAsWritten ==
    reported \in {"deploy", "redeploy"} =>
        /\ machine.env = EnvOf(file)
        /\ \A k \in DOMAIN hosting.secrets : hosting.secrets[k] = machine.env[k]
        /\ machine.image = registry
        /\ reported = "deploy" =>
             /\ \A i \in {"app", "sync"} : machine.image[i].of = tree.content
             /\ machine.image["scorer"].of = upstream
             /\ machine.image["app"].stamp = Revision

\* A refresh that ends well has settled every key it copies: what the source
\* says, said once, unless the source does not say.
RefreshSettles ==
    reported = "refresh" =>
        \A k \in ToSet(Copied) :
            source[k] # <<>> /\ (Live(source, k) # Blank \/ k \in BlankClears)
                => Live(file, k) = Live(source, k) /\ Len(file[k]) <= 1

\* Whatever is refreshed or edited while a deploy runs, no machine comes up
\* without an administrator, an organization, a scorer or a credential it
\* needs; its volume is in its region; and Fly takes the memory it asks for.
MachineServes ==
    machine # NoMachine =>
        /\ \A k \in Needed : machine.env[k] # Blank
        /\ machine.region \in hosting.volumes
        /\ machine.memory % 256 = 0 /\ 1024 <= machine.memory
        /\ machine.memory <= Most(machine.size) /\ Least(machine.size) <= machine.memory

\* The rendered file, with every credential in it, outlives no deploy but one
\* that was interrupted before it set its trap.
NothingLeftBehind == rendered # NoFile /\ ~rendered.cut => \E s \in Shells : Trapped(s)

\* However often the wizard is interrupted and run again, once it ends well
\* the file says what the organizer has answered, but for a scorer image or a
\* URL that an interrupt kept from being written: what has the basics is not
\* asked for them again.
WizardKeepsAnswers ==
    reported = "wizard" => \A k \in Answered : Live(source, k) = wish[k] \/ (k \in {"score", "url"} /\ k \in unsaid)

FlyInv == FlyTypeOK /\ DeployedAsWritten /\ RefreshSettles /\ MachineServes /\ NothingLeftBehind /\ WizardKeepsAnswers

\* Said of the rendered file, "removed on ANY exit" (deploy.sh:1023-1025), and not
\* so: an exit between the rendering and the trap leaves it.
RemovedOnAnyExit == rendered # NoFile => \E s \in Shells : Trapped(s)

\* Said of the wizard, and not so: a run that is interrupted among its writes and
\* run again ends with every answer in the file.
EveryAnswerKept == reported = "wizard" => \A k \in Answered : Live(source, k) = wish[k]

\* Said of init, and not so: a deployment shares no token with the stack its
\* file is copied from.
TokenIsOwn == reported = "init" /\ source # NoFile => Live(file, "token") # Live(source, "token")

\* What belongs to this deployment stays: once its token, its password, its
\* secrets and its region are in the file no command replaces them, and an
\* image that is pinned changes with a deploy alone.
OwnKept ==
    [][/\ \A k \in Kept : Live(file, k) # Blank => Live(file', k) = Live(file, k)
       /\ \A i \in Images :
            machine # NoMachine /\ i \in machine.pinned /\ machine'.image[i] # machine.image[i]
                => \E s \in Shells : At(s, "ship")]_flyVars
=============================================================================
