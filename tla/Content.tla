------------------------------ MODULE Content ------------------------------
(***************************************************************************)
(* What organizers write for the jeopardy module: challenges with their      *)
(* answers, the category list, stories and attached files (classic-store.ts, *)
(* attachments-store.ts, attachment-files-store.ts, and the part of          *)
(* event-store.ts that replaces a board by an archive's).                    *)
(*                                                                         *)
(* Every operation is a request of several round trips: reads, then one or    *)
(* more pipelines, whose commands run in order but not as one, then scripts.  *)
(* Two requests interleave between any two of them.  A command may fail, in   *)
(* which case the others of its pipeline still run and the request ends; and  *)
(* a request may end anywhere.  A challenge's flag, its normalized form and   *)
(* its hint are its answer here.                                             *)
(***************************************************************************)
EXTENDS Integers, Sequences, FiniteSets, FiniteSetsExt, Functions, SequencesExt

CONSTANTS
    Items,
    Names, Fold,     \* category spellings; what a spelling is to a reader who ignores case
    Texts,           \* what a challenge says, with its answer
    StoryIds,
    Digests, Size,   \* file contents; their size, in chunks
    Link,            \* the content of an attachment that is a link
    ItemMax,         \* ATTACHMENTS_PER_ITEM_MAX
    EventMax,        \* ATTACHMENTS_EVENT_MAX_BYTES, in chunks
    ListMax,         \* CLASSIC_CATEGORIES_MAX
    Tasks,           \* requests in flight
    Boards,          \* the boards a behaviour may begin with
    Tellings,        \* what organizers may make of the stories
    Bundles,         \* the files they may import
    Allowances,      \* the requests it may have, and how many, and how many faults
    None

VARIABLES
    record,       \* ctf:classic:challenges: [category, text]
    answer,       \* ctf:classic:flag, flagnorm and hints: the text they go with
    categories,   \* ctf:classic:categories, in display order
    stories,      \* ctf:classic:stories: the steps of each story
    files,        \* ctf:attachments:meta (and its index): by item, in order
    blob,         \* ctf:attachments:blob: the chunks stored
    bytes,        \* ctf:attachments:bytes
    job,          \* the requests in flight
    made,         \* how many attachment ids and chunk prefixes were drawn
    left,         \* what is left of the behaviour's allowance
    exported,     \* the last bundle an export returned
    crossed,      \* history: two requests over the board overlapped
    broken,       \* history: a request ended by a fault
    half,         \* history: renames that failed and were not completed since
    swept,        \* history: every file was cleared while one was being written
    doubt         \* history: a commit or a fill landed and its answer was lost

board    == <<record, answer, categories, stories>>
store    == <<files, blob, bytes>>
history  == <<crossed, broken, half, swept, doubt>>
contentVars == <<board, store, job, made, left, exported, history>>

Contents == Digests \union {Link}
Free == [pc |-> "free"]
Spends(kind) == left[kind] > 0 /\ left' = [left EXCEPT ![kind] = @ - 1]
Existing(rec) == {i \in Items : rec[i] # None}
Record == [category : Names, text : Texts] \union {None}
-----------------------------------------------------------------------------
(***************************************************************************)
(* Lists and stories.                                                        *)
(***************************************************************************)
Named(list, name) == {k \in DOMAIN list : Fold[list[k]] = Fold[name]}

\* The entries of a list at some of its places, and those not in a set, in order.
Picked(list, places) ==
    [n \in 1..Cardinality(places) |->
        list[CHOOSE k \in places : Cardinality({j \in places : j <= k}) = n]]
Without(list, set) == Picked(list, {k \in DOMAIN list : list[k] \notin set})

\* setCategories: a spelling that only differs in case is dropped.
Distinct(list) == Picked(list, {k \in DOMAIN list : \A j \in Named(list, list[k]) : k <= j})

\* canonicalStories: a challenge is in one story, and once.
Canonical(all) ==
    \A a, b \in StoryIds : \A j \in DOMAIN all[a], k \in DOMAIN all[b] :
        all[a][j] = all[b][k] => a = b /\ j = k

\* A bundle's story replaces the stored one of its id; no other is touched.
Merged(all, own) == [id \in StoryIds |-> IF own[id] = <<>> THEN all[id] ELSE own[id]]

Accepts(all, own) == Canonical(Merged(all, own))

\* The categories of an import: the list, then what the bundle adds to it; and
\* the spelling a category ends up with.
Unioned(list, new) == Distinct(list \o new)
Spelling(list, name) == IF Named(list, name) = {} THEN name ELSE list[Min(Named(list, name))]
-----------------------------------------------------------------------------
(***************************************************************************)
(* Files.  An attachment is [id, content, missing, prefix].                  *)
(***************************************************************************)
Chunks(prefix, content) == {<<prefix, n>> : n \in 1..Size[content]}
Held(att)   == IF att.missing THEN {} ELSE Chunks(att.prefix, att.content)
Weight(att) == IF att.missing THEN 0 ELSE Size[att.content]
Attached    == UNION {ToSet(files[i]) : i \in Items}
Weights(atts) == SumFunction([att \in atts |-> Weight(att)])
Stored(all) == Weights(UNION {ToSet(all[i]) : i \in Items})

\* COMMIT_SCRIPT
CommitVerdict(i, att) ==
    IF record[i] = None THEN "noitem"
    ELSE IF Len(files[i]) >= ItemMax THEN "items"
    ELSE IF bytes + Weight(att) > EventMax THEN "bytes" ELSE "ok"

Commit(i, att) ==
    IF CommitVerdict(i, att) = "ok"
    THEN /\ files' = [files EXCEPT ![i] = Append(@, att)]
         /\ bytes' = bytes + Weight(att)
         /\ UNCHANGED blob
    ELSE blob' = blob \ Held(att) /\ UNCHANGED <<files, bytes>>

\* Defect: the total is not checked again by the script.
FillVerdictUncapped(att) == IF att \notin Attached THEN "unknown" ELSE "ok"

\* FILL_SCRIPT, for an attachment found missing before: it still is, and its
\* bytes fit.
FillVerdict(att) ==
    IF att \notin Attached THEN "unknown"
    ELSE IF bytes + Size[att.content] > EventMax THEN "bytes" ELSE "ok"

Fill(att, prefix) ==
    IF FillVerdict(att) = "ok"
    THEN /\ files' = [i \in Items |-> [k \in DOMAIN files[i] |->
                        IF files[i][k] = att THEN [att EXCEPT !.missing = FALSE, !.prefix = prefix]
                        ELSE files[i][k]]]
         /\ bytes' = bytes + Size[att.content]
         /\ UNCHANGED blob
    ELSE blob' = blob \ Chunks(prefix, att.content) /\ UNCHANGED <<files, bytes>>

Dropped(id) == {att \in Attached : att.id = id}

\* REMOVE_SCRIPT
RemoveFile(id) ==
    /\ files' = [i \in Items |-> Without(files[i], Dropped(id))]
    /\ blob' = blob \ UNION {Held(att) : att \in Dropped(id)}
    /\ bytes' = bytes - Weights(Dropped(id))
-----------------------------------------------------------------------------
(***************************************************************************)
(* Requests.  pc is the next round trip; todo the commands left of the        *)
(* pipeline it sends; failed, that one of them failed; plan, what a request    *)
(* still holds: files to attach, to fill or to remove, or what was read; put,   *)
(* the file it is writing.                                                     *)
(***************************************************************************)
BoardKinds == {"list", "rename", "save", "delete", "stories", "import", "replace", "export"}
Put(key, item, to) == [key |-> key, item |-> item, to |-> to]
Work(kind, pc, ask, todo, plan) ==
    [kind |-> kind, pc |-> pc, ask |-> ask, todo |-> todo, plan |-> plan,
     failed |-> FALSE, put |-> None]

Busy(s, pc) == job[s].pc = pc /\ job[s].todo = <<>>
Ends(s) == job' = [job EXCEPT ![s] = Free]
Goes(s, pc) == job' = [job EXCEPT ![s].pc = pc]
Crosses == crossed' = (crossed \/ \E t \in Tasks : job[t] # Free /\ job[t].kind \in BoardKinds)
BoardOnly == UNCHANGED <<store, made, exported, broken, half, swept, doubt>>
FilesOnly == UNCHANGED <<board, exported, crossed, broken, half, doubt>>

\* A request over the board begins: a refusal at its first read leaves nothing.
Begins(s, kind) == job[s] = Free /\ Spends(kind) /\ Crosses /\ UNCHANGED board /\ BoardOnly
Takes(s, work) == job' = [job EXCEPT ![s] = work]

\* The panel, which the category list is edited in: a name some challenge it
\* shows uses is not removed.
LoadPanel(s) ==
    /\ Begins(s, "list")
    /\ Takes(s, Work("list", "panel", {record[i].category : i \in Existing(record)}, <<>>, categories))

SetCategories(s, added, removed) ==
    /\ Busy(s, "panel") /\ removed \cap job[s].ask = {}
    /\ LET list == Distinct(Without(job[s].plan, removed) \o added)
       IN  Len(list) <= ListMax /\ categories' = list
    /\ Ends(s)
    /\ UNCHANGED <<record, answer, stories, left, crossed>> /\ BoardOnly

\* renameCategory
RenameCategory(s, from, to) ==
    /\ Begins(s, "rename")
    /\ Named(categories, from) # {}
    /\ LET at == Min(Named(categories, from)) IN
       /\ Named(categories, to) \subseteq {at}
       /\ Takes(s, Work("rename", "moving", [from |-> categories[at], to |-> to], <<>>,
                        [categories EXCEPT ![at] = to]))

Moving(ask) == SetToSeq({i \in Existing(record) : record[i].category = ask.from})
Moves(ask) == LET ids == Moving(ask)
              IN  [k \in DOMAIN ids |-> Put("record", ids[k], [record[ids[k]] EXCEPT !.category = ask.to])]

\* Defect: the list is rewritten first.
MoveChallengesAfterList(s) ==
    /\ Busy(s, "moving")
    /\ job' = [job EXCEPT ![s].todo = <<Put("categories", None, job[s].plan)>> \o Moves(job[s].ask),
                          ![s].pc = "moved"]
    /\ UNCHANGED <<board, left, crossed>> /\ BoardOnly

MoveChallenges(s) ==
    /\ Busy(s, "moving")
    /\ job' = [job EXCEPT ![s].todo = Moves(job[s].ask), ![s].pc = "moved"]
    /\ UNCHANGED <<board, left, crossed>> /\ BoardOnly

WriteList(s) ==
    /\ Busy(s, "moved") /\ ~job[s].failed
    /\ categories' = job[s].plan
    /\ Ends(s)
    /\ UNCHANGED <<record, answer, stories, left, crossed>> /\ BoardOnly

\* upsertChallenge
Save(s, i, name, text) ==
    /\ Begins(s, "save")
    /\ Contains(categories, name)
    /\ Takes(s, Work("save", "saved", i,
                     <<Put("record", i, [category |-> name, text |-> text]), Put("answer", i, text)>>, <<>>))

\* deleteChallenge
Delete(s, i) ==
    /\ Begins(s, "delete")
    /\ Takes(s, Work("delete", "deleted", i, <<Put("record", i, None), Put("answer", i, None)>>, <<>>))

ReadStories(s) ==
    /\ Busy(s, "deleted") /\ ~job[s].failed
    /\ LET i == job[s].ask IN
       IF \E id \in StoryIds : Contains(stories[id], i)
       THEN job' = [job EXCEPT ![s].pc = "shrunk",
                       ![s].todo = <<Put("stories", None, [id \in StoryIds |-> Without(stories[id], {i})])>>]
       ELSE Goes(s, "shrunk")
    /\ UNCHANGED <<board, left, crossed>> /\ BoardOnly

ListFiles(s) ==
    /\ Busy(s, "shrunk") /\ ~job[s].failed
    /\ job' = [job EXCEPT ![s].pc = "remove", ![s].plan = [k \in DOMAIN files[job[s].ask] |-> files[job[s].ask][k].id]]
    /\ UNCHANGED <<board, left, crossed>> /\ BoardOnly

RemoveNext(s) ==
    /\ Busy(s, "remove")
    /\ IF job[s].plan = <<>> THEN Ends(s) /\ UNCHANGED store
       ELSE RemoveFile(Head(job[s].plan)) /\ job' = [job EXCEPT ![s].plan = Tail(@)]
    /\ UNCHANGED <<made, left, swept>> /\ FilesOnly

\* The route's list of ids, then setStories.
CheckSteps(s, all) ==
    /\ Begins(s, "stories")
    /\ UNION {ToSet(all[id]) : id \in StoryIds} \subseteq Existing(record)
    /\ Canonical(all)
    /\ Takes(s, Work("stories", "told", None, <<Put("stories", None, all)>>, <<>>))
-----------------------------------------------------------------------------
(***************************************************************************)
(* An import: [challenges (each [item, category, text, attach]), categories,   *)
(* stories, carried (<<item, content>> whose bytes come with it)].             *)
(***************************************************************************)
StoredUploads(i) == {att.content : att \in {a \in ToSet(files[i]) : ~a.missing}}
Sizes(pairs) == SumFunction([c \in pairs |-> Size[c[2]]])
Carries(b) == Sizes(b.carried)
Added(b) == Sizes({c \in b.carried : c[2] \notin StoredUploads(c[1])})

\* parseBundle and decodeAttachmentFiles: what is read as a bundle at all.
Parsed(b) ==
    LET items == [k \in DOMAIN b.challenges |-> b.challenges[k].item]
    IN  /\ b.challenges \in Seq([item : Items, category : ToSet(b.categories), text : Texts,
                                 attach : Seq(Contents)])
        /\ \A j, k \in DOMAIN items : items[j] = items[k] => j = k
        /\ b.categories \in Seq(Names) /\ Distinct(b.categories) = b.categories
        /\ b.stories \in [StoryIds -> Seq(ToSet(items))] /\ Canonical(b.stories)
        /\ IsFiniteSet(b.carried) /\ b.carried \subseteq Items \X Digests
        /\ \A file \in b.carried : \E k \in DOMAIN items :
              items[k] = file[1] /\ file[2] \in ToSet(b.challenges[k].attach) \ {Link}

\* importClassicBundle: the files fit.
Import(s, b) ==
    /\ Begins(s, "import")
    /\ Added(b) = 0 \/ bytes + Added(b) <= EventMax
    /\ Takes(s, Work("import", "read", b, <<>>, <<>>))

\* importEventBundle: clearChallenges first.  The reset before it, and the
\* settings and the images, are other modules' or not modelled.
Replace(s, b) ==
    LET none    == [i \in Items |-> None]
        cleared == <<Put("record", None, none), Put("answer", None, none),
                     Put("categories", None, <<>>),
                     Put("stories", None, [id \in StoryIds |-> <<>>])>>
    IN  /\ Begins(s, "replace")
        /\ Carries(b) <= EventMax
        /\ Takes(s, Work("replace", "clear", b, cleared, <<>>))

ClearFiles(s) ==
    /\ Busy(s, "clear") /\ ~job[s].failed
    /\ files' = [i \in Items |-> <<>>] /\ blob' = {} /\ bytes' = 0
    /\ swept' = (swept \/ \E t \in Tasks : job[t].pc = "chunks")
    /\ Goes(s, "read")
    /\ UNCHANGED <<made, left>> /\ FilesOnly

Writes(b) ==
    LET list == Unioned(categories, b.categories)
        rows == [n \in 1..2 * Len(b.challenges) |->
                    LET c == b.challenges[(n + 1) \div 2]
                    IN  IF n % 2 = 1
                        THEN Put("record", c.item, [category |-> Spelling(list, c.category), text |-> c.text])
                        ELSE Put("answer", c.item, c.text)]
    IN  rows \o <<Put("categories", None, list), Put("stories", None, Merged(stories, b.stories))>>

\* importBundle: what is read decides every write.
ReadBoard(s) ==
    /\ Busy(s, "read")
    /\ LET b == job[s].ask IN
       IF Accepts(stories, b.stories) /\ Len(Unioned(categories, b.categories)) <= ListMax
       THEN job' = [job EXCEPT ![s].pc = "plan", ![s].plan = Writes(b)]
       ELSE Ends(s)
    /\ UNCHANGED <<board, left, crossed>> /\ BoardOnly

\* planBundleAttachments: what each challenge lacks, as [item, content] pairs.
Lacks(c) == Without(c.attach, {att.content : att \in ToSet(files[c.item])})
Additions(b) == FlattenSeq([k \in DOMAIN b.challenges |->
                    LET c == b.challenges[k]
                    IN  [n \in DOMAIN Lacks(c) |-> <<c.item, Lacks(c)[n]>>]])

PlanFiles(s) ==
    /\ Busy(s, "plan")
    /\ LET b == job[s].ask IN
       IF \A k \in DOMAIN b.challenges :
             Len(files[b.challenges[k].item]) + Len(Lacks(b.challenges[k])) <= ItemMax
       THEN job' = [job EXCEPT ![s].pc = "attach", ![s].todo = job[s].plan, ![s].plan = Additions(b)]
       ELSE Ends(s)
    /\ UNCHANGED <<board, left, crossed>> /\ BoardOnly

\* applyBundleAttachments: a file it names is committed as missing.
AttachNext(s) ==
    /\ Busy(s, "attach") /\ ~job[s].failed
    /\ IF job[s].plan = <<>>
       THEN /\ job' = [job EXCEPT ![s].pc = "find", ![s].plan = SetToSeq(job[s].ask.carried)]
            /\ UNCHANGED <<store, made>>
       ELSE LET add == Head(job[s].plan)
                att == [id |-> made + 1, content |-> add[2], missing |-> add[2] # Link, prefix |-> made + 1]
            IN  /\ Commit(add[1], att)
                /\ made' = made + 1
                /\ IF CommitVerdict(add[1], att) = "ok" THEN job' = [job EXCEPT ![s].plan = Tail(@)]
                   ELSE Ends(s)
    /\ UNCHANGED <<left, swept>> /\ FilesOnly

\* Defect: the chunks go under the attachment's own id.
PrefixOfFile(att) == att.id

\* fillMissingUpload: every attempt has a prefix of its own.
FreshPrefix(att) == made + 1

Writing(att) == [att |-> att, prefix |-> FreshPrefix(att), n |-> 0]
Missing(i, content) == {att \in ToSet(files[i]) : att.missing /\ att.content = content}

\* fillAttachmentFiles: a file whose upload is stored already is skipped.
FindNext(s) ==
    /\ Busy(s, "find")
    /\ IF job[s].plan = <<>> THEN Ends(s) /\ UNCHANGED made
       ELSE LET file == Head(job[s].plan)
                found == Missing(file[1], file[2])
            IN  IF found = {} THEN job' = [job EXCEPT ![s].plan = Tail(@)] /\ UNCHANGED made
                ELSE /\ made' = made + 1
                     /\ job' = [job EXCEPT ![s].plan = Tail(@), ![s].pc = "chunks",
                                           ![s].put = Writing(CHOOSE att \in found : TRUE)]
    /\ UNCHANGED <<store, left, swept>> /\ FilesOnly
-----------------------------------------------------------------------------
(***************************************************************************)
(* Files, one chunk a round trip.                                            *)
(***************************************************************************)
\* addUpload and addLink, after the route found the challenge.
Upload(s, i, content) ==
    /\ job[s] = Free /\ Spends("upload")
    /\ record[i] # None
    /\ made' = made + 1
    /\ LET att == [id |-> made + 1, content |-> content, missing |-> FALSE, prefix |-> made + 1]
       IN  Takes(s, [Work("upload", "chunks", i, <<>>, <<>>)
                     EXCEPT !.put = [att |-> att, prefix |-> made + 1, n |-> 0]])
    /\ UNCHANGED <<store, swept>> /\ FilesOnly

\* A re-upload of a missing file.
Refill(s, i, content) ==
    /\ job[s] = Free /\ Spends("upload")
    /\ made' = made + 1
    /\ \E att \in Missing(i, content) :
          Takes(s, [Work("refill", "chunks", i, <<>>, <<>>) EXCEPT !.put = Writing(att)])
    /\ UNCHANGED <<store, swept>> /\ FilesOnly

PutChunk(s) ==
    /\ Busy(s, "chunks")
    /\ LET put == job[s].put IN
       /\ put.n < Size[put.att.content]
       /\ blob' = blob \union {<<put.prefix, put.n + 1>>}
    /\ job' = [job EXCEPT ![s].put.n = @ + 1]
    /\ UNCHANGED <<files, bytes, made, left, swept>> /\ FilesOnly

\* The script that ends an upload or a fill; ok is its verdict.
Written(s) == Busy(s, "chunks") /\ job[s].put.n = Size[job[s].put.att.content]
Accepted(s) == LET put == job[s].put IN
    IF job[s].kind = "upload" THEN CommitVerdict(job[s].ask, put.att) = "ok"
    ELSE FillVerdict(put.att) = "ok"
Script(s) == LET put == job[s].put IN
    IF job[s].kind = "upload" THEN Commit(job[s].ask, put.att) ELSE Fill(put.att, put.prefix)

Finish(s) ==
    /\ Written(s)
    /\ Script(s)
    /\ IF job[s].kind \in {"import", "replace"} /\ Accepted(s) THEN Goes(s, "find") ELSE Ends(s)
    /\ UNCHANGED <<made, left, swept>> /\ FilesOnly

\* The script ran, and its answer was lost: what was written is taken back.
FinishUnheard(s) ==
    /\ Written(s) /\ Spends("lost")
    /\ Script(s)
    /\ doubt' = (doubt \/ Accepted(s))
    /\ Goes(s, "drop")
    /\ UNCHANGED <<board, made, exported, crossed, broken, half, swept>>

ChunkFails(s) ==
    /\ Busy(s, "chunks") /\ ~Written(s) /\ Spends("fault")
    /\ Goes(s, "drop")
    /\ UNCHANGED <<store, made, swept>> /\ FilesOnly

DropChunks(s) ==
    /\ Busy(s, "drop")
    /\ blob' = blob \ Chunks(job[s].put.prefix, job[s].put.att.content)
    /\ Ends(s)
    /\ UNCHANGED <<files, bytes, made, left, swept>> /\ FilesOnly

\* removeAttachment, one script.
RemoveAttachment(id) ==
    /\ Spends("remove") /\ id \in {att.id : att \in Attached}
    /\ RemoveFile(id)
    /\ UNCHANGED <<job, made, swept>> /\ FilesOnly
-----------------------------------------------------------------------------
(***************************************************************************)
(* exportBundle: the board in three reads, in any order.  The files it names   *)
(* are left out.                                                             *)
(***************************************************************************)
Parts == {"rows", "categories", "stories"}

Export(s) ==
    LET none   == [i \in Items |-> None]
        unread == [rows |-> none, answers |-> none, categories |-> <<>>,
                   stories |-> [id \in StoryIds |-> <<>>], whole |-> TRUE]
    IN  /\ Begins(s, "export")
        /\ Takes(s, Work("export", "reading", Parts, <<>>, unread))

ExportRead(s, part) ==
    /\ Busy(s, "reading") /\ part \in job[s].ask
    /\ job' = [job EXCEPT ![s].ask = @ \ {part},
                          ![s].plan = CASE part = "rows" -> [@ EXCEPT !.rows = record, !.answers = answer]
                                        [] part = "categories" -> [@ EXCEPT !.categories = categories]
                                        [] OTHER -> [@ EXCEPT !.stories = stories]]
    /\ UNCHANGED <<board, left, crossed>> /\ BoardOnly

\* A failed read of the challenges or of the categories is read as none.
ExportUnread(s, part) ==
    /\ Busy(s, "reading") /\ part \in job[s].ask \ {"stories"}
    /\ Spends("lost")
    /\ job' = [job EXCEPT ![s].ask = @ \ {part}, ![s].plan.whole = FALSE]
    /\ UNCHANGED <<board, crossed>> /\ BoardOnly

\* Defect: the stories go out as they are stored.
UnprunedSteps(b) == b

Pruned(b) == [b EXCEPT !.stories = [id \in StoryIds |-> Without(@[id], {i \in Items : b.rows[i] = None})]]

ExportDone(s) ==
    /\ Busy(s, "reading") /\ job[s].ask = {}
    /\ exported' = Pruned(job[s].plan)
    /\ Ends(s)
    /\ UNCHANGED <<board, store, made, left, crossed, broken, half, swept, doubt>>
-----------------------------------------------------------------------------
(***************************************************************************)
(* Pipelines and faults.                                                     *)
(***************************************************************************)
\* A command over one item's field, or over the whole key.
Over(put, key, was) == IF put.key # key THEN was
                       ELSE IF put.item = None THEN put.to ELSE [was EXCEPT ![put.item] = put.to]

RunCommand(s) ==
    /\ job[s] # Free /\ job[s].todo # <<>>
    /\ LET put == Head(job[s].todo) IN
       /\ record' = Over(put, "record", record)
       /\ answer' = Over(put, "answer", answer)
       /\ categories' = Over(put, "categories", categories)
       /\ stories' = Over(put, "stories", stories)
    /\ job' = [job EXCEPT ![s].todo = Tail(@)]
    /\ UNCHANGED <<left, crossed>> /\ BoardOnly

\* The names a request that broke off may leave on challenges and off the list.
Unsettled(j) == CASE j.kind = "rename"  -> {j.ask.to}
                  [] j.kind = "import"  -> ToSet(j.ask.categories)
                  [] j.kind = "replace" -> Names
                  [] OTHER -> {}
Breaks(s) == /\ Spends("fault") /\ broken' = TRUE /\ half' = half \union Unsettled(job[s])
             /\ UNCHANGED <<board, store, made, exported, crossed, swept, doubt>>

\* One command fails; the pipeline goes on, and then the request throws.
CommandFails(s) ==
    /\ job[s] # Free /\ job[s].todo # <<>>
    /\ job' = [job EXCEPT ![s].todo = Tail(@), ![s].failed = TRUE]
    /\ Breaks(s)

Returns(s) ==
    /\ job[s] # Free /\ job[s].todo = <<>>
    /\ job[s].failed \/ job[s].pc \in {"saved", "told"}
    /\ Ends(s)
    /\ UNCHANGED <<board, left, crossed>> /\ BoardOnly

\* A round trip fails, or the task dies.
RequestDies(s) ==
    /\ job[s] # Free /\ job[s].kind \notin {"list", "export"}
    /\ Ends(s)
    /\ Breaks(s)
-----------------------------------------------------------------------------
\* What organizers begin with and bring: boards and bundles the module writes itself.
ASSUME ContentAssumption ==
    /\ Size \in [Contents -> Nat] /\ Size[Link] = 0
    /\ {ItemMax, EventMax, ListMax} \subseteq Nat /\ IsFiniteSet(Items)
    /\ None \notin Items \union Texts \union [category : Names, text : Texts]
    /\ \A b \in Boards :
          /\ b.record \in [Items -> Record]
          /\ b.categories \in Seq(Names) /\ Distinct(b.categories) = b.categories /\ Len(b.categories) <= ListMax
          /\ \A i \in Existing(b.record) : b.record[i].category \in ToSet(b.categories)
          /\ b.stories \in [StoryIds -> Seq(Items)] /\ Canonical(b.stories)
    /\ Tellings \subseteq [StoryIds -> Seq(Items)] /\ \A b \in Bundles : Parsed(b)

Init ==
    /\ \E b \in Boards : /\ record = b.record /\ categories = b.categories /\ stories = b.stories
                         /\ answer = [i \in Items |-> IF b.record[i] = None THEN None ELSE b.record[i].text]
    /\ files = [i \in Items |-> <<>>] /\ blob = {} /\ bytes = 0
    /\ job = [s \in Tasks |-> Free]
    /\ made = 0
    /\ left \in Allowances
    /\ exported = None
    /\ crossed = FALSE /\ broken = FALSE /\ half = {} /\ swept = FALSE /\ doubt = FALSE

ListStep(s) ==
    \/ LoadPanel(s)
    \/ \E added \in {<<>>} \union {<<n>> : n \in Names}, removed \in {{}} \union {{n} : n \in Names} :
          SetCategories(s, added, removed)
    \/ \E from, to \in Names : RenameCategory(s, from, to)
    \/ MoveChallenges(s)
    \/ WriteList(s)
ChallengeStep(s) ==
    \/ \E i \in Items, n \in Names, t \in Texts : Save(s, i, n, t)
    \/ \E i \in Items : Delete(s, i)
    \/ ReadStories(s)
    \/ ListFiles(s)
    \/ RemoveNext(s)
    \/ \E all \in Tellings : CheckSteps(s, all)
ImportStep(s) ==
    \/ \E b \in Bundles : Import(s, b)
    \/ \E b \in Bundles : Replace(s, b)
    \/ ClearFiles(s)
    \/ ReadBoard(s)
    \/ PlanFiles(s)
    \/ AttachNext(s)
    \/ FindNext(s)
FileStep(s) ==
    \/ \E i \in Items, c \in Contents : Upload(s, i, c)
    \/ \E i \in Items, c \in Digests : Refill(s, i, c)
    \/ PutChunk(s)
    \/ Finish(s)
    \/ DropChunks(s)
ExportStep(s) ==
    \/ Export(s)
    \/ \E part \in Parts : ExportRead(s, part)
    \/ ExportDone(s)
FaultStep(s) ==
    \/ CommandFails(s)
    \/ RequestDies(s)
    \/ ChunkFails(s)
    \/ FinishUnheard(s)
    \/ \E part \in Parts : ExportUnread(s, part)

Next ==
    \/ \E s \in Tasks : \/ ListStep(s) \/ ChallengeStep(s) \/ ImportStep(s) \/ FileStep(s)
                        \/ ExportStep(s) \/ FaultStep(s)
                        \/ RunCommand(s) \/ Returns(s)
    \/ \E id \in 1..made : RemoveAttachment(id)

Spec == Init /\ [][Next]_contentVars
-----------------------------------------------------------------------------
Attachment == [id : Nat, content : Contents, missing : BOOLEAN, prefix : Nat]

ContentTypeOK ==
    /\ record \in [Items -> Record] /\ answer \in [Items -> Texts \union {None}]
    /\ categories \in Seq(Names) /\ stories \in [StoryIds -> Seq(Items)]
    /\ files \in [Items -> Seq(Attachment)]
    /\ blob \subseteq Nat \X Nat /\ {bytes, made} \subseteq Nat
    /\ \A s \in Tasks : job[s] = Free \/ job[s].kind \in BoardKinds \union {"upload", "refill"}
    /\ {crossed, broken, swept, doubt} \subseteq BOOLEAN /\ half \subseteq Names

AtRest(kinds) == \A s \in Tasks : job[s] # Free => job[s].kind \notin kinds

\* The total the caps are checked against is what is stored, exactly, whatever
\* is added, filled, removed, deleted and cleared at the same time.
BytesExact == bytes = Stored(files)

\* Two uploads, fills or imports that each fit alone cannot both land past a
\* cap, on a challenge or on the event.
CapsHold == bytes <= EventMax /\ \A i \in Items : Len(files[i]) <= ItemMax

\* Every file listed as stored can be downloaded: no loser of a race, and no
\* clean-up of a failed attempt, deletes the chunks of the attempt that won.
\* Excepted are the two cases the code does not cover (see FilesAlwaysReadable).
FilesReadable ==
    swept \/ doubt \/ \A att \in Attached : Held(att) \subseteq blob

FilesAlwaysReadable == \A att \in Attached : Held(att) \subseteq blob

\* A challenge that is gone holds no files, whatever was being uploaded to it
\* when it was deleted or replaced.
NoOrphanFiles ==
    ~broken /\ AtRest({"delete", "replace"})
        => \A i \in Items : record[i] = None => files[i] = <<>>

\* Every chunk belongs to a file that is listed: a refused upload or fill
\* leaves none behind, uncounted.
BlobsAccounted ==
    ~broken /\ AtRest({"upload", "refill", "import", "replace"})
        => blob \subseteq UNION {Held(att) : att \in Attached}

\* However requests overlap or break off, no challenge is in two stories or
\* twice in one, and no two names of the list differ only in case.
ListsWellFormed ==
    /\ Canonical(stories)
    /\ Distinct(categories) = categories /\ Len(categories) <= ListMax

\* A listed file has its chunks, a chunk its file, and a file its challenge.
FilesKept == FilesReadable /\ BlobsAccounted /\ NoOrphanFiles

\* Requests that do not overlap leave every challenge in a category of the
\* list, or in the one a rename or an import that broke off was bringing: a
\* rename cut short never leaves challenges on a name it took off the list.
CategoriesCover ==
    ~crossed /\ AtRest(BoardKinds)
        => \A i \in Existing(record) : record[i].category \in ToSet(categories) \union half

\* What holds at every moment, whatever overlaps and whatever breaks off:
\* totals and caps are exact, files kept, lists well formed, and a lone request's
\* lists cover.
ContentInv == /\ ContentTypeOK /\ BytesExact /\ CapsHold /\ FilesKept
              /\ ListsWellFormed /\ CategoriesCover

\* classic-store.ts: "every challenge's category is present in the stored
\* category list", also when requests overlap.
CategoriesAlwaysCover ==
    AtRest(BoardKinds) /\ ~broken
        => \A i \in Existing(record) : Contains(categories, record[i].category)

\* An export is a file the import accepts: its steps name challenges it holds,
\* even when a broken deletion left a step behind, and, when nothing overlapped
\* and nothing broke, each challenge has its category and its answer.
ExportRestores ==
    exported # None =>
        LET rows == Existing(exported.rows) IN
        /\ Canonical(exported.stories)
        /\ \A id \in StoryIds : ToSet(exported.stories[id]) \subseteq rows
        /\ ~crossed /\ exported.whole =>
              \A i \in rows :
                  /\ exported.rows[i].category \in ToSet(exported.categories) \union half
                  /\ broken \/ exported.answers[i] = exported.rows[i].text

\* classic-store.ts: an export is "usable as a backup": it holds every
\* challenge, also when a read of it failed.
ExportComplete ==
    exported # None /\ ~crossed /\ AtRest(BoardKinds) => Existing(record) \subseteq Existing(exported.rows)
=============================================================================
