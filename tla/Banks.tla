------------------------------- MODULE Banks -------------------------------
(***************************************************************************)
(* The quiz bank and the AI catalogue (quiz-store.ts, ai-store.ts) as the     *)
(* organizers' requests read and write them: hashes of the store, and         *)
(* requests that send it pipelines.  A pipeline's commands run in order, but  *)
(* those of another request may run between them, a command may fail while    *)
(* the next ones run, and the rest may never arrive.                          *)
(*                                                                         *)
(* cells is the store: one cell per hash and field that exists.  A request is   *)
(* a desk: what was asked, the commands left to run, what its reads heard,     *)
(* and the step its handler goes on with once they have run.                  *)
(***************************************************************************)
EXTENDS Integers, Sequences, FiniteSets, Functions, SequencesExt, TLC

CONSTANTS
    Desks,          \* requests the app serves at once
    Questions,      \* quiz question ids
    Posts,          \* questions an organizer may post: [choices, single, blank, correct]
    Sheets,         \* quiz files an organizer may have written by hand
    Targets,        \* AI challenge ids
    Drafts,         \* AI challenges an organizer may post: [cat, mode, cs, flag, hint]
    Labels, Lower,  \* category spellings and flags; what each is ignoring case
    Lists, ListCap, \* category lists that may be set; AI_CATEGORIES_MAX
    MaxKeys,        \* bound: signing keys minted
    Absent
ASSUME DesksAreNumbered == Desks \subseteq Nat
ASSUME ChoicesAreOrdered == \A p \in Posts : p.choices \subseteq Nat
ASSUME ListsAreLists == Lists \subseteq Seq(Labels)
ASSUME SheetsAreLists == \A file \in Sheets : file \in Seq(Range(file))

VARIABLES
    cells,      \* the store
    desk,      \* the requests
    minted,    \* signing keys drawn so far
    revoked,   \* history: the keys a rotation replaced
    damaged,      \* history: items that overlapping or broken requests wrote
    room       \* what the behaviour may still do: requests, by kind, and faults
bankVars == <<cells, desk, minted, revoked, damaged, room>>
-----------------------------------------------------------------------------
(***************************************************************************)
(* The store and its commands.                                               *)
(***************************************************************************)
NoCells == [c \in {} |-> Absent]
Cell(h, i) == IF <<h, i>> \in DOMAIN cells THEN cells[<<h, i>>] ELSE Absent
Fields(all, h) == {c[2] : c \in {x \in DOMAIN all : x[1] = h}}
Hash(all, h) == [i \in Fields(all, h) |-> all[<<h, i>>]]

HSet(h, i, v)   == [do |-> "set", at |-> <<h, i>>, val |-> v, lax |-> FALSE]
HSetNx(h, i, v) == [do |-> "nx", at |-> <<h, i>>, val |-> v, lax |-> FALSE]
HDel(h, i)      == [do |-> "del", at |-> <<h, i>>, lax |-> FALSE]
Del(h)          == [do |-> "clear", at |-> <<h, Absent>>, lax |-> FALSE]
Get(h)          == [do |-> "read", at |-> <<h, Absent>>, lax |-> FALSE]
\* A command whose error the caller never looks at: a read then reads as empty.
Unchecked(c)    == [c EXCEPT !.lax = TRUE]
GetOrEmpty(h)   == Unchecked(Get(h))

\* What a hash is once a field is written.
Put(f, x, v) == [y \in DOMAIN f \union {x} |-> IF y = x THEN v ELSE f[y]]
Effect(all, c) ==
    CASE c.do = "set"   -> Put(all, c.at, c.val)
      [] c.do = "nx"    -> IF c.at \in DOMAIN all THEN all ELSE Put(all, c.at, c.val)
      [] c.do = "del"   -> Restrict(all, DOMAIN all \ {c.at})
      [] c.do = "clear" -> Restrict(all, {x \in DOMAIN all : x[1] # c.at[1]})
      [] c.do = "read"  -> all
-----------------------------------------------------------------------------
(***************************************************************************)
(* Requests.                                                                 *)
(***************************************************************************)
Idle == [step |-> "idle"]
Serving(d) == desk[d].step \notin {"idle", "closed"}
Heard(d, h) == IF h \in DOMAIN desk[d].heard THEN desk[d].heard[h] ELSE NoCells

\* Every item of the box, for the requests that rewrite all of it.
Whole == {<<"everything", "all">>}
Touches(ask) ==
    CASE ask.op \in {"question", "dropQuestion"} -> {<<"question", ask.id>>}
      [] ask.op = "sheet"  -> {<<"question", ask.file[k].id>> : k \in DOMAIN ask.file}
      [] ask.op \in {"draft", "rotate", "dropTarget"} -> {<<"target", ask.id>>}
      [] ask.op = "list"   -> {<<"list", "all">>}
      [] ask.op = "rename" -> {<<"list", "all">>} \union {<<"target", a>> : a \in Targets}
      [] ask.op \in {"sponsor", "dropSponsor"} -> {<<"sponsor", ask.id>>}
      [] ask.op = "reorder" -> {<<"sponsor", ask.ids[k]>> : k \in DOMAIN ask.ids}
      [] ask.op \in {"image", "dropImage"} -> {<<"image", ask.id>>}
      [] ask.op \in {"resume", "export", "restore"} -> Whole
\* What a request that ran whole leaves whole, however it found it.
Mends(ask) ==
    IF ask.op \in {"rotate", "list", "rename", "reorder"} \/ (ask.op = "sponsor" /\ ask.logo = "keep")
    THEN {} ELSE Touches(ask)
\* What a whole import leaves as it found it: the images it does not carry.
Unmended(ask) == {<<"image", i>> : i \in {j \in Fields(cells, "meta") \union Fields(cells, "data") :
    j \notin DOMAIN ask.file.images /\ damaged \intersect (Whole \union {<<"image", j>>}) # {}}}
Overlap(a, b) == Whole \in {Touches(a), Touches(b)} \/ Touches(a) \intersect Touches(b) # {}

\* A request arrives; it and those it overlaps with know of each other.
Begin(d, ask, todo, next) ==
    LET beside(e) == e # d /\ desk[e].step # "idle" /\ Overlap(ask, desk[e].ask)
    IN  /\ ~Serving(d) /\ \A e \in Desks : e < d => Serving(e)
        /\ room[ask.op] > 0 /\ room' = [room EXCEPT ![ask.op] = @ - 1]
        /\ desk' = [e \in Desks |->
             IF e = d
             THEN [ask |-> ask, step |-> "pipe", todo |-> todo, next |-> next, ok |-> TRUE,
                   heard |-> NoCells, wrote |-> FALSE, reply |-> Absent,
                   met |-> {desk[x].ask.op : x \in {y \in Desks : beside(y) /\ Serving(y)}}]
             ELSE IF beside(e) THEN [desk[e] EXCEPT !.met = @ \union {ask.op}] ELSE desk[e]]
        /\ UNCHANGED <<cells, minted, revoked, damaged>>

Send(d, todo, next) ==
    desk' = [desk EXCEPT ![d].todo = todo, ![d].next = next, ![d].step = "pipe"]

\* The handler answers.  What it wrote is whole if it ran alone and nothing failed.
Close(d, fine) ==
    LET w == desk[d]
        whole == fine /\ w.met = {}
    IN  /\ desk' = [desk EXCEPT ![d] = [@ EXCEPT !.step = "closed", !.next = "closed", !.todo = <<>>, !.heard = NoCells, !.ok = fine]]
        /\ damaged' = IF ~w.wrote THEN damaged
                   ELSE IF ~whole THEN damaged \union Touches(w.ask)
                   ELSE IF Touches(w.ask) = Whole THEN Unmended(w.ask) ELSE damaged \ Mends(w.ask)

RunNext(d) ==
    /\ desk[d].step = "pipe" /\ desk[d].todo # <<>>
    /\ LET w == desk[d]
           c == Head(w.todo)
           h == c.at[1]
       IN  /\ cells' = Effect(cells, c)
           /\ desk' = [desk EXCEPT ![d] = [w EXCEPT
                 !.todo = Tail(w.todo),
                 !.heard = IF c.do = "read" THEN Put(w.heard, h, Hash(cells, h)) ELSE w.heard,
                 !.wrote = w.wrote \/ c.do # "read"]]
           /\ revoked' = IF c.do # "set" \/ h # "sign" THEN revoked
                         ELSE IF desk[d].ask.op = "restore" THEN revoked \ {c.val}
                         ELSE revoked \union ({Cell("sign", c.at[2])} \ {Absent, c.val})
    /\ UNCHANGED <<minted, damaged, room>>

\* The store refuses one command; the others of the pipeline still run.
NextRefused(d) ==
    /\ desk[d].step = "pipe" /\ desk[d].todo # <<>> /\ room.faults > 0
    /\ room' = [room EXCEPT !.faults = @ - 1]
    /\ LET w == desk[d]
       IN  desk' = [desk EXCEPT ![d] = [w EXCEPT !.todo = Tail(w.todo), !.ok = w.ok /\ Head(w.todo).lax]]
    /\ UNCHANGED <<cells, minted, revoked, damaged>>

\* The round trip is lost, or the app stops: what is left does not run.
RestLost(d) ==
    /\ desk[d].step = "pipe" /\ room.faults > 0
    /\ room' = [room EXCEPT !.faults = @ - 1]
    /\ Close(d, FALSE)
    /\ UNCHANGED <<cells, minted, revoked>>

\* The replies are in: a handler throws at the first error, or goes on.
PipelineDone(d) ==
    /\ desk[d].step = "pipe" /\ desk[d].todo = <<>>
    /\ IF ~desk[d].ok \/ desk[d].next = "closed"
       THEN Close(d, desk[d].ok)
       ELSE desk' = [desk EXCEPT ![d].step = desk[d].next] /\ UNCHANGED damaged
    /\ UNCHANGED <<cells, minted, revoked, room>>
-----------------------------------------------------------------------------
(***************************************************************************)
(* The quiz bank: a record, and a key hash with the correct choices.          *)
(***************************************************************************)
\* canonicalizeChoices: each choice once, sorted.
\* Defect: sorted, but a choice named twice stays twice.
CanonKeepsTwice(correct) == SortSeq(correct, <)
Canon(correct) == SetToSortSeq(Range(correct), <)

Acceptable(p) ==
    /\ p.choices # {} /\ p.correct # <<>>
    /\ Range(p.correct) \subseteq p.choices
    /\ p.single => Len(Canon(p.correct)) = 1

Asked(p) == [choices |-> p.choices, single |-> p.single, blank |-> p.blank]
QuestionWrites(id, p) ==
    <<HSet("question", id, Asked(p)), HSet("key", id, Canon(p.correct))>>

PostQuestion(d) == \E q \in Questions, p \in Posts :
    /\ Acceptable(p)
    /\ Begin(d, [op |-> "question", id |-> q], QuestionWrites(q, p), "closed")

DropQuestion(d) == \E q \in Questions :
    Begin(d, [op |-> "dropQuestion", id |-> q], <<HDel("question", q), HDel("key", q)>>, "closed")

\* quiz-io.ts parseBundle: the form's rules, no id twice, and no blank choice.
QuizParses(file) ==
    /\ \A k \in DOMAIN file : Acceptable(file[k]) /\ ~file[k].blank
    /\ \A j, k \in DOMAIN file : file[j].id = file[k].id => j = k
QuizImport(file) == FlattenSeq([k \in DOMAIN file |-> QuestionWrites(file[k].id, file[k])])

\* The route parses the text again, then imports: the ids are read first.
PostSheet(d) == \E file \in Sheets :
    /\ QuizParses(file)
    /\ Begin(d, [op |-> "sheet", file |-> file], <<Get("question")>>, "sheet")
WriteSheet(d) ==
    /\ desk[d].step = "sheet"
    /\ Send(d, QuizImport(desk[d].ask.file), "closed")
    /\ UNCHANGED <<cells, minted, revoked, damaged, room>>

\* listQuestionsForAdmin: a record without a key has no correct choice.
QuizExport(records, keys) ==
    LET row(q) == [id |-> q, choices |-> records[q].choices, single |-> records[q].single,
                   blank |-> records[q].blank,
                   correct |-> IF q \in DOMAIN keys THEN keys[q] ELSE <<>>]
    IN  SetToSeq({row(q) : q \in DOMAIN records})
-----------------------------------------------------------------------------
(***************************************************************************)
(* The AI catalogue: a record, and four hashes of secrets.                    *)
(***************************************************************************)
Graded(mode) == mode # "event"
\* flagComparisonForm: a flag is compared as written, or ignoring case.
Form(flag, cs) == IF cs THEN <<"exact", flag>> ELSE <<"folded", Lower[flag]>>

\* generateSigningKey
Fresh(a) == <<a, minted + 1>>

TargetWrites(a, f) ==
    LET secret(h, v) == IF v = Absent THEN HDel(h, a) ELSE HSet(h, a, v)
        flag == IF Graded(f.mode) THEN f.flag ELSE Absent
    IN  <<HSet("record", a, [cat |-> f.cat, mode |-> f.mode, cs |-> f.cs]),
          secret("flag", flag),
          secret("norm", IF flag = Absent THEN Absent ELSE Form(flag, f.cs)),
          secret("hint", f.hint)>>

Categories(d) == LET held == Heard(d, "list") IN IF "all" \in DOMAIN held THEN held["all"] ELSE <<>>

PostDraft(d) == \E a \in Targets, f \in Drafts :
    /\ minted < MaxKeys
    /\ Begin(d, [op |-> "draft", id |-> a, draft |-> f], <<GetOrEmpty("list")>>, "admit")

Admits(f, list) == f.cat \in Range(list) /\ (Graded(f.mode) => f.flag # Absent)

\* A key is minted only where there is none, and the one that stands is read back.
Admit(d) ==
    /\ desk[d].step = "admit"
    /\ LET a == desk[d].ask.id
       IN  IF Admits(desk[d].ask.draft, Categories(d))
           THEN /\ Send(d, <<Unchecked(HSetNx("sign", a, Fresh(a))), Get("sign")>>, "keyed")
                /\ minted' = minted + 1 /\ UNCHANGED damaged
           ELSE Close(d, FALSE) /\ UNCHANGED minted
    /\ UNCHANGED <<cells, revoked, room>>

\* Defect: the write pipeline sets the key it read once more.
KeyedSetsAgain(d) ==
    /\ desk[d].step = "keyed"
    /\ LET a == desk[d].ask.id
           keys == Heard(d, "sign")
       IN  IF a \in DOMAIN keys
           THEN /\ desk' = [desk EXCEPT ![d] = [@ EXCEPT
                     !.reply = keys[a], !.step = "pipe", !.next = "closed",
                     !.todo = Append(TargetWrites(a, desk[d].ask.draft), HSet("sign", a, keys[a]))]]
                /\ UNCHANGED damaged
           ELSE Close(d, FALSE)
    /\ UNCHANGED <<cells, minted, revoked, room>>
Keyed(d) ==
    /\ desk[d].step = "keyed"
    /\ LET a == desk[d].ask.id
           keys == Heard(d, "sign")
       IN  IF a \in DOMAIN keys
           THEN /\ desk' = [desk EXCEPT ![d] = [@ EXCEPT
                     !.reply = keys[a], !.step = "pipe", !.next = "closed",
                     !.todo = TargetWrites(a, desk[d].ask.draft)]]
                /\ UNCHANGED damaged
           ELSE Close(d, FALSE)
    /\ UNCHANGED <<cells, minted, revoked, room>>

Rotate(d) == \E a \in Targets :
    /\ minted < MaxKeys
    /\ Begin(d, [op |-> "rotate", id |-> a], <<GetOrEmpty("record")>>, "known")
Known(d) ==
    /\ desk[d].step = "known"
    /\ IF desk[d].ask.id \in DOMAIN Heard(d, "record")
       THEN /\ Send(d, <<HSet("sign", desk[d].ask.id, Fresh(desk[d].ask.id))>>, "closed")
            /\ minted' = minted + 1 /\ UNCHANGED damaged
       ELSE Close(d, FALSE) /\ UNCHANGED minted
    /\ UNCHANGED <<cells, revoked, room>>

Secrets == <<"record", "flag", "norm", "hint", "sign">>
DropTarget(d) == \E a \in Targets :
    Begin(d, [op |-> "dropTarget", id |-> a],
          [k \in DOMAIN Secrets |-> HDel(Secrets[k], a)], "closed")

\* setAiCategories drops a name already there, letter for letter.
Named1st(names) == FoldLeft(LAMBDA kept, n : IF n \in Range(kept) THEN kept ELSE Append(kept, n),
                            <<>>, names)
SetList(d) == \E names \in Lists :
    /\ Len(Named1st(names)) <= ListCap
    /\ Begin(d, [op |-> "list"], <<HSet("list", "all", Named1st(names))>>, "closed")

RenameLabel(d) == \E from, to \in Labels :
    Begin(d, [op |-> "rename", from |-> from, to |-> to], <<GetOrEmpty("list")>>, "collide")

Alike(list, name) == {k \in DOMAIN list : Lower[list[k]] = Lower[name]}
\* The entry renamed is the first that is the name ignoring case.
Entry(list, name) == CHOOSE k \in Alike(list, name) : \A j \in Alike(list, name) : k <= j
Collide(d) ==
    /\ desk[d].step = "collide"
    /\ LET list == Categories(d)
           ask == desk[d].ask
       IN  IF Alike(list, ask.from) # {} /\ Alike(list, ask.to) \subseteq {Entry(list, ask.from)}
           THEN Send(d, <<Get("record")>>, "move") /\ UNCHANGED damaged
           ELSE Close(d, FALSE)
    /\ UNCHANGED <<cells, minted, revoked, room>>

\* The challenges move before the list does, each rewritten as it was read.
\* Defect: the list is written and the challenges stay behind.
MoveNone(d) ==
    /\ desk[d].step = "move"
    /\ Send(d, <<>>, "relist")
    /\ UNCHANGED <<cells, minted, revoked, damaged, room>>
Move(d) ==
    /\ desk[d].step = "move"
    /\ LET held == Heard(d, "record")
           moving == {a \in DOMAIN held : held[a].cat = desk[d].ask.from}
           as(a) == HSet("record", a, [held[a] EXCEPT !.cat = desk[d].ask.to])
       IN  Send(d, SetToSeq({as(a) : a \in moving}), "relist")
    /\ UNCHANGED <<cells, minted, revoked, damaged, room>>
Relist(d) ==
    /\ desk[d].step = "relist"
    /\ LET list == Categories(d)
       IN  Send(d, <<HSet("list", "all", [list EXCEPT ![Entry(list, desk[d].ask.from)] = desk[d].ask.to])>>,
                "closed")
    /\ UNCHANGED <<cells, minted, revoked, damaged, room>>
-----------------------------------------------------------------------------
(***************************************************************************)
(* The catalogue as a file.                                                  *)
(***************************************************************************)
At(held, i) == IF i \in DOMAIN held THEN held[i] ELSE Absent

\* A graded challenge without a flag stops the export.
AiExportable(records, flags) == \A a \in DOMAIN records :
    Graded(records[a].mode) => a \in DOMAIN flags
AiExport(records, flags, hints, keys, list) ==
    [list |-> list,
     challenges |-> [a \in DOMAIN records |->
        [cat |-> records[a].cat, mode |-> records[a].mode, cs |-> records[a].cs,
         flag |-> IF Graded(records[a].mode) THEN flags[a] ELSE Absent,
         hint |-> At(hints, a), sign |-> At(keys, a)]]]

\* ai-io.ts parseBundle.
AiParses(file) ==
    /\ Len(file.list) <= ListCap
    /\ \A j, k \in DOMAIN file.list : Lower[file.list[j]] = Lower[file.list[k]] => j = k
    /\ \A a \in DOMAIN file.challenges :
         /\ file.challenges[a].cat \in Range(file.list)
         /\ Graded(file.challenges[a].mode) <=> file.challenges[a].flag # Absent

\* The file's categories that the box has under no spelling are added after its own.
Joined(list, own) == FoldLeft(LAMBDA kept, n : IF Alike(kept, n) # {} THEN kept ELSE Append(kept, n),
                              list, own)
AiImport(file, list) ==
    LET all == Joined(list, file.list)
        \* the surviving spelling is the last that is the name ignoring case
        spelt(n) == all[CHOOSE k \in Alike(all, n) : \A j \in Alike(all, n) : j <= k]
        row(a) == [file.challenges[a] EXCEPT !.cat = spelt(@)]
        key(a) == IF file.challenges[a].sign = Absent THEN HSetNx("sign", a, Fresh(a))
                                              ELSE HSet("sign", a, file.challenges[a].sign)
        ids == SetToSeq(DOMAIN file.challenges)
    IN  FlattenSeq([k \in DOMAIN ids |-> Append(TargetWrites(ids[k], row(ids[k])), key(ids[k]))])
        \o <<HSet("list", "all", all)>>
-----------------------------------------------------------------------------
Handlers(d) ==
    \/ PostQuestion(d) \/ DropQuestion(d) \/ PostSheet(d) \/ WriteSheet(d)
    \/ PostDraft(d) \/ Admit(d) \/ Keyed(d) \/ Rotate(d) \/ Known(d) \/ DropTarget(d)
    \/ SetList(d) \/ RenameLabel(d) \/ Collide(d) \/ Move(d) \/ Relist(d)
Pipelines(d) == RunNext(d) \/ NextRefused(d) \/ RestLost(d) \/ PipelineDone(d)
-----------------------------------------------------------------------------
(***************************************************************************)
(* What the stores promise.                                                  *)
(***************************************************************************)
Settled(item) ==
    /\ item \notin damaged /\ Whole \intersect damaged = {}
    /\ \A d \in Desks : Serving(d) => item \notin Touches(desk[d].ask) /\ Touches(desk[d].ask) # Whole

\* A contestant's answer is graded by comparing its canonical form with the key.
CanBeAnswered(question, key) == \E answer \in SUBSET question.choices \ {{}} :
    (question.single => Cardinality(answer) = 1) /\ Canon(SetToSeq(answer)) = key

\* A question exists with its key or not at all, and some answer to it is right
\* (quiz-store.ts upsertQuestion, deleteQuestion, importBundle).
QuestionsAnswerable == \A q \in Questions : Settled(<<"question", q>>) =>
    /\ Cell("question", q) = Absent <=> Cell("key", q) = Absent
    /\ Cell("question", q) # Absent => CanBeAnswered(Cell("question", q), Cell("key", q))

\* A challenge's secrets are those of its record: a graded one has a flag and its
\* form of comparison, an event-only one has neither, each has a key, and nothing
\* is left of one that was deleted (ai-store.ts upsertAiChallenge, deleteAiChallenge).
TargetsWhole == \A a \in Targets : Settled(<<"target", a>>) =>
    LET r == Cell("record", a) IN
    IF r = Absent THEN \A k \in DOMAIN Secrets : Cell(Secrets[k], a) = Absent
    ELSE /\ Cell("sign", a) # Absent
         /\ Graded(r.mode) => /\ Cell("flag", a) # Absent
                              /\ Cell("norm", a) = Form(Cell("flag", a), r.cs)
         /\ ~Graded(r.mode) => Cell("flag", a) = Absent /\ Cell("norm", a) = Absent

\* A key that a rotation replaced is never in force again, whatever edits were
\* under way, unless a file that carries it is restored.
RevokedStaysDead == \A a \in Targets : Cell("sign", a) \notin revoked

\* An edit replies the key in force, even when two created the challenge at once.
RepliesTheLiveKey == \A d \in Desks :
    desk[d].step = "closed" /\ desk[d].ask.op = "draft" /\ desk[d].ok /\ desk[d].met \subseteq {"draft", "list"}
        => desk[d].reply = Cell("sign", desk[d].ask.id)

\* After a rename that ran alone no challenge is left under the old name, given as listed.
RenameCarriesAll == \A d \in Desks :
    LET w == desk[d] IN
    w.step = "closed" /\ w.ask.op = "rename" /\ w.ok /\ w.met = {} /\ w.ask.from # w.ask.to
        => \A a \in Targets : Cell("record", a) # Absent => Cell("record", a).cat # w.ask.from

\* The quiz bank and the AI catalogue hold together, whatever requests overlap or break.
BanksInv == /\ QuestionsAnswerable /\ TargetsWhole
            /\ RevokedStaysDead /\ RepliesTheLiveKey /\ RenameCarriesAll
=============================================================================
