----------------------------- MODULE RebuildWalk -----------------------------
(***************************************************************************)
(* One rebuild of a resource type: the Temporal activity that runs it and  *)
(* keeps its cursor (core/temporal.go), the page loop and the batch loop   *)
(* (core/build.go), and the flusher that writes and settles what they find *)
(* (core/rebuild_flusher.go), against registrations and live builds.       *)
(*                                                                         *)
(* Of a row only the mark is kept: Indexer has the ownership and the       *)
(* backoff, and here every marked row may be built at any time.  A live    *)
(* build draws its number, fetches and later writes, in two steps.         *)
(***************************************************************************)
EXTENDS BuildSequence, Sequences

CONSTANTS
    Setups,        \* Setups[i]: a deployment, a request and the bounds of its run, see Setup
    ChunkSize,     \* documents per bulk request
    Ahead          \* pages a plan's pipeline fetches ahead of the loop

\* roots: ids of the rebuilt type; kids: the resources their documents show;
\* versions: Schema Versions that have an Executer; existences: sets of
\* versions whose plan may find a root; selected: the versions the rebuild
\* runs; pages[v]: the pages of ids plan v lists, repeats included; batches: of
\* a rebuild of given ids, each id in one of them (idBatches), empty for a walk
\* of the type; paced: the selector has a Pacing; attempts: of the activity's
\* retry policy.
SetupFields == {"roots", "kids", "versions", "existences", "selected", "pages", "batches",
                "paced", "attempts", "changes", "errors", "crashes"}

IsSetup(s) ==
    /\ DOMAIN s = SetupFields
    /\ s.roots \subseteq Nat /\ s.kids \subseteq Nat /\ s.roots \cap s.kids = {}
    /\ IsFiniteSet(s.roots) /\ IsFiniteSet(s.kids)
    /\ s.versions \subseteq Nat \ {0} /\ IsFiniteSet(s.versions)
    /\ s.selected \subseteq s.versions /\ s.selected # {}
    /\ s.existences \subseteq SUBSET s.versions
    /\ s.pages \in [s.selected -> Seq(Seq(s.roots))]
    /\ s.batches \in Seq(SUBSET s.roots) /\ s.paced \in BOOLEAN
    /\ \A i, j \in DOMAIN s.batches : i # j => s.batches[i] \cap s.batches[j] = {}
    /\ s.attempts \in Nat \ {0}
    /\ s.changes \in Nat /\ s.errors \in Nat /\ s.crashes \in Nat

ASSUME RebuildAssumption ==
    /\ \A i \in DOMAIN Setups : IsSetup(Setups[i])
    /\ ChunkSize \in Nat \ {0} /\ Ahead \in Nat \ {0}

VARIABLES
    seq,       \* last value drawn from change_sequence
    src,       \* src[x]: how often x changed at the source
    has,       \* has[r]: versions whose plan finds r
    notices,   \* changes not yet registered
    known,     \* history: the last change of each thing that was registered
    rows,      \* the roots' rows
    changed,   \* change_seq of every thing, 0 when it has none
    edges,     \* edges[r][v]: stored edge sets
    docs,      \* docs[r][v]: documents
    live,      \* live[r]: the live build of r
    w,         \* the attempt that runs: its loop, its pipeline, its flusher
    entry,     \* the flusher's entry for each root (pendingResource)
    job,       \* the activity: attempts, its cursor, how it ended
    used,      \* the setup of this behaviour, and how much of its bounds has been spent
    exposed    \* history: roots deleted live after the walk fetched them

source == <<src, has, notices, known>>
store == <<rows, changed, edges>>
vars == <<seq, source, store, docs, live, w, entry, job, used, exposed>>

-----------------------------------------------------------------------------
(* The setup *)

Roots == used.setup.roots
Kids == used.setup.kids
Things == Roots \cup Kids
Versions == used.setup.versions
Existences == used.setup.existences
Selected == used.setup.selected
Pages == used.setup.pages
Batches == used.setup.batches
Targeted == Batches # <<>>
Paced == used.setup.paced
MaxAttempts == used.setup.attempts
MaxChanges == used.setup.changes
MaxErrors == used.setup.errors
MaxCrashes == used.setup.crashes

(* State *)

Resumable == ~Targeted /\ Cardinality(Selected) = 1
KeepSettled == ~Targeted /\ Cardinality(Selected) > 1

\* runsEveryActivePlan
MayDelete == Selected = Versions

Body == [found : BOOLEAN, n : Nat, kids : SUBSET (Kids \X Nat)]

NoBody == [found |-> FALSE, n |-> 0, kids |-> {}]

\* What an older build left: a rebuild is there to replace it.
OldBody == [found |-> TRUE, n |-> 0, kids |-> {}]

Item == [id : Roots, v : Selected, body : Body]

Page == [no : Nat, items : Seq(Item)]

Live == [idx : Nat, mark : Nat, out : [Versions -> Body]]

NoLive == [idx |-> 0, mark |-> 0, out |-> [v \in Versions |-> NoBody]]

Entry == [tracked : BOOLEAN, failed : BOOLEAN, settled : BOOLEAN, partial : BOOLEAN,
          occ : Nat, mark : Nat, start : Nat, remaining : 0 .. Cardinality(Selected),
          lastCounted : Nat, lastDoc : Nat, nils : SUBSET Selected]

NoEntry == [tracked |-> FALSE, failed |-> FALSE, settled |-> FALSE, partial |-> FALSE,
            occ |-> 0, mark |-> 0, start |-> 0, remaining |-> 0,
            lastCounted |-> 0, lastDoc |-> 0, nils |-> {}]

FailedEntry == [NoEntry EXCEPT !.tracked = TRUE, !.failed = TRUE]

\* pc: where the loop or the flusher is; how: what the flusher is settling.
Walk == [pc : {"idle", "plan", "walk", "batch", "ask", "finish",
               "bulk", "edges", "nils", "narrow", "remark"},
         how : {"flush", "nil", "leave", "remove"}, ret : {"plan", "walk", "finish"},
         left : SUBSET Selected, start : Nat, next : Nat, inbox : Seq(Page),
         no : Nat, page : Seq(Item), pending : Seq(Item), chunk : Seq(Item),
         rejected : SUBSET (Roots \X Selected), ids : SUBSET Roots, todo : SUBSET Roots,
         hit : BOOLEAN, completed : Nat, anyFailed : BOOLEAN, markFailed : BOOLEAN]

IdleWalk == [pc |-> "idle", how |-> "flush", ret |-> "walk", left |-> {}, start |-> 0,
             next |-> 1, inbox |-> <<>>, no |-> 0, page |-> <<>>, pending |-> <<>>,
             chunk |-> <<>>, rejected |-> {}, ids |-> {}, todo |-> {}, hit |-> FALSE,
             completed |-> 0, anyFailed |-> FALSE, markFailed |-> FALSE]

\* A cursor is the number of the last page consumed, 0 for none.  recorded is
\* what Temporal has, latest what the next beat will record.
Job == [attempts : 0 .. MaxAttempts, latest : Nat, recorded : Nat,
        outcome : {"running", "done", "marked", "exhausted"}]

\* Spent bounds: source changes, failed statements, requests and fetches, and
\* lost processes; lost says a mark meant for the sweep was never stored.
Used == [setup : {Setups[i] : i \in DOMAIN Setups}, changes : 0 .. MaxChanges, errors : 0 .. MaxErrors, crashes : 0 .. MaxCrashes,
         lost : BOOLEAN]

TypeOK ==
    /\ seq \in Nat
    /\ src \in [Things -> Nat] /\ has \in [Roots -> SUBSET Versions]
    /\ notices \subseteq Things /\ known \in [Things -> Nat]
    /\ rows \in [Roots -> [present : BOOLEAN, stale : BOOLEAN, mark : Nat]]
    /\ changed \in [Things -> Nat]
    /\ edges \in [Roots -> [Versions -> [stamp : Nat, kids : SUBSET Kids]]]
    /\ docs \in [Roots -> [Versions -> [ver : Nat, body : Body]]]
    /\ live \in [Roots -> Live]
    /\ w \in Walk
    /\ entry \in [Roots -> Entry]
    /\ job \in Job
    /\ used \in Used
    /\ exposed \subseteq Roots

-----------------------------------------------------------------------------
(* Helpers *)

Truth(r, v) ==
    IF v \in has[r]
    THEN [found |-> TRUE, n |-> src[r], kids |-> {<<c, src[c]>> : c \in Kids}]
    ELSE NoBody

IdsIn(items) == {items[i].id : i \in DOMAIN items}

\* The elements of s at the positions at, in their order.
Picked(s, at) == [n \in 1 .. Cardinality(at) |-> s[CHOOSE i \in at : Nth(at, i) = n]]

\* The queue without the documents of the roots S.
Without(items, S) == Picked(items, {i \in DOMAIN items : items[i].id \notin S})

Names(body) == {k[1] : k \in body.kids}

NoRow == [present |-> FALSE, stale |-> FALSE, mark |-> 0]

MarkAt(s) == [present |-> TRUE, stale |-> TRUE, mark |-> s]

\* MarkStale over the set S, each row at a number of its own.
MarkedRows(S) == [r \in Roots |-> IF r \in S THEN MarkAt(seq + Nth(S, r)) ELSE rows[r]]

\* ClearStale: guarded by the mark the build captured.
ClearedRow(row, mark) == IF row.mark = mark THEN [row EXCEPT !.stale = FALSE] ELSE row

\* Faulty variant: the row goes whatever marked it since.
DropsAnyRow(row, mark) == TRUE

\* DeleteResourceIfSeq: a row marked since the build began stays.
DropsRow(row, mark) == row.mark = mark

CanErr == used.errors < MaxErrors

Spend(what) == used' = [used EXCEPT ![what] = @ + 1]

Unsettled(r) == entry[r].tracked /\ ~entry[r].failed /\ ~entry[r].settled

-----------------------------------------------------------------------------
(* The source, registrations and live builds *)

ChangeRoot(r) ==
    /\ used.changes < MaxChanges /\ Spend("changes")
    /\ src' = [src EXCEPT ![r] = @ + 1]
    /\ \E vs \in Existences : has' = [has EXCEPT ![r] = vs]
    /\ notices' = notices \cup {r}
    /\ UNCHANGED <<seq, known, store, docs, live, w, entry, job, exposed>>

ChangeKid(c) ==
    /\ used.changes < MaxChanges /\ Spend("changes")
    /\ src' = [src EXCEPT ![c] = @ + 1]
    /\ notices' = notices \cup {c}
    /\ UNCHANGED <<seq, has, known, store, docs, live, w, entry, job, exposed>>

\* RegisterChanges of one thing: its own mark, when it is a root, and those of
\* the roots with a stored edge to it.
Register(x) ==
    LET parents == {r \in Roots : \E v \in Versions : x \in edges[r][v].kids}
        own == {x} \cap Roots
    IN
    /\ x \in notices
    /\ notices' = notices \ {x}
    /\ known' = [known EXCEPT ![x] = src[x]]
    /\ changed' = [changed EXCEPT ![x] = seq + 1]
    /\ rows' = [r \in Roots |->
          IF r \in own THEN MarkAt(seq + 1)
          ELSE IF r \in parents THEN MarkAt(seq + 1 + Nth(parents, r)) ELSE rows[r]]
    /\ seq' = seq + 1 + Cardinality(parents)
    /\ UNCHANGED <<src, has, edges, docs, live, w, entry, job, used, exposed>>

LiveBegin(r) ==
    /\ rows[r].stale /\ live[r] = NoLive
    /\ seq' = seq + 1
    /\ live' = [live EXCEPT ![r] =
          [idx |-> seq + 1, mark |-> rows[r].mark, out |-> [v \in Versions |-> Truth(r, v)]]]
    /\ UNCHANGED <<source, store, docs, w, entry, job, used, exposed>>

\* The walk has an answer about r it has not settled.
Fetched(r) ==
    \/ Unsettled(r)
    \/ r \in IdsIn(w.page)
    \/ \E i \in DOMAIN w.inbox : r \in IdsIn(w.inbox[i].items)

\* Documents, edge sets, drift check of the children, and the guarded clear;
\* or, gone at every version, the delete with its row.
LiveEnd(r) ==
    LET b == live[r]
        gone == \A v \in Versions : ~b.out[v].found
        drifted == ~gone /\ \E c \in Kids : changed[c] > b.idx
        drops == gone /\ DropsRow(rows[r], b.mark)
    IN
    /\ b # NoLive
    /\ docs' = [docs EXCEPT ![r] = [v \in Versions |-> Written(@[v], b.out[v], b.idx)]]
    /\ edges' = [edges EXCEPT ![r] = [v \in Versions |->
          IF gone THEN RemovedSet(@[v], b.idx)
          ELSE ReplacedSet(@[v], b.idx, Names(b.out[v]))]]
    /\ rows' = [rows EXCEPT ![r] =
          IF drops THEN NoRow ELSE IF drifted THEN MarkAt(seq + 1)
          ELSE IF gone \/ ~@.present THEN @ ELSE ClearedRow(@, b.mark)]
    /\ seq' = IF drifted THEN seq + 1 ELSE seq
    /\ changed' = IF drops THEN [changed EXCEPT ![r] = 0] ELSE changed
    /\ live' = [live EXCEPT ![r] = NoLive]
    /\ exposed' = IF drops /\ Fetched(r) THEN exposed \cup {r} ELSE exposed
    /\ UNCHANGED <<source, w, entry, job, used>>

-----------------------------------------------------------------------------
(* Attempts of the activity *)

FirstLoop == IF Targeted THEN "batch" ELSE "plan"

\* A walk of one plan resumes after the recorded cursor, any other from scratch.
FirstPage == IF Resumable THEN job.recorded + 1 ELSE 1

\* Faulty variant: the beat does not start from the inherited cursor.
StartAttemptBare ==
    /\ w.pc = "idle" /\ job.outcome = "running"
    /\ w' = [IdleWalk EXCEPT !.pc = FirstLoop, !.left = Selected, !.next = FirstPage]
    /\ job' = [job EXCEPT !.attempts = @ + 1, !.latest = 0]
    /\ UNCHANGED <<seq, source, store, docs, live, entry, used, exposed>>

\* The inherited cursor seeds the beat.
StartAttempt ==
    /\ w.pc = "idle" /\ job.outcome = "running"
    /\ w' = [IdleWalk EXCEPT !.pc = FirstLoop, !.left = Selected, !.next = FirstPage]
    /\ job' = [job EXCEPT !.attempts = @ + 1, !.latest = job.recorded]
    /\ UNCHANGED <<seq, source, store, docs, live, entry, used, exposed>>

\* heartbeatCursor's tick.
Beat ==
    /\ w.pc # "idle" /\ job.recorded # job.latest
    /\ job' = [job EXCEPT !.recorded = job.latest]
    /\ UNCHANGED <<seq, source, store, docs, live, w, entry, used, exposed>>

\* Faulty variant: the retry policy has no maximum.
RetryForever == job' = job

\* The attempt ends with an error that is retried while attempts are left.
Retry == job' = [job EXCEPT !.outcome =
                    IF job.attempts = MaxAttempts THEN "exhausted" ELSE "running"]

Forget == entry' = [r \in Roots |-> NoEntry] /\ w' = IdleWalk

\* The process stops: nothing is salvaged.
Crash ==
    /\ w.pc # "idle"
    /\ used.crashes < MaxCrashes /\ Spend("crashes")
    /\ Forget /\ Retry
    /\ UNCHANGED <<seq, source, store, docs, live, exposed>>

\* salvage marks what is begun and unsettled, on a context of its own; cost is
\* what the error that aborts the attempt spends.
Salvage(cost) ==
    LET S == {r \in Roots : Unsettled(r)} IN
    /\ used.errors + cost <= MaxErrors
    /\ \/ /\ rows' = MarkedRows(S)
          /\ seq' = seq + Cardinality(S)
          /\ used' = [used EXCEPT !.errors = @ + cost]
       \/ /\ S # {} /\ used.errors + cost < MaxErrors
          /\ used' = [used EXCEPT !.errors = @ + cost + 1, !.lost = TRUE]
          /\ UNCHANGED <<rows, seq>>
    /\ Forget /\ Retry

\* The walk start, a page, a wait or the context fails.
Abort ==
    /\ w.pc \in {"plan", "batch", "ask"} \/ (w.pc = "walk" /\ ~Targeted)
    /\ Salvage(1)
    /\ UNCHANGED <<source, changed, edges, docs, live, exposed>>

-----------------------------------------------------------------------------
(* Failed resources *)

\* fail, for the roots S not failed before: their queued documents are dropped
\* and each is marked, or its mark is lost.  base and next are the entries and
\* the walk the caller leaves, cost what its error spends.
Fail(S, base, next, cost) ==
    \E lost \in SUBSET S :
        /\ used.errors + cost + Cardinality(lost) <= MaxErrors
        /\ rows' = MarkedRows(S \ lost)
        /\ seq' = seq + Cardinality(S \ lost)
        /\ entry' = [r \in Roots |-> IF r \in S THEN FailedEntry ELSE base[r]]
        /\ w' = [next EXCEPT
              !.pending = Without(@, S),
              !.anyFailed = @ \/ S # {},
              !.markFailed = @ \/ lost # {}]
        /\ used' = [used EXCEPT !.errors = @ + cost + Cardinality(lost),
                                !.lost = @ \/ lost # {}]

\* The entry of a root every outcome of which is applied.
SettledEntry(e) == IF KeepSettled THEN [e EXCEPT !.settled = TRUE] ELSE NoEntry

Settle(r) == entry' = [entry EXCEPT ![r] = SettledEntry(@)]

Flushing(next, ret) ==
    IF next.pending = <<>> THEN [next EXCEPT !.pc = ret]
    ELSE [next EXCEPT !.pc = "bulk", !.how = "flush", !.ret = ret,
                      !.chunk = next.pending, !.pending = <<>>, !.ids = IdsIn(next.pending)]

-----------------------------------------------------------------------------
(* The page loop *)

Plan == LeastOf(w.left)

LastPage(no) == no = Len(Pages[Plan])

\* The walk start is drawn before the pipeline of the plan starts.
Execute ==
    /\ w.pc = "plan" /\ (Paced => w.pending = <<>>)
    /\ seq' = seq + 1
    /\ w' = [w EXCEPT !.pc = "walk", !.start = seq + 1]
    /\ UNCHANGED <<source, store, docs, live, entry, job, used, exposed>>

\* beforePage of a paced walk, before a plan's first page.
FlushBeforePlan ==
    /\ w.pc = "plan" /\ Paced /\ w.pending # <<>>
    /\ w' = Flushing(w, "plan")
    /\ UNCHANGED <<seq, source, store, docs, live, entry, job, used, exposed>>

\* The pipeline lists a page and fetches its roots and their children.  A root
\* the plan does not find is listed without data, or not at all.
FetchPage ==
    LET ids == Pages[Plan][w.next] IN
    /\ w.start # 0
    /\ w.next <= Len(Pages[Plan]) /\ Len(w.inbox) < Ahead
    /\ \E omitted \in SUBSET {r \in Roots : Plan \notin has[r]} :
         LET listed == Picked(ids, {i \in DOMAIN ids : ids[i] \notin omitted}) IN
         /\ omitted \subseteq {ids[i] : i \in DOMAIN ids}
         /\ w' = [w EXCEPT !.next = @ + 1, !.inbox = Append(@, [no |-> w.next,
               items |-> [i \in DOMAIN listed |->
                   [id |-> listed[i], v |-> Plan, body |-> Truth(listed[i], Plan)]]])]
    /\ UNCHANGED <<seq, source, store, docs, live, entry, job, used, exposed>>

TakePage ==
    /\ w.pc = "walk" /\ ~Targeted /\ w.no = 0 /\ w.inbox # <<>>
    /\ w' = [w EXCEPT !.no = Head(w.inbox).no, !.page = Head(w.inbox).items, !.inbox = Tail(@)]
    /\ UNCHANGED <<seq, source, store, docs, live, entry, job, used, exposed>>

\* A page with a next becomes the boundary the next flush checkpoints.
PageConsumed ==
    LET last == LastPage(w.no)
        next == [w EXCEPT !.no = 0,
                          !.completed = IF Resumable /\ ~last THEN w.no ELSE @]
    IN
    /\ w.pc = "walk" /\ w.no # 0 /\ w.page = <<>>
    /\ w' = IF Paced /\ ~last THEN Flushing(next, "walk") ELSE next
    /\ UNCHANGED <<seq, source, store, docs, live, entry, job, used, exposed>>

EndPlan ==
    LET left == w.left \ {Plan} IN
    /\ w.pc = "walk" /\ ~Targeted /\ w.no = 0 /\ w.inbox = <<>>
    /\ w.next > Len(Pages[Plan])
    /\ w' = [w EXCEPT !.pc = IF left = {} THEN "finish" ELSE "plan",
                      !.left = left, !.start = 0, !.next = 1]
    /\ UNCHANGED <<seq, source, store, docs, live, entry, job, used, exposed>>

AtItem(r) == w.pc = "walk" /\ w.page # <<>> /\ Head(w.page).id = r

ItemDone == [w EXCEPT !.page = Tail(@)]

\* A first sighting begins the root at one Build Sequence for all its plans.
BeginItem(r) ==
    /\ AtItem(r) /\ ~entry[r].tracked
    /\ seq' = seq + 1
    /\ rows' = [rows EXCEPT ![r].present = TRUE]
    /\ entry' = [entry EXCEPT ![r] = [NoEntry EXCEPT
          !.tracked = TRUE, !.occ = seq + 1, !.mark = rows[r].mark, !.start = w.start,
          !.remaining = Cardinality(w.left), !.partial = w.left # Selected]]
    /\ UNCHANGED <<source, changed, edges, docs, live, w, job, used, exposed>>

BeginItemFails(r) ==
    /\ AtItem(r) /\ ~entry[r].tracked
    /\ Fail({r}, entry, ItemDone, 1)
    /\ UNCHANGED <<source, changed, edges, docs, live, job, exposed>>

\* add: the document is queued, and a full chunk is flushed.
AddDoc(r) ==
    LET it == Head(w.page)
        e == entry[r]
        next == [ItemDone EXCEPT !.pending = Append(@, it)]
    IN
    /\ AtItem(r) /\ it.body.found
    /\ Unsettled(r) /\ it.v \notin e.nils
    /\ entry' = [entry EXCEPT ![r].lastDoc = it.v]
    /\ w' = IF Len(next.pending) >= ChunkSize THEN Flushing(next, "walk") ELSE next
    /\ UNCHANGED <<seq, source, store, docs, live, job, used, exposed>>

\* A document or a nil of a failed root, or one that repeats the outcome its
\* plan already has.
Repeats(it, e) ==
    \/ e.failed
    \/ it.body.found /\ it.v \notin e.nils /\ e.settled
    \/ ~it.body.found /\ it.v # e.lastDoc /\ (e.settled \/ it.v \in e.nils)

SkipItem(r) ==
    /\ AtItem(r) /\ entry[r].tracked
    /\ Repeats(Head(w.page), entry[r])
    /\ w' = ItemDone
    /\ UNCHANGED <<seq, source, store, docs, live, entry, job, used, exposed>>

\* Faulty variant: no outcome of a plan contradicts another.
NeverContradicts(it, e) == FALSE

\* Ruling R3: a version lists the root both with and without data.
Contradicts(it, e) ==
    ~e.failed /\ IF it.body.found THEN it.v \in e.nils ELSE it.v = e.lastDoc

Contradiction(r) ==
    /\ AtItem(r) /\ entry[r].tracked
    /\ Contradicts(Head(w.page), entry[r])
    /\ Fail({r}, entry, ItemDone, 0)
    /\ UNCHANGED <<source, changed, edges, docs, live, job, exposed>>

\* Where the nil that was the last outcome of a root takes the flusher.
Settling(e) ==
    IF e.lastDoc # 0 THEN "nil" ELSE IF MayDelete THEN "remove" ELSE "leave"

\* gone: the nil counts as its plan's outcome.  Ruling R6: with a document of
\* the root still queued, the flush that writes it settles the root.
CountNil(r) ==
    LET it == Head(w.page)
        e == [entry[r] EXCEPT !.nils = @ \cup {it.v}, !.remaining = @ - 1]
        base == [entry EXCEPT ![r] = e]
    IN
    /\ AtItem(r) /\ ~it.body.found
    /\ Unsettled(r) /\ it.v \notin entry[r].nils
    /\ ~Contradicts(it, entry[r])
    /\ IF e.remaining = 0 /\ e.partial
       THEN Fail({r}, base, ItemDone, 0)
       ELSE /\ entry' = base
            /\ w' = IF e.remaining > 0 \/ r \in IdsIn(w.pending) THEN ItemDone
                    ELSE [ItemDone EXCEPT !.pc = "nils", !.how = Settling(e), !.ret = "walk",
                                          !.ids = {r}, !.todo = {r}]
            /\ UNCHANGED <<seq, rows, used>>
    /\ UNCHANGED <<source, changed, edges, docs, live, job, exposed>>

-----------------------------------------------------------------------------
(* The batch loop of a targeted rebuild *)

Batch == Batches[w.next]

\* BeginBuilds precedes the batch's fetch.
BeginBatch ==
    /\ w.pc = "batch" /\ w.next <= Len(Batches)
    /\ seq' = seq + Cardinality(Batch)
    /\ rows' = [r \in Roots |-> IF r \in Batch THEN [rows[r] EXCEPT !.present = TRUE] ELSE rows[r]]
    /\ entry' = [r \in Roots |->
          IF r \in Batch
          THEN [NoEntry EXCEPT !.tracked = TRUE, !.occ = seq + Nth(Batch, r), !.mark = rows[r].mark,
                               !.start = seq + Nth(Batch, r), !.remaining = Cardinality(Selected)]
          ELSE entry[r]]
    /\ w' = [w EXCEPT !.pc = "ask"]
    /\ UNCHANGED <<source, changed, edges, docs, live, job, used, exposed>>

NextBatch == [w EXCEPT !.pc = "batch", !.next = @ + 1]

\* The batch's BeginBuilds, or a plan asked about all of it, fails.
BatchFails ==
    /\ w.pc \in {"batch", "ask"} /\ w.next <= Len(Batches)
    /\ Fail(Batch, entry, NextBatch, 1)
    /\ UNCHANGED <<source, changed, edges, docs, live, job, exposed>>

\* The answers about r: its nils, then its documents, each in plan order.
Answers(r) ==
    LET nils == Selected \ has[r]
        pos(v) == IF v \in nils THEN Nth(nils, v)
                  ELSE Cardinality(nils) + Nth(Selected \ nils, v)
        at(i) == CHOOSE v \in Selected : pos(v) = i
    IN [i \in 1 .. Cardinality(Selected) |->
          [id |-> r, v |-> at(i), body |-> Truth(r, at(i))]]

\* Every selected plan answers for the batch; an id a plan fails, or leaves
\* unanswered, is failed alone.
AskPlans ==
    /\ w.pc = "ask"
    /\ \E errs \in SUBSET Batch :
         LET ids == Batch \ errs
             k == Cardinality(Selected)
             nth(i) == CHOOSE r \in ids : Nth(ids, r) = i
             items == [i \in 1 .. k * Cardinality(ids) |->
                          Answers(nth(1 + ((i - 1) \div k)))[1 + ((i - 1) % k)]]
         IN Fail(errs, entry, [w EXCEPT !.pc = "walk", !.page = items], Cardinality(errs))
    /\ UNCHANGED <<source, changed, edges, docs, live, job, exposed>>

BatchDone ==
    /\ Targeted /\ w.pc = "walk" /\ w.page = <<>>
    /\ w' = NextBatch
    /\ UNCHANGED <<seq, source, store, docs, live, entry, job, used, exposed>>

EndBatches ==
    /\ w.pc = "batch" /\ w.next > Len(Batches)
    /\ w' = [w EXCEPT !.pc = "finish"]
    /\ UNCHANGED <<seq, source, store, docs, live, entry, job, used, exposed>>

-----------------------------------------------------------------------------
(* The flusher *)

ChunkKeys == {<<it.id, it.v>> : it \in {w.chunk[i] : i \in DOMAIN w.chunk}}

\* Of a version's documents in one chunk the bulk write leaves the last.
ChunkBody(r, v) ==
    LET at == {i \in DOMAIN w.chunk : w.chunk[i].id = r /\ w.chunk[i].v = v} IN
    w.chunk[CHOOSE i \in at : \A j \in at : j <= i].body

Upserted(keys) ==
    [r \in Roots |-> [v \in Versions |->
        IF <<r, v>> \in keys THEN Written(docs[r][v], ChunkBody(r, v), entry[r].occ)
        ELSE docs[r][v]]]

\* Rejection is per document.
BulkUpsert ==
    /\ w.pc = "bulk"
    /\ \E rejected \in SUBSET ChunkKeys :
         /\ used.errors + Cardinality(rejected) <= MaxErrors
         /\ docs' = Upserted(ChunkKeys \ rejected)
         /\ w' = [w EXCEPT !.pc = "edges", !.rejected = rejected,
                           !.todo = {k[1] : k \in ChunkKeys \ rejected}]
         /\ used' = [used EXCEPT !.errors = @ + Cardinality(rejected)]
    /\ UNCHANGED <<seq, source, store, live, entry, job, exposed>>

\* The request fails: any of its documents may be written.
BulkFails ==
    /\ w.pc = "bulk"
    /\ \E keys \in SUBSET ChunkKeys : docs' = Upserted(keys)
    /\ Salvage(1)
    /\ UNCHANGED <<source, changed, edges, live, exposed>>

Landed(r) == {v \in Selected : <<r, v>> \in ChunkKeys \ w.rejected}

Took(r) == [w EXCEPT !.todo = @ \ {r}]

\* Ruling R2: what landed has its edges stored, a rejected sibling or not.
StoreEdges(r) ==
    /\ w.pc = "edges" /\ r \in w.todo
    /\ edges' = [edges EXCEPT ![r] = [v \in Versions |->
          IF v \in Landed(r) THEN ReplacedSet(@[v], entry[r].occ, Names(ChunkBody(r, v))) ELSE @[v]]]
    /\ w' = Took(r)
    /\ UNCHANGED <<seq, source, rows, changed, docs, live, entry, job, used, exposed>>

\* Faulty variant: a failed write of the edge sets is only logged.
StoreEdgesFailsQuietly(r) ==
    /\ w.pc = "edges" /\ r \in w.todo
    /\ CanErr /\ Spend("errors")
    /\ w' = Took(r)
    /\ UNCHANGED <<seq, source, store, docs, live, entry, job, exposed>>

StoreEdgesFails(r) ==
    /\ w.pc = "edges" /\ r \in w.todo
    /\ Fail({r}, entry, Took(r), 1)
    /\ UNCHANGED <<source, changed, edges, docs, live, job, exposed>>

\* Faulty variant: a repeated document counts again.
CountedTwice(e, landed) ==
    [e EXCEPT !.remaining = IF Cardinality(landed) > @ THEN 0 ELSE @ - Cardinality(landed)]

\* A plan's document counts once, however often the plan lists it.
Counted(e, landed) ==
    LET new == Cardinality(landed \ {e.lastCounted}) IN
    IF new = 0 THEN e
    ELSE [e EXCEPT !.remaining = IF new > @ THEN 0 ELSE @ - new,
                   !.lastCounted = CHOOSE v \in landed : \A u \in landed : u <= v]

\* Roots with a rejected document fail; the others' documents count, and the
\* nils of those that now settle are to be applied.
CountDocs ==
    LET rejected == {r \in w.ids : Unsettled(r) /\ \E v \in Selected : <<r, v>> \in w.rejected}
        counted == {r \in w.ids : Unsettled(r)} \ rejected
        base == [r \in Roots |-> IF r \in counted THEN Counted(entry[r], Landed(r)) ELSE entry[r]]
        settling == {r \in counted : base[r].remaining = 0 /\ ~base[r].partial /\ base[r].nils # {}}
    IN
    /\ w.pc = "edges" /\ w.todo = {}
    /\ Fail(rejected, base, [w EXCEPT !.pc = "nils", !.todo = settling, !.rejected = {}], 0)
    /\ UNCHANGED <<source, changed, edges, docs, live, job, exposed>>

\* The versions dropNils, or handleDelete of a root to be removed, deletes.
Dropped(r) == IF w.how = "remove" THEN Versions ELSE entry[r].nils

Deleted(r, vs) ==
    [docs EXCEPT ![r] = [v \in Versions |->
        IF v \in vs THEN Written(@[v], NoBody, entry[r].occ) ELSE @[v]]]

DropNils(r) ==
    /\ w.pc = "nils" /\ r \in w.todo
    /\ docs' = Deleted(r, Dropped(r))
    /\ edges' = [edges EXCEPT ![r] = [v \in Versions |->
          IF v \notin Dropped(r) THEN @[v]
          ELSE IF w.how = "remove" THEN RemovedSet(@[v], entry[r].occ)
          ELSE ReplacedSet(@[v], entry[r].occ, {})]]
    /\ w' = Took(r)
    /\ UNCHANGED <<seq, source, rows, changed, live, entry, job, used, exposed>>

\* A delete fails after those before it, or the write of the edge sets does.
DropNilsFails(r) ==
    /\ w.pc = "nils" /\ r \in w.todo
    /\ \E vs \in SUBSET Dropped(r) : docs' = Deleted(r, vs)
    /\ Fail({r}, entry, Took(r), 1)
    /\ UNCHANGED <<source, changed, edges, live, job, exposed>>

\* leaveGone: the sweep decides the row.  A failed mark is fail's to retry.
LeaveGone(r) ==
    /\ w.pc = "nils" /\ w.todo = {} /\ w.how = "leave" /\ r \in w.ids /\ Unsettled(r)
    /\ \/ /\ rows' = MarkedRows({r})
          /\ seq' = seq + 1
          /\ Settle(r)
          /\ UNCHANGED <<w, used>>
       \/ Fail({r}, entry, w, 1)
    /\ UNCHANGED <<source, changed, edges, docs, live, job, exposed>>

\* The roots checkDrift asks about: a flush checks its children too, and a
\* walk, which fetched a root before it began it, the root itself.
Checked == {r \in w.ids : Unsettled(r) /\ (w.how = "flush" \/ ~Targeted)}

ChangedSince(r) ==
    \/ ~Targeted /\ changed[r] > entry[r].start
    \/ w.how = "flush" /\ \E c \in Kids : changed[c] > entry[r].start

\* The batched query: a hit on several roots is narrowed.
CheckDrift ==
    LET hit == \E r \in Checked : ChangedSince(r) IN
    /\ w.pc = "nils" /\ w.todo = {} /\ w.how # "leave"
    /\ w' = [w EXCEPT !.pc = IF hit /\ Cardinality(Checked) > 1 THEN "narrow" ELSE "remark",
                      !.hit = hit, !.todo = IF hit THEN Checked ELSE {}]
    /\ UNCHANGED <<seq, source, store, docs, live, entry, job, used, exposed>>

CheckDriftFails ==
    /\ w.pc = "nils" /\ w.todo = {} /\ w.how # "leave" /\ Checked # {}
    /\ CanErr /\ Spend("errors")
    /\ w' = [w EXCEPT !.pc = IF Cardinality(Checked) > 1 THEN "narrow" ELSE "remark",
                      !.hit = FALSE, !.todo = Checked]
    /\ UNCHANGED <<seq, source, store, docs, live, entry, job, exposed>>

\* Faulty variant: a query that fails re-marks nothing.
NarrowConfirmed ==
    /\ w.pc = "narrow"
    /\ \E errs \in SUBSET w.todo :
         /\ used.errors + Cardinality(errs) <= MaxErrors
         /\ used' = [used EXCEPT !.errors = @ + Cardinality(errs)]
         /\ w' = [w EXCEPT !.pc = "remark",
                           !.todo = {r \in w.todo \ errs : ChangedSince(r)}]
    /\ UNCHANGED <<seq, source, store, docs, live, entry, job, exposed>>

\* One query per root; a failed one re-marks its root, and a hit none of them
\* confirms re-marks all.
Narrow ==
    /\ w.pc = "narrow"
    /\ \E errs \in SUBSET w.todo :
         LET found == {r \in w.todo \ errs : ChangedSince(r)} IN
         /\ used.errors + Cardinality(errs) <= MaxErrors
         /\ used' = [used EXCEPT !.errors = @ + Cardinality(errs)]
         /\ w' = [w EXCEPT !.pc = "remark",
                           !.todo = IF w.hit /\ found = {} THEN @ ELSE errs \cup found]
    /\ UNCHANGED <<seq, source, store, docs, live, entry, job, exposed>>

Remark(r) ==
    /\ w.pc = "remark" /\ r \in w.todo
    /\ \/ /\ rows' = MarkedRows({r})
          /\ seq' = seq + 1
          /\ w' = Took(r)
          /\ UNCHANGED <<entry, used>>
       \/ Fail({r}, entry, Took(r), 1)
    /\ UNCHANGED <<source, changed, edges, docs, live, job, exposed>>

\* Every expected outcome of r has arrived and is applied.
Completable(r) ==
    /\ w.pc = "remark" /\ w.todo = {} /\ r \in w.ids
    /\ Unsettled(r) /\ entry[r].remaining = 0

\* complete: a clear that fails leaves the mark.
Complete(r) ==
    /\ Completable(r) /\ w.how # "remove" /\ ~entry[r].partial
    /\ \/ rows' = [rows EXCEPT ![r] = IF @.present THEN ClearedRow(@, entry[r].mark) ELSE @]
          /\ UNCHANGED used
       \/ CanErr /\ Spend("errors") /\ UNCHANGED rows
    /\ Settle(r)
    /\ UNCHANGED <<seq, source, changed, edges, docs, live, w, job, exposed>>

\* failPartial: a plan whose listing omitted the root was never asked.
FailPartial(r) ==
    /\ Completable(r) /\ entry[r].partial
    /\ Fail({r}, entry, w, 0)
    /\ UNCHANGED <<source, changed, edges, docs, live, job, exposed>>

\* removeRow: DeleteResourceIfSeq.
RemoveRow(r) ==
    LET drops == DropsRow(rows[r], entry[r].mark) IN
    /\ Completable(r) /\ w.how = "remove"
    /\ \/ /\ rows' = IF drops THEN [rows EXCEPT ![r] = NoRow] ELSE rows
          /\ changed' = IF drops THEN [changed EXCEPT ![r] = 0] ELSE changed
          /\ Settle(r)
          /\ UNCHANGED <<seq, w, used>>
       \/ Fail({r}, entry, w, 1) /\ UNCHANGED changed
    /\ UNCHANGED <<source, edges, docs, live, job, exposed>>

\* Faulty variant: a boundary is checkpointed whatever became of the marks.
CheckpointsAnyway == w.how = "flush" /\ w.completed # 0

\* afterFlush: once a mark was lost no boundary is checkpointed.
Checkpoints == w.how = "flush" /\ w.completed # 0 /\ ~w.markFailed

\* The flusher returns.  A checkpoint is recorded at once, or with a beat.
FlusherReturns ==
    /\ \/ w.pc = "remark" /\ w.todo = {}
       \/ w.pc = "nils" /\ w.todo = {} /\ w.how = "leave"
    /\ \A r \in w.ids : ~Completable(r) /\ (w.how = "leave" => ~Unsettled(r))
    /\ w' = [w EXCEPT !.pc = w.ret, !.how = "flush", !.ret = "walk", !.ids = {},
                      !.chunk = <<>>, !.hit = FALSE]
    /\ IF Checkpoints
       THEN \E c \in {job.recorded, w.completed} :
              job' = [job EXCEPT !.latest = w.completed, !.recorded = c]
       ELSE UNCHANGED job
    /\ UNCHANGED <<seq, source, store, docs, live, entry, used, exposed>>

\* finish: the remainder is flushed, roots without every outcome are marked,
\* and errorIfFailed tells a failure the sweep recovers from one to retry.
Finish ==
    LET S == {r \in Roots : Unsettled(r)} IN
    /\ w.pc = "finish"
    /\ IF w.pending # <<>>
       THEN w' = Flushing(w, "finish") /\ UNCHANGED <<seq, rows, entry, job, used>>
       ELSE \E lost \in SUBSET S :
              /\ used.errors + Cardinality(lost) <= MaxErrors
              /\ used' = [used EXCEPT !.errors = @ + Cardinality(lost), !.lost = @ \/ lost # {}]
              /\ rows' = MarkedRows(S \ lost)
              /\ seq' = seq + Cardinality(S \ lost)
              /\ Forget
              /\ IF w.markFailed \/ lost # {} THEN Retry
                 ELSE job' = [job EXCEPT !.outcome =
                                IF w.anyFailed \/ S # {} THEN "marked" ELSE "done"]
    /\ UNCHANGED <<source, changed, edges, docs, live, exposed>>

-----------------------------------------------------------------------------
(* Specification *)

\* The rows are clean and the documents outdated: changes were missed, or the
\* schema changed.
Init ==
    /\ used \in [setup : {Setups[i] : i \in DOMAIN Setups}, changes : {0}, errors : {0}, crashes : {0}, lost : {FALSE}]
    /\ seq = 1
    /\ src = [x \in Things |-> 1] /\ has \in [Roots -> Existences]
    /\ notices = {} /\ known = [x \in Things |-> 0]
    /\ rows = [r \in Roots |-> [present |-> TRUE, stale |-> FALSE, mark |-> 0]]
    /\ changed = [x \in Things |-> 0]
    /\ edges = [r \in Roots |-> [v \in Versions |-> NoEdges]]
    /\ docs = [r \in Roots |-> [v \in Versions |-> [ver |-> 1, body |-> OldBody]]]
    /\ live = [r \in Roots |-> NoLive]
    /\ w = IdleWalk
    /\ entry = [r \in Roots |-> NoEntry]
    /\ job = [attempts |-> 0, latest |-> 0, recorded |-> 0, outcome |-> "running"]
    /\ exposed = {}

LoopStep ==
    \/ StartAttempt \/ Execute \/ FlushBeforePlan \/ FetchPage \/ TakePage \/ PageConsumed
    \/ EndPlan \/ BeginBatch \/ AskPlans \/ BatchDone \/ EndBatches \/ Finish

ItemStep(r) == BeginItem(r) \/ AddDoc(r) \/ SkipItem(r) \/ Contradiction(r) \/ CountNil(r)

FlushStep == BulkUpsert \/ CountDocs \/ CheckDrift \/ Narrow \/ FlusherReturns

SettleStep(r) ==
    \/ StoreEdges(r) \/ DropNils(r) \/ LeaveGone(r) \/ Remark(r) \/ Complete(r)
    \/ FailPartial(r) \/ RemoveRow(r)

WalkStep == LoopStep \/ FlushStep \/ \E r \in Roots : ItemStep(r) \/ SettleStep(r)

Failure ==
    \/ Abort \/ Crash \/ BulkFails \/ BatchFails \/ CheckDriftFails
    \/ \E r \in Roots : BeginItemFails(r) \/ StoreEdgesFails(r) \/ DropNilsFails(r)

\* The rebuild has ended and nothing is left to register or to build.
Quiet ==
    /\ job.outcome # "running" /\ notices = {}
    /\ \A r \in Roots : ~rows[r].stale /\ live[r] = NoLive

Rest == Quiet /\ UNCHANGED vars

Next ==
    \/ WalkStep \/ Beat \/ Failure
    \/ \E r \in Roots : ChangeRoot(r) \/ LiveBegin(r) \/ LiveEnd(r)
    \/ \E c \in Kids : ChangeKid(c)
    \/ \E x \in Things : Register(x)
    \/ Rest

Spec == Init /\ [][Next]_vars

-----------------------------------------------------------------------------
(* Properties *)

\* A rebuild that reports success, or only failures it marked, has done its
\* work once those marks are served: every root a selected plan finds has the
\* documents a build run now would write, whatever failed, was retried or
\* resumed on the way, and however often a listing repeats or omits the root;
\* and a version the rebuild did not ask still serves the root it finds, also
\* where every selected plan found the root gone.
Backfilled ==
    Quiet /\ job.outcome \in {"done", "marked"} =>
        \A r \in Roots \ exposed :
            /\ has[r] \cap Selected # {} => \A v \in Selected : docs[r][v].body = Truth(r, v)
            /\ \A v \in has[r] \ Selected : docs[r][v].body.found

\* An unmarked root that nobody builds shows, of itself and of its children, at
\* least what was registered.
Shows(r, v) ==
    LET body == docs[r][v].body IN
    rows[r].present /\ ~rows[r].stale /\ live[r] = NoLive /\ ~Unsettled(r) /\ body.found =>
        body.n >= known[r] /\ \A k \in body.kids : k[2] >= known[k[1]]

\* No registered change is lost to the rebuild's older pages: the documents of
\* the versions it runs show what was registered, or the root is marked.  (A
\* crash, or a mark that cannot be stored, opens the window the activity's
\* retry closes.)
RegisteredKept ==
    used.crashes = 0 /\ ~used.lost => \A r \in Roots \ exposed, v \in Selected : Shows(r, v)

\* What ADR 0008 says of the mark: it is cleared only when the change that set
\* it has been served, at every version that serves the root.
ServedAsDocumented ==
    used.crashes = 0 /\ ~used.lost => \A r \in Roots \ exposed, v \in Versions : Shows(r, v)

\* What a recorded cursor steps over is settled: every root listed before it
\* was rebuilt, or is marked or being built, or has a change to be registered.
CursorSettled ==
    Resumable => \A v \in Selected : \A i \in 1 .. job.recorded :
        \A r \in {Pages[v][i][j] : j \in DOMAIN Pages[v][i]} :
            \/ docs[r][v].body # OldBody \/ v \notin has[r]
            \/ rows[r].stale \/ live[r] # NoLive \/ r \in notices

\* The recorded cursor never moves back: no beat of a later attempt erases it.
CursorNeverLost == [][job'.recorded >= job.recorded]_job

\* A document is never both written and deleted at one Build Sequence, where
\* external_gte would let whichever comes last win.
NoFlipAtOneSequence ==
    [][\A r \in Roots, v \in Versions :
          docs'[r][v].ver = docs[r][v].ver => docs'[r][v].body.found = docs[r][v].body.found]_docs

\* A document in Elasticsearch has a row: without one no sweep would ever see
\* it.  A rebuild removes a row only with the documents of every version.  (A
\* rebuild that stops between a document and its mark leaves the document to
\* outlive a delete that a live build had begun before it.)
ServedHasRow ==
    used.crashes = 0 /\ ~used.lost => \A r \in Roots \ exposed :
        (\E v \in Versions : docs[r][v].body.found) => rows[r].present \/ r \in notices

\* Once nothing is left to do, every child a document shows has a stored edge,
\* so its next change reaches the document.
EdgesCoverDocs ==
    Quiet /\ used.crashes = 0 /\ ~used.lost => \A r \in Roots \ exposed, v \in Versions :
        Names(docs[r][v].body) \subseteq edges[r][v].kids

==============================================================================
