----------------------------- MODULE SourceAudit -----------------------------
(***************************************************************************)
(* What repairs a type whose notifications were lost: the reverse sweep,   *)
(* which probes the source for the rows it holds (core/reverse_sweep.go),  *)
(* the forward walk, which rebuilds what the source lists                  *)
(* (core/forward_walk.go), and a partial rebuild's probe pass, which       *)
(* decides the rows its versions' listings left out                        *)
(* (core/rebuild_probe_pass.go), with the workflows that retry them        *)
(* (core/temporal.go), against registrations and builds.                   *)
(*                                                                         *)
(* A plan finds a resource only when it is asked with the resource's own   *)
(* metadata: metadata is the actor a provider answers, and where resources *)
(* have one, asking without fails.  As in RebuildWalk a marked row may be  *)
(* built at any time, by one build that begins, fetches and later writes.  *)
(* The walk fetches an id, begins it, writes it and settles it in steps of *)
(* their own, so the source, registrations, builds and the sweep's marks   *)
(* may come between any two of them.                                       *)
(***************************************************************************)
EXTENDS BuildSequence, Sequences

CONSTANTS
    Setups,     \* Setups[i]: a deployment, what runs in it and its bounds
    PageSize,   \* rows per page of the sweep and of the probe pass
    Attempts    \* of the workflows' retry policies

\* ids: of the type; versions: with a plan, the least has the first Probe;
\* existences: sets of versions whose plan may find an id; mds: metadata an id
\* may have, None alone where resources have none; rowless: the rows of some
\* ids were never written; runs: reverse sweeps that may run at once or one
\* after another, Forever for a schedule; pass: versions a partial walk, run
\* with metadata md, has just finished; walks: the metadata the forward walk
\* walks with, in order.
SetupFields == {"ids", "versions", "existences", "mds", "rowless", "runs", "pass", "md", "walks",
                "changes", "losses", "errors", "crashes"}

None == 0
Forever == 99

IsSetup(s) ==
    /\ DOMAIN s = SetupFields
    /\ s.ids \subseteq Nat \ {0} /\ IsFiniteSet(s.ids)
    /\ s.versions \subseteq Nat \ {0} /\ IsFiniteSet(s.versions) /\ s.versions # {}
    /\ s.existences \subseteq SUBSET s.versions
    /\ s.mds \subseteq Nat /\ s.md \in Nat /\ s.walks \in Seq(Nat) /\ s.rowless \in BOOLEAN
    /\ s.mds = {None} \/ (None \notin s.mds /\ (s.md = None => s.pass = {}))
    /\ s.pass \subseteq s.versions
    /\ s.runs \in Nat /\ s.changes \in Nat /\ s.losses \in Nat /\ s.errors \in Nat /\ s.crashes \in Nat

ASSUME AuditAssumption ==
    /\ \A i \in DOMAIN Setups : IsSetup(Setups[i])
    /\ PageSize \in Nat \ {0} /\ Attempts \in Nat \ {0}

VARIABLES
    used,      \* the setup of this behaviour, and how much of its bounds has been spent
    seq,       \* last value drawn from change_sequence
    src,       \* src[i]: the versions that find i, its metadata, its revision
    notices,   \* changes not yet registered
    unheard,   \* history: ids whose last change nobody notified
    exposed,   \* history: ids not registered since a build removed their row under an older
               \* answer of the walk, or the walk was lost after it wrote that answer, or
               \* between a row it inserted and the answer
    rows,      \* the resources table
    docs,      \* docs[i][v]: documents
    edges,     \* edges[i][v]: edge sets, which say what a version has decided
    live,      \* live[i]: the build of i
    sweep,     \* the reverse sweep's run, as Temporal has it
    atts,      \* the attempts of that run, the last the current one
    gone,      \* history: ids whose rows the run could list, which the probing plan has
               \* not had since it began, of which no walk had yet to begin an older answer,
               \* and which have not been exposed since
    skipped,   \* history: ids whose probe failed in this run
    pass,      \* the probe pass
    fwd        \* the forward walk's run

store == <<rows, docs, edges>>
source == <<src, notices, unheard, exposed>>
sweeping == <<sweep, atts, gone, skipped>>
vars == <<used, seq, source, store, live, sweeping, pass, fwd>>

-----------------------------------------------------------------------------
(* The setup *)

Setup == Setups[used.setup]
Ids == Setup.ids
Versions == Setup.versions

\* firstProbe: the sweep asks the first plan that has a Probe.
ProbeVersion == LeastOf(Versions)

CanErr == used.errors < Setup.errors
CanCrash == used.crashes < Setup.crashes
Spend(what) == used' = [used EXCEPT ![what] = @ + 1]

-----------------------------------------------------------------------------
(* State *)

Body == [found : BOOLEAN, n : Nat]
NoBody == [found |-> FALSE, n |-> 0]

Row == [present : BOOLEAN, tomb : BOOLEAN, stale : BOOLEAN, mark : Nat, changed : Nat, md : Nat]
NoRow == [present |-> FALSE, tomb |-> FALSE, stale |-> FALSE, mark |-> 0, changed |-> 0, md |-> None]

Live == [idx : Nat, mark : Nat, md : Nat, out : [Versions -> Body]]
NoLive == [idx |-> 0, mark |-> 0, md |-> None, out |-> [v \in Versions |-> NoBody]]

\* One attempt of RunReverseSweep: page holds the listed ids with the metadata
\* their rows had, left those not probed yet.
Attempt == [pc : {"list", "probe", "mark", "over"}, after : Nat, latest : Nat,
            page : SUBSET (Ids \X Nat), left : SUBSET (Ids \X Nat), suspects : SUBSET Ids]

Sweep == [runs : Nat, outcome : {"idle", "running", "done", "failed"}, recorded : Nat]

Pass == [pc : {"off", "list", "begin", "probe", "delete", "edges", "mark", "done", "failed"},
         left : SUBSET Versions, after : Nat, page : SUBSET Ids, seqs : [Ids -> Nat],
         todo : SUBSET Ids, returned : SUBSET Ids]

\* What the forward walk has of one id: the answers its listing gave, then the
\* number and the mark its BeginBuild returned.
Hand == [pc : {"none", "fetched", "begun", "written", "remark"}, out : [Versions -> Body],
         idx : Nat, mark : Nat]
NoHand == [pc |-> "none", out |-> [v \in Versions |-> NoBody], idx |-> 0, mark |-> 0]

Fwd == [pc : {"off", "next", "walk", "done"}, left : Seq(Nat), start : Nat, todo : SUBSET Ids,
        hand : [Ids -> Hand], marked : BOOLEAN, errs : SUBSET Nat]

Used == [setup : DOMAIN Setups, changes : Nat, losses : Nat, errors : Nat,
         crashes : Nat]

TypeOK ==
    /\ used \in Used /\ seq \in Nat
    /\ src \in [Ids -> [vs : SUBSET Versions, md : Nat, n : Nat]]
    /\ notices \subseteq Ids /\ unheard \subseteq Ids /\ exposed \subseteq Ids
    /\ rows \in [Ids -> Row]
    /\ docs \in [Ids -> [Versions -> [ver : Nat, body : Body]]]
    /\ edges \in [Ids -> [Versions -> [stamp : Nat, kids : {{}}]]]
    /\ live \in [Ids -> Live]
    /\ sweep \in Sweep /\ atts \in Seq(Attempt) /\ Len(atts) <= Attempts
    /\ gone \subseteq Ids /\ skipped \subseteq Ids
    /\ pass \in Pass /\ fwd \in Fwd

-----------------------------------------------------------------------------
(* Helpers *)

\* What plan v's root fetch, or its Probe, finds of i when asked with md.
Finds(i, v, md) == v \in src[i].vs /\ md = src[i].md

Fetched(i, v, md) == IF Finds(i, v, md) THEN [found |-> TRUE, n |-> src[i].n] ELSE NoBody

\* A source whose resources have an actor refuses to be asked without one.
Answers(md) == md # None \/ None \in Setup.mds

\* The first PageSize of S: a keyset page in id order.
FirstPage(S) == {i \in S : Nth(S, i) <= PageSize}

LastOf(S) == CHOOSE i \in S : \A j \in S : j <= i

\* MarkStale over S: a missing row is inserted without metadata.
Marked(S) ==
    [i \in Ids |-> IF i \notin S THEN rows[i]
                   ELSE [rows[i] EXCEPT !.present = TRUE, !.stale = TRUE, !.mark = seq + Nth(S, i)]]

\* A report fills metadata no registration gave.
Reported(row, md) == IF row.md = None THEN [row EXCEPT !.md = md] ELSE row

\* The answers the walk has of i are no longer what it would be told.
Outdated(i) ==
    /\ fwd.hand[i].pc # "none"
    /\ fwd.hand[i].out # [v \in Versions |-> Fetched(i, v, Head(fwd.left))]

\* ListResources lists rows, but no tombstone.
Listable(i) == rows[i].present /\ ~rows[i].tomb

\* uncovered: no stale mark and no edge set of the version.
Uncovered(i, v) == ~rows[i].stale /\ edges[i][v].stamp = 0

-----------------------------------------------------------------------------
(* The source, registrations and builds *)

\* A resource comes, goes or moves to other metadata, and its notification is
\* sent or lost.
Change(i) ==
    /\ \/ /\ used.changes < Setup.changes /\ Spend("changes")
          /\ notices' = notices \cup {i}
          /\ unheard' = unheard \ {i}
       \/ /\ used.losses < Setup.losses /\ Spend("losses")
          /\ notices' = notices
          /\ unheard' = unheard \cup {i}
    /\ \E vs \in Setup.existences, md \in Setup.mds :
          src' = [src EXCEPT ![i] = [vs |-> vs, md |-> md, n |-> @.n + 1]]
    /\ gone' = gone \ {i}
    /\ UNCHANGED <<seq, exposed, store, live, sweep, atts, skipped, pass, fwd>>

Register(i) ==
    /\ i \in notices
    /\ notices' = notices \ {i}
    /\ rows' = [rows EXCEPT ![i] = [present |-> TRUE, tomb |-> src[i].vs = {}, stale |-> TRUE,
                                    mark |-> seq + 1, changed |-> seq + 1, md |-> src[i].md]]
    /\ seq' = seq + 1
    /\ exposed' = exposed \ {i}
    /\ UNCHANGED <<used, src, unheard, docs, edges, live, sweeping, pass, fwd>>

\* A build fetches with the metadata its row holds when it begins; a
\* tombstone's delete fetches nothing.
BuildBegins(i) ==
    /\ rows[i].stale /\ live[i] = NoLive
    /\ rows[i].tomb \/ Answers(rows[i].md)
    /\ seq' = seq + 1
    /\ live' = [live EXCEPT ![i] =
          [idx |-> seq + 1, mark |-> rows[i].mark, md |-> src[i].md,
           out |-> [v \in Versions |->
                      IF rows[i].tomb THEN NoBody ELSE Fetched(i, v, rows[i].md)]]]
    /\ UNCHANGED <<used, source, store, sweeping, pass, fwd>>

\* The build found nothing of the resource.
Nothing(b) == \A v \in Versions : ~b.out[v].found

\* The row after the build b: one whose mark moved keeps it.
EndedRow(row, b) ==
    LET same == row.mark = b.mark IN
    CASE Nothing(b) /\ same -> NoRow
      [] Nothing(b) /\ ~same -> row
      [] OTHER -> [Reported(row, b.md) EXCEPT !.stale = @ /\ ~same]

\* A document written above the build b stays when b deletes.
Overtaken(i, b) == \E v \in Versions : docs[i][v].ver > b.idx /\ docs[i][v].body.found

BuildEnds(i) ==
    LET b == live[i] IN
    /\ b # NoLive
    /\ docs' = [docs EXCEPT ![i] = [v \in Versions |-> Written(@[v], b.out[v], b.idx)]]
    /\ edges' = [edges EXCEPT ![i] = [v \in Versions |->
          IF Nothing(b) THEN RemovedSet(@[v], b.idx) ELSE ReplacedSet(@[v], b.idx, {})]]
    /\ rows' = [rows EXCEPT ![i] = EndedRow(@, b)]
    /\ live' = [live EXCEPT ![i] = NoLive]
    /\ IF EndedRow(rows[i], b) = NoRow /\ (Outdated(i) \/ Overtaken(i, b))
       THEN exposed' = exposed \cup {i} /\ gone' = gone \ {i}
       ELSE UNCHANGED <<exposed, gone>>
    /\ UNCHANGED <<used, seq, src, notices, unheard, sweep, atts, skipped, pass, fwd>>

\* A failed build leaves the row its mark.
BuildFails(i) ==
    /\ live[i] # NoLive /\ CanErr /\ Spend("errors")
    /\ live' = [live EXCEPT ![i] = NoLive]
    /\ UNCHANGED <<seq, source, store, sweeping, pass, fwd>>

-----------------------------------------------------------------------------
(* The reverse sweep *)

NewAttempt(after) == [pc |-> "list", after |-> after, latest |-> after, page |-> {}, left |-> {},
                      suspects |-> {}]

Current(a) == a = Len(atts)

\* The schedule starts a run unless one is running.  Bound: a schedule's runs
\* are far enough apart for the marks of one to be served before the next.
StartRun ==
    /\ sweep.outcome # "running" /\ sweep.runs < Setup.runs
    /\ Setup.runs = Forever => \A i \in Ids : ~rows[i].stale
    /\ \A a \in DOMAIN atts : atts[a].pc = "over"
    /\ sweep' = [runs |-> IF Setup.runs = Forever THEN 0 ELSE sweep.runs + 1,
                 outcome |-> "running", recorded |-> 0]
    /\ atts' = <<NewAttempt(0)>>
    /\ gone' = {i \in Ids : /\ Listable(i) /\ ProbeVersion \notin src[i].vs
                            /\ ~(Outdated(i) /\ fwd.hand[i].pc = "fetched")}
    /\ skipped' = {}
    /\ UNCHANGED <<used, seq, source, store, live, pass, fwd>>

\* Faulty variant: the retry policy has no end.
RetriedForever(past) ==
    /\ atts' = Append(past, NewAttempt(sweep.recorded))
    /\ sweep' = sweep

\* An attempt that fails is retried after the recorded id; the last fails the run.
Retried(past) ==
    IF Len(past) < Attempts
    THEN /\ atts' = Append(past, NewAttempt(sweep.recorded))
         /\ sweep' = sweep
    ELSE /\ atts' = past
         /\ sweep' = [sweep EXCEPT !.outcome = "failed"]

\* The end of attempt a: Temporal ignores one it has given up.
Ended(a, outcome) ==
    /\ atts' = [atts EXCEPT ![a].pc = "over"]
    /\ sweep' = IF Current(a) THEN [sweep EXCEPT !.outcome = outcome] ELSE sweep

AttemptFails(a) ==
    LET over == [atts EXCEPT ![a].pc = "over"] IN
    IF Current(a) THEN Retried(over) ELSE atts' = over /\ sweep' = sweep

\* Faulty variant: a page is checkpointed when it is listed.
PagedAhead(att, listed) ==
    [att EXCEPT !.pc = "probe", !.page = listed, !.left = listed, !.suspects = {},
                !.latest = LastOf({r[1] : r \in listed})]

Paged(att, listed) ==
    [att EXCEPT !.pc = "probe", !.page = listed, !.left = listed, !.suspects = {}]

\* Nothing is locked between the listing and the mark.
ListPage(a) ==
    LET page == FirstPage({i \in Ids : Listable(i) /\ i > atts[a].after})
        listed == {<<i, rows[i].md>> : i \in page}
    IN
    /\ atts[a].pc = "list"
    /\ IF page = {} THEN Ended(a, "done")
       ELSE /\ atts' = [atts EXCEPT ![a] = Paged(@, listed)]
            /\ UNCHANGED sweep
    /\ UNCHANGED <<used, seq, source, store, live, gone, skipped, pass, fwd>>

\* The group probed next: the rows with the metadata of the first one left.
Group(a) ==
    LET first == LeastOf({r[1] : r \in atts[a].left}) IN
    {r \in atts[a].left : \E q \in atts[a].left : q[1] = first /\ q[2] = r[2]}

ProbeNext(a, suspects) ==
    LET left == atts[a].left \ Group(a) IN
    atts' = [atts EXCEPT ![a].left = left, ![a].suspects = @ \cup suspects,
                         ![a].pc = IF left = {} THEN "mark" ELSE "probe"]

Probe(a) ==
    /\ atts[a].pc = "probe" /\ \A q \in Group(a) : Answers(q[2])
    /\ ProbeNext(a, {r[1] : r \in {q \in Group(a) : ~Finds(q[1], ProbeVersion, q[2])}})
    /\ UNCHANGED <<used, seq, source, store, live, sweep, gone, skipped, pass, fwd>>

\* A failed probe skips its ids until the next run.
ProbeFails(a) ==
    /\ atts[a].pc = "probe"
    /\ IF \A q \in Group(a) : Answers(q[2]) THEN CanErr /\ Spend("errors") ELSE UNCHANGED used
    /\ ProbeNext(a, {})
    /\ skipped' = skipped \cup {r[1] : r \in Group(a)}
    /\ UNCHANGED <<seq, source, store, live, sweep, gone, pass, fwd>>

\* Faulty variant: a page that is exactly full ends the sweep.
LastPageTooSoon(a) == Cardinality(atts[a].page) <= PageSize

LastPage(a) == Cardinality(atts[a].page) < PageSize

\* One MarkStale for the page's suspects, then the page's checkpoint.
MarkPage(a) ==
    LET last == LastOf({r[1] : r \in atts[a].page}) IN
    /\ atts[a].pc = "mark"
    /\ rows' = Marked(atts[a].suspects)
    /\ seq' = seq + Cardinality(atts[a].suspects)
    /\ IF LastPage(a)
       THEN Ended(a, "done")
       ELSE /\ atts' = [atts EXCEPT ![a].pc = "list", ![a].after = last, ![a].latest = last]
            /\ UNCHANGED sweep
    /\ UNCHANGED <<used, source, docs, edges, live, gone, skipped, pass, fwd>>

\* A listing or a mark fails, or the attempt's context ends.
AttemptError(a) ==
    /\ atts[a].pc # "over" /\ CanErr /\ Spend("errors")
    /\ AttemptFails(a)
    /\ UNCHANGED <<seq, source, store, live, gone, skipped, pass, fwd>>

\* heartbeatCursor: a beat records the attempt's latest cursor.
Beat ==
    LET a == Len(atts) IN
    /\ sweep.outcome = "running"
    /\ sweep.recorded # atts[a].latest
    /\ sweep' = [sweep EXCEPT !.recorded = atts[a].latest]
    /\ UNCHANGED <<used, seq, source, store, live, atts, gone, skipped, pass, fwd>>

\* No beat arrives in time: the process is lost, or its attempt runs on beside
\* the next one.
BeatTimesOut ==
    LET a == Len(atts) IN
    /\ sweep.outcome = "running" /\ CanCrash /\ Spend("crashes")
    /\ \E past \in {atts, [atts EXCEPT ![a].pc = "over"]} : Retried(past)
    /\ UNCHANGED <<seq, source, store, live, gone, skipped, pass, fwd>>

-----------------------------------------------------------------------------
(* The probe pass of a walk that ran fewer than every plan *)

PassVersion == LeastOf(pass.left)

NoSeqs == [i \in Ids |-> 0]

\* The pass of version PassVersion is over, or its next page is listed.
VersionDone(q) == [q EXCEPT !.left = @ \ {LeastOf(q.left)}, !.after = 0, !.page = {},
                            !.pc = IF Cardinality(q.left) = 1 THEN "done" ELSE "list"]

PageDone(q) ==
    IF Cardinality(q.page) < PageSize THEN VersionDone(q)
    ELSE [q EXCEPT !.pc = "list", !.after = LastOf(q.page), !.page = {}]

\* Where the page's writes go on: the excluded ids, then the returned ones.
PageStep(q) ==
    CASE q.todo # {} -> [q EXCEPT !.pc = "delete"]
      [] q.todo = {} /\ q.returned # {} -> [q EXCEPT !.pc = "mark"]
      [] OTHER -> PageDone([q EXCEPT !.seqs = NoSeqs])

ListUncovered ==
    LET page == FirstPage({i \in Ids : /\ Listable(i) /\ i > pass.after
                                       /\ rows[i].md = Setup.md /\ Uncovered(i, PassVersion)})
    IN
    /\ pass.pc = "list"
    /\ pass' = IF page = {} THEN VersionDone(pass) ELSE [pass EXCEPT !.pc = "begin", !.page = page]
    /\ UNCHANGED <<used, seq, source, store, live, sweeping, fwd>>

\* Faulty variant: the begin is asked to insert what is missing.
BeginsAny(i) == TRUE

\* BeginBuilds with BeginExisting: neither a missing row nor a tombstone.
Begins(i) == rows[i].present /\ ~rows[i].tomb

\* Faulty variant: the metadata the row holds by now is not compared.
AsksWhatever(i) == Begins(i)

\* Rulings R2 and R7: gone, tombstoned or moved to other metadata is not asked.
Asks(i) == Begins(i) /\ rows[i].md = Setup.md

\* Each begun row draws its number before the probe.
BeginPage ==
    LET begun == {i \in pass.page : Begins(i)}
        asked == {i \in pass.page : Asks(i)}
        seqs == [i \in Ids |-> IF i \in asked THEN seq + Nth(begun, i) ELSE 0]
    IN
    /\ pass.pc = "begin"
    /\ seq' = seq + Cardinality(begun)
    /\ rows' = [i \in Ids |-> IF i \in begun THEN [rows[i] EXCEPT !.present = TRUE] ELSE rows[i]]
    /\ pass' = IF asked = {} THEN PageDone(pass) ELSE [pass EXCEPT !.pc = "probe", !.seqs = seqs]
    /\ UNCHANGED <<used, source, docs, edges, live, sweeping, fwd>>

ProbePage ==
    LET asked == {i \in Ids : pass.seqs[i] # 0}
        found == {i \in asked : Finds(i, PassVersion, Setup.md)}
    IN
    /\ pass.pc = "probe"
    /\ pass' = PageStep([pass EXCEPT !.todo = asked \ found, !.returned = found])
    /\ UNCHANGED <<used, seq, source, store, live, sweeping, fwd>>

\* The page's ids stay uncovered.
ProbePageFails ==
    /\ pass.pc = "probe" /\ CanErr /\ Spend("errors")
    /\ pass' = PageStep(pass)
    /\ UNCHANGED <<seq, source, store, live, sweeping, fwd>>

\* The excluded id written next, in page order.
Excluded == LeastOf(pass.todo)

DeleteExcluded ==
    /\ pass.pc = "delete"
    /\ docs' = [docs EXCEPT ![Excluded][PassVersion] = Written(@, NoBody, pass.seqs[Excluded])]
    /\ pass' = [pass EXCEPT !.pc = "edges"]
    /\ UNCHANGED <<used, seq, source, rows, edges, live, sweeping, fwd>>

EmptyEdges ==
    /\ pass.pc = "edges"
    /\ edges' = [edges EXCEPT ![Excluded][PassVersion] = ReplacedSet(@, pass.seqs[Excluded], {})]
    /\ pass' = PageStep([pass EXCEPT !.todo = @ \ {Excluded}])
    /\ UNCHANGED <<used, seq, source, rows, docs, live, sweeping, fwd>>

\* The delete or the edge set of one id fails: it stays uncovered.
ExcludedFails ==
    /\ pass.pc \in {"delete", "edges"} /\ CanErr /\ Spend("errors")
    /\ pass' = PageStep([pass EXCEPT !.todo = @ \ {Excluded}])
    /\ UNCHANGED <<seq, source, store, live, sweeping, fwd>>

\* One MarkStale, without a claim, for what the probe returned.
MarkReturned ==
    /\ pass.pc = "mark"
    /\ rows' = Marked(pass.returned)
    /\ seq' = seq + Cardinality(pass.returned)
    /\ pass' = PageStep([pass EXCEPT !.returned = {}])
    /\ UNCHANGED <<used, source, docs, edges, live, sweeping, fwd>>

MarkReturnedFails ==
    /\ pass.pc = "mark" /\ CanErr /\ Spend("errors")
    /\ pass' = PageStep([pass EXCEPT !.returned = {}])
    /\ UNCHANGED <<seq, source, store, live, sweeping, fwd>>

NewPass == [pc |-> IF Setup.pass = {} THEN "off" ELSE "list", left |-> Setup.pass, after |-> 0,
            page |-> {}, seqs |-> NoSeqs, todo |-> {}, returned |-> {}]

\* A failed listing or begin fails the rebuild, and a lost process its attempt:
\* the next attempt runs the pass whole again, or there is none.
PassEnds ==
    /\ pass.pc \notin {"off", "done", "failed"}
    /\ \/ pass.pc \in {"list", "begin"} /\ CanErr /\ Spend("errors")
       \/ CanCrash /\ Spend("crashes")
    /\ pass' \in {NewPass, [NewPass EXCEPT !.pc = "failed"]}
    /\ UNCHANGED <<seq, source, store, live, sweeping, fwd>>

-----------------------------------------------------------------------------
(* The forward walk *)

\* The ids the source lists for an actor, at any version.
Listed(md) == {i \in Ids : \E v \in Versions : Finds(i, v, md)}

NoHands == [i \in Ids |-> NoHand]

\* The ids the walk has begun and not settled.
Begun == {i \in Ids : fwd.hand[i].pc \in {"begun", "written", "remark"}}

Walking(i, pc) == fwd.pc = "walk" /\ fwd.hand[i].pc = pc

\* The next metadata's walk starts when the one before it has ended; its start
\* is drawn before the first page is fetched.
StartWalk ==
    /\ fwd.pc = "next" /\ fwd.left # <<>>
    /\ seq' = seq + 1
    /\ fwd' = [fwd EXCEPT !.pc = "walk", !.start = seq + 1, !.todo = Ids]
    /\ UNCHANGED <<used, source, store, live, sweeping, pass>>

\* The listing comes to i, and gives the answers of every plan at once
\* (RebuildWalk has the plans apart); one it does not list is not walked.
WalkFetches(i) ==
    LET out == [v \in Versions |-> Fetched(i, v, Head(fwd.left))] IN
    /\ fwd.pc = "walk" /\ i \in fwd.todo
    /\ fwd' = [fwd EXCEPT !.todo = @ \ {i},
                          !.hand[i] = IF i \in Listed(Head(fwd.left))
                                      THEN [NoHand EXCEPT !.pc = "fetched", !.out = out] ELSE @]
    /\ UNCHANGED <<used, seq, source, store, live, sweeping, pass>>

\* BeginBuild, after the page was fetched: a missing row is inserted.
WalkBegins(i) ==
    /\ Walking(i, "fetched")
    /\ seq' = seq + 1
    /\ rows' = [rows EXCEPT ![i].present = TRUE]
    /\ fwd' = [fwd EXCEPT !.hand[i] = [@ EXCEPT !.pc = "begun", !.idx = seq + 1, !.mark = rows[i].mark]]
    /\ UNCHANGED <<used, source, docs, edges, live, sweeping, pass>>

\* The documents, then the edge sets with the report, which inserts no row.
WalkWrites(i) ==
    LET h == fwd.hand[i] IN
    /\ Walking(i, "begun")
    /\ docs' = [docs EXCEPT ![i] = [v \in Versions |-> Written(@[v], h.out[v], h.idx)]]
    /\ edges' = [edges EXCEPT ![i] = [v \in Versions |-> ReplacedSet(@[v], h.idx, {})]]
    /\ rows' = [rows EXCEPT ![i] = IF @.present THEN Reported(@, Head(fwd.left)) ELSE @]
    /\ fwd' = [fwd EXCEPT !.hand[i].pc = "written"]
    /\ UNCHANGED <<used, seq, source, live, sweeping, pass>>

\* Faulty variant: the root is not checked.
DriftedNever(i) == FALSE

\* checkDrift: a registered change of the root since the walk's start.
Drifted(i) == rows[i].changed > fwd.start

\* The drift check, then ClearStale of the mark the begin returned, which does
\* nothing when the mark moved in between.
WalkSettles(i) ==
    LET h == fwd.hand[i] IN
    /\ Walking(i, "written")
    /\ rows' = IF Drifted(i) \/ rows[i].mark # h.mark THEN rows ELSE [rows EXCEPT ![i].stale = FALSE]
    /\ fwd' = [fwd EXCEPT !.hand[i] = IF Drifted(i) THEN [@ EXCEPT !.pc = "remark"] ELSE NoHand]
    /\ UNCHANGED <<used, seq, source, docs, edges, live, sweeping, pass>>

\* A root that drifted is marked again.
WalkRemarks(i) ==
    /\ Walking(i, "remark")
    /\ rows' = Marked({i})
    /\ seq' = seq + 1
    /\ fwd' = [fwd EXCEPT !.hand[i] = NoHand]
    /\ UNCHANGED <<used, source, docs, edges, live, sweeping, pass>>

\* An id fails and is marked: the walk is done all the same.
WalkMarks(i) ==
    /\ fwd.pc = "walk" /\ fwd.hand[i].pc # "none" /\ CanErr /\ Spend("errors")
    /\ rows' = Marked({i})
    /\ seq' = seq + 1
    /\ fwd' = [fwd EXCEPT !.hand[i] = NoHand, !.marked = TRUE]
    /\ UNCHANGED <<source, docs, edges, live, sweeping, pass>>

\* runForwardWalks: every walk runs, whatever became of an earlier one.
AfterWalk(q, err) ==
    [q EXCEPT !.pc = "next", !.left = Tail(@), !.todo = {}, !.hand = NoHands,
              !.errs = IF err THEN @ \cup {Head(q.left)} ELSE @]

WalkEnds ==
    /\ fwd.pc = "walk" /\ fwd.todo = {} /\ fwd.hand = NoHands
    /\ fwd' = AfterWalk(fwd, FALSE)
    /\ UNCHANGED <<used, seq, source, store, live, sweeping, pass>>

\* What a walk that is lost leaves behind: its older answer, or a row without one.
Exposes(i) ==
    \/ Outdated(i) /\ fwd.hand[i].pc \in {"written", "remark"}
    \/ fwd.hand[i].pc = "begun" /\ \E v \in Versions : Uncovered(i, v)

\* A walk whose error is not its marked failures marks what it has begun; one
\* that is lost with its process marks nothing.  It is walked again from the
\* start, or its retries are exhausted.
WalkFails ==
    /\ fwd.pc = "walk"
    /\ \/ /\ CanErr /\ Spend("errors")
          /\ rows' = Marked(Begun)
          /\ seq' = seq + Cardinality(Begun)
          /\ UNCHANGED exposed
       \/ /\ CanCrash /\ Spend("crashes")
          /\ exposed' = exposed \cup {i \in Ids : Exposes(i)}
          /\ UNCHANGED <<rows, seq>>
    /\ fwd' \in {AfterWalk(fwd, TRUE), [fwd EXCEPT !.pc = "next", !.todo = {}, !.hand = NoHands]}
    /\ UNCHANGED <<src, notices, unheard, docs, edges, live, sweeping, pass>>

WalksDone ==
    /\ fwd.pc = "next" /\ fwd.left = <<>>
    /\ fwd' = [fwd EXCEPT !.pc = "done"]
    /\ UNCHANGED <<used, seq, source, store, live, sweeping, pass>>

-----------------------------------------------------------------------------
(* Specification *)

\* The store as notifications left it before some were lost: an id with a row
\* has the documents of every version, but for the versions of the pass, whose
\* listings left the id out: of those nothing is decided, and an earlier build
\* may have left a document.
Init ==
    /\ used \in [setup : DOMAIN Setups, changes : {0}, losses : {0}, errors : {0},
                crashes : {0}]
    /\ seq = 1
    /\ src \in [Ids -> [vs : Setup.existences, md : Setup.mds, n : {1}]]
    /\ Setup.pass # {} => \A i \in Ids : src[i].vs # {}
    /\ \E rowless \in IF Setup.rowless THEN SUBSET Ids ELSE {{}},
          left \in [Ids -> BOOLEAN] :
       /\ rows = [i \in Ids |-> IF i \in rowless THEN NoRow
                                ELSE [NoRow EXCEPT !.present = TRUE, !.md = src[i].md]]
       /\ docs = [i \in Ids |-> [v \in Versions |->
             IF i \in rowless \/ (v \in Setup.pass /\ ~left[i]) THEN [ver |-> 0, body |-> NoBody]
             ELSE IF Setup.pass # {} /\ v \notin Setup.pass
             THEN [ver |-> 1, body |-> Fetched(i, v, src[i].md)]
             ELSE [ver |-> 1, body |-> [found |-> TRUE, n |-> 0]]]]
       /\ edges = [i \in Ids |-> [v \in Versions |->
             IF i \in rowless \/ v \in Setup.pass THEN NoEdges ELSE [stamp |-> 1, kids |-> {}]]]
       /\ (Setup.pass = {} => left = [i \in Ids |-> TRUE])
    /\ notices = {}
    /\ unheard = {i \in Ids : \E v \in Versions \ Setup.pass :
                      docs[i][v].body.found # (v \in src[i].vs)}
    /\ exposed = {}
    /\ live = [i \in Ids |-> NoLive]
    /\ sweep = [runs |-> 0, outcome |-> "idle", recorded |-> 0]
    /\ atts = <<>> /\ gone = {} /\ skipped = {}
    /\ pass = NewPass
    /\ fwd = [pc |-> IF Setup.walks = <<>> THEN "off" ELSE "next", left |-> Setup.walks,
              start |-> 0, todo |-> {}, hand |-> NoHands, marked |-> FALSE, errs |-> {}]

SourceStep(i) == Change(i) \/ Register(i)

BuildStep(i) == BuildBegins(i) \/ BuildEnds(i)

AttemptStep(a) == ListPage(a) \/ Probe(a) \/ ProbeFails(a) \/ MarkPage(a)

PassStep ==
    \/ ListUncovered \/ BeginPage \/ ProbePage \/ DeleteExcluded \/ EmptyEdges \/ MarkReturned
    \/ ProbePageFails \/ ExcludedFails \/ MarkReturnedFails \/ PassEnds

WalkId(i) ==
    WalkFetches(i) \/ WalkBegins(i) \/ WalkWrites(i) \/ WalkSettles(i) \/ WalkRemarks(i) \/ WalkMarks(i)

FwdStep ==
    \/ StartWalk \/ WalkEnds \/ WalkFails \/ WalksDone
    \/ \E i \in Ids : WalkId(i)

\* Nothing is under way and no row is marked that a build could serve.
Quiet ==
    /\ notices = {} /\ sweep.outcome # "running"
    /\ \A a \in DOMAIN atts : atts[a].pc = "over"
    /\ \A i \in Ids : live[i] = NoLive /\ (rows[i].stale => ~rows[i].tomb /\ ~Answers(rows[i].md))
    /\ pass.pc \in {"off", "done", "failed"} /\ fwd.pc \in {"off", "done"}

Rest == Quiet /\ UNCHANGED vars

Next ==
    \/ \E i \in Ids : SourceStep(i) \/ BuildStep(i) \/ BuildFails(i)
    \/ StartRun \/ Beat \/ BeatTimesOut
    \/ \E a \in DOMAIN atts : AttemptStep(a) \/ AttemptError(a)
    \/ PassStep \/ FwdStep \/ Rest

Spec == Init /\ [][Next]_vars

\* Schedules fire, activities and builds run on.
Fairness ==
    /\ WF_vars(StartRun)
    /\ WF_vars(\E i \in Ids : BuildStep(i))
    /\ WF_vars(\E a \in DOMAIN atts : AttemptStep(a))

FairSpec == Spec /\ Fairness

-----------------------------------------------------------------------------
(* Properties *)

\* A document of i that no plan would find today has somebody to remove it.
Settled(i) ==
    \/ rows[i].stale \/ live[i] # NoLive
    \/ \A v \in Versions : docs[i][v].body.found => v \in src[i].vs

\* Of the ids the source lost before a sweep's run began, none the recorded
\* cursor has passed, and none at all once the run is done, is left as it was,
\* whatever attempt was retried or ran on beside its successor, and whatever a
\* walk beside it writes and clears: its row is marked, being built or clean,
\* unless its probe failed.  That is so of a row a walk brought back too, so
\* the sweep after it reaps it.  (gone: a walk that fetched before the loss and
\* begins after the sweep's mark captures that mark and clears it over its
\* older answer, so an id whose older answer no walk has begun yet when the run
\* starts is left to the next run.  Listable: the sweep reaches a document
\* through its row.  A build that found nothing may remove the row from under
\* what a walk wrote meanwhile, and a walk that builds a tombstone clears its
\* mark and leaves it a tombstone: nothing lists either.)
SweptIsSettled ==
    \A i \in gone \ skipped :
        Listable(i) /\ (i <= sweep.recorded \/ sweep.outcome = "done") => Settled(i)

\* A version that covers an unmarked row no build and no walk has in hand has
\* answered for it: its document is there exactly when its plan finds the
\* resource.
Answered(i, v) ==
    rows[i].present /\ ~rows[i].stale /\ live[i] = NoLive /\ fwd.hand[i].pc = "none" /\ ~Uncovered(i, v) =>
        docs[i][v].body.found = (v \in src[i].vs)

\* A probe pass none of whose calls failed leaves no row of its metadata
\* uncovered, however its pages age between the listing and the begin, but one
\* a build or a walk has in hand, or a lost walk inserted and never wrote.
Decided(i, v) ==
    pass.pc = "done" /\ used.errors = 0 /\ v \in Setup.pass
    /\ rows[i].present /\ ~rows[i].tomb /\ rows[i].md = Setup.md /\ live[i] = NoLive
    /\ fwd.hand[i].pc = "none" /\ i \notin exposed =>
        ~Uncovered(i, v)

\* What the cutover check counts on: the pass decides every row that is its
\* own to decide, and what it, a build or a walk covers is answered as the
\* source says: a walk that read before a notified change does not leave its
\* older answer behind, because the change it finds registered at the end has
\* it mark the row again.  (unheard: a change nobody notified is no one's to
\* find but the sweep's; exposed: a row removed while the walk held an older
\* answer has lost its change_seq, and a walk that is lost checks nothing.)
CoveredIsAnswered ==
    \A i \in Ids, v \in Versions :
        Decided(i, v) /\ (i \notin unheard \cup notices \cup exposed => Answered(i, v))

\* A row without a mark is the row of a resource: at rest, no row of a resource
\* whose delete was notified is left unmarked but the one ADR 0012 documents,
\* which a walk begins, from a page it fetched before, after the delete's build
\* removed it (exposed; SweptIsSettled has the next sweep reap it).  The probe
\* pass brings none back.
NoGhostRow ==
    Quiet => \A i \in Ids \ (unheard \cup exposed) : rows[i].present => src[i].vs # {} \/ rows[i].stale

\* Some walk of the run lists i.
WalkLists(i) == \E k \in DOMAIN Setup.walks : Setup.walks[k] = src[i].md

\* A forward walk that is over has served each resource its walks listed, or
\* left it marked, whatever walk failed before; and once a reverse sweep that
\* did not skip it has run too, in either order or together, its documents are
\* what the source holds, or its row is marked: neither undoes what the other
\* repaired.  (exposed: see NoGhostRow.)
Repaired ==
    fwd.pc = "done" => \A i \in Ids \ exposed, v \in Versions : WalkLists(i) =>
        /\ i \notin notices \cup unheard /\ src[i].md \notin fwd.errs /\ v \in src[i].vs =>
               docs[i][v].body.found \/ rows[i].stale \/ live[i] # NoLive
        /\ Quiet /\ sweep.outcome = "done" /\ i \notin skipped /\ fwd.errs = {} /\ used.losses = 0 =>
               docs[i][v].body.found = (v \in src[i].vs) \/ rows[i].stale

\* Under a schedule that keeps firing, the documents of the resources the
\* source lost go, however their notifications were lost and whatever a walk
\* wrote of an older answer.  (Setup.changes: no notified change left one a
\* tombstone; exposed: no build removed the row a walk still writes, see
\* SweptIsSettled.)
LostDeletesGo ==
    []<>(Setup.runs = Forever /\ Setup.changes = 0 =>
             \A i \in Ids \ exposed, v \in Versions : docs[i][v].body.found => v \in src[i].vs)

==============================================================================
