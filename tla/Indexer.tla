------------------------------- MODULE Indexer ------------------------------
(***************************************************************************)
(* The write side of laika: registrations of change notifications          *)
(* (core/register.go), the inline builds and deletes they submit           *)
(* (core/schedule.go, core/build.go, core/handle.go), the stale sweep      *)
(* (core/sweep.go), the resources rows and edge sets in Postgres           *)
(* (storage/postgres/pg.go) and the documents in Elasticsearch             *)
(* (backend/elasticsearch/es.go), against a source that changes on its     *)
(* own and notifies at least once.                                         *)
(*                                                                         *)
(* Every store statement and every Elasticsearch request is one step, but  *)
(* for RegisterChanges, whose snapshot, locks and commit are apart: other  *)
(* statements interleave with it.  Several instances share the store, so a *)
(* worker stands for a pool worker of any of them.                         *)
(***************************************************************************)
EXTENDS RowStore, BuildSequence

CONSTANTS
    Resources,     \* ids, ordered as the statements order (type, id)
    Pool,          \* pool workers of all instances, of which a setup has some
    Sweeper,       \* the stale sweep's activity
    SweepLimit,    \* rows one sweep pass lists
    Setups         \* Setups[i]: what may happen in a behaviour, see SetupFields

\* workers: how many of the Pool run; versions: the configured Schema
\* Versions, in plan order; versioned: resources whose
\* notifications carry an upstream version; existences[r]: sets of versions
\* whose plan may find r; refs[r]: sets of resources r may refer to; ups[r]:
\* sets of Parents r's own data may name; settled: resources that start
\* registered and built; initRefs[r]: what a settled resource refers to at
\* first; batch: notifications per RegisterChanges call; regs: calls in flight;
\* and the bounds Used counts.
SetupFields == {"workers", "versions", "versioned", "existences", "refs", "ups", "settled", "initRefs",
                "batch", "regs", "changes", "errors", "crashes", "lapses", "sheds", "forgets"}

IsSetup(s) ==
    /\ DOMAIN s = SetupFields
    /\ s.versions \subseteq Nat /\ IsFiniteSet(s.versions) /\ s.versions # {}
    /\ s.versioned \subseteq Resources /\ s.settled \subseteq Resources
    /\ s.existences \in [Resources -> SUBSET SUBSET s.versions]
    /\ s.refs \in [Resources -> SUBSET SUBSET Resources]
    /\ s.ups \in [Resources -> SUBSET SUBSET Resources]
    /\ s.initRefs \in [Resources -> SUBSET s.settled]
    /\ \A r \in Resources : r \notin s.initRefs[r]
    /\ \A f \in {"workers", "batch", "regs", "changes", "errors", "crashes", "lapses",
                "sheds", "forgets"} : s[f] \in Nat

ASSUME IndexerAssumption ==
    /\ Resources \subseteq Nat /\ IsFiniteSet(Resources)
    /\ Sweeper \notin Pool /\ SweepLimit \in Nat
    /\ \A i \in DOMAIN Setups : IsSetup(Setups[i])

VARIABLES
    seq,       \* last value drawn from change_sequence
    rows,      \* the resources table
    edges,     \* edges[r][v]: r's stored edge set, stamped with a Build Sequence
    docs,      \* docs[r][v]: r's document, with its Elasticsearch version
    src,       \* the source of truth
    msgs,      \* notifications not yet registered
    regs,      \* RegisterChanges calls in flight
    entries,   \* claimed work handed to the pool, or listed by the sweep
    tasks,     \* what each worker and the sweep are doing
    used,      \* the setup of this behaviour, and how much of its bounds has been spent
    exposed    \* history: children whose change may have passed their Parents by, and why

vars == <<seq, rows, edges, docs, src, msgs, regs, entries, tasks, used, exposed>>

-----------------------------------------------------------------------------
(* The setup *)

Workers == used.workers
Versions == used.setup.versions
Versioned == used.setup.versioned
Existences == used.setup.existences
RefChoices == used.setup.refs
UpChoices == used.setup.ups
Settled == used.setup.settled
InitRefs == used.setup.initRefs
MaxBatch == used.setup.batch
MaxRegs == used.setup.regs
MaxChanges == used.setup.changes
MaxErrors == used.setup.errors
MaxCrashes == used.setup.crashes
MaxLapses == used.setup.lapses
MaxSheds == used.setup.sheds
MaxForgets == used.setup.forgets

(* State *)

Actors == Workers \cup {Sweeper}

Source == [n : Nat, vs : SUBSET Versions, refs : SUBSET Resources, ups : SUBSET Resources]

Body == [found : BOOLEAN, n : Nat, kids : SUBSET (Resources \X Nat)]

NoBody == [found |-> FALSE, n |-> 0, kids |-> {}]

Doc == [ver : Nat, body : Body]

EdgeSet == [stamp : Nat, kids : SUBSET Resources]

Msg == [r : Resources, n : Nat, deleted : BOOLEAN]

Entry == [via : {"pool", "sweep"}, kind : {"build", "delete"}, r : Resources,
          token : Nat, mark : Nat]

PC == {"begin", "root", "related", "write", "nils", "edges", "parents",
       "drift", "remark", "finish", "begindelete", "esdelete", "unlink", "drop"}

Task == [pc : PC, entry : Entry, idx : Nat, mark : Nat, left : SUBSET Versions,
         seen : Source, out : [Versions -> Body], ups : SUBSET Resources]

Idle == [pc |-> "idle"]

Reg == [phase : {"open", "fanout", "mark"}, items : SUBSET Msg,
        draw : Nat, locks : SUBSET Resources,
        parents : [Resources -> SUBSET Resources],
        accepted : SUBSET Resources, marked : SUBSET Resources,
        claims : SUBSET Entry, missed : SUBSET Resources]

\* Spent bounds: source changes, failed statements and requests, lost
\* processes, leases that lapse while their owner still works, submissions the
\* pool refuses, and deletes Elasticsearch forgets.
Used == [setup : {Setups[i] : i \in DOMAIN Setups}, workers : SUBSET Pool, changes : 0 .. MaxChanges, errors : 0 .. MaxErrors, crashes : 0 .. MaxCrashes,
         lapses : 0 .. MaxLapses, sheds : 0 .. MaxSheds, forgets : 0 .. MaxForgets]

\* How a child's change may pass a Parent by: its second fanout did not run,
\* its row was removed before the drift check, or its number was lowered.
Windows == {"fanout", "removed", "lowered"}

TypeOK ==
    /\ seq \in Nat
    /\ rows \in [Resources -> Row]
    /\ edges \in [Resources -> [Versions -> EdgeSet]]
    /\ docs \in [Resources -> [Versions -> Doc]]
    /\ src \in [Resources -> Source]
    /\ msgs \subseteq Msg
    /\ regs \subseteq Reg
    /\ entries \subseteq Entry
    /\ tasks \in [Actors -> Task \cup {Idle}]
    /\ used \in Used
    /\ exposed \subseteq Windows \X Resources

-----------------------------------------------------------------------------
(* Helpers *)

Gone(r) == src[r].vs = {}

Names(body) == {k[1] : k \in body.kids}

ParentsOf(C) == {p \in Resources : \E v \in Versions : edges[p][v].kids \cap C # {}}

\* Rows an open registration holds FOR UPDATE; other writers wait for them.
LockedBy(G) == UNION {g.locks : g \in {h \in G : h.phase = "open"}}

Unlocked(S) == S \cap LockedBy(regs) = {}

BuildEntry(r, token) ==
    [via |-> "pool", kind |-> "build", r |-> r, token |-> token, mark |-> 0]

DeleteEntry(r, mark, token) ==
    [via |-> "pool", kind |-> "delete", r |-> r, token |-> token, mark |-> mark]

\* MarkStale with a lease over the set S, each row at a number of its own.
MarkAll(S) == [r \in Resources |-> IF r \in S THEN MarkRow(rows[r], seq + Nth(S, r)) ELSE rows[r]]

\* The builds scheduleBuild submits: the rows of S its mark claimed.
ClaimedBuilds(S, marked) ==
    {BuildEntry(r, ClaimToken(marked[r])) : r \in {x \in S : ClaimToken(marked[x]) # 0}}

\* submitFollowUp: a delete when the row is a tombstone, else a build.
FollowUpEntries(r, row, mark, token) ==
    LET t == FollowUp(row, mark, token) IN
    IF t = 0 THEN {} ELSE IF row.deleted THEN {DeleteEntry(r, t, t)} ELSE {BuildEntry(r, t)}

Spend(what) == used' = [used EXCEPT ![what] = @ + 1]

CanErr == used.errors < MaxErrors

CanCrash == used.crashes < MaxCrashes

-----------------------------------------------------------------------------
(* The source *)

\* What a plan run for r at Schema Version v should find now.
Related(r, seen) ==
    {c \in Resources \ {r} : ~Gone(c) /\ (c \in seen.refs \/ r \in src[c].ups)}

Truth(r, v) ==
    IF v \in src[r].vs
    THEN [found |-> TRUE, n |-> src[r].n, kids |-> {<<c, src[c].n>> : c \in Related(r, src[r])}]
    ELSE NoBody

\* A change of r at the source, whose notification is then under way.
Change(r) ==
    /\ used.changes < MaxChanges
    /\ \E vs \in Existences[r], refs \in RefChoices[r], ups \in UpChoices[r] :
         /\ vs # {} \/ ~Gone(r)
         /\ vs = {} => refs = {} /\ ups = {}
         /\ src' = [src EXCEPT ![r] = [n |-> @.n + 1, vs |-> vs, refs |-> refs, ups |-> ups]]
         /\ msgs' = msgs \cup {[r |-> r, n |-> src[r].n + 1, deleted |-> vs = {}]}
    /\ Spend("changes")
    /\ UNCHANGED <<seq, rows, edges, docs, regs, entries, tasks, exposed>>

-----------------------------------------------------------------------------
(* RegisterChanges *)

Touched(g) == {m.r : m \in g.items}

\* Upstreams keep a delete in order with the changes that follow it: it names
\* no version, so a late one would be taken for a new delete.
Deliverable(m) ==
    ~\E o \in msgs \cup UNION {g.items : g \in {h \in regs : h.phase = "open"}} :
        o.r = m.r /\ o.deleted /\ o.n < m.n

\* The statement starts: it reads the edges from its snapshot, locks the
\* existing rows it may mark, and draws a number for each item.
RegBegin ==
    /\ Cardinality(regs) < MaxRegs
    /\ \E M \in SUBSET {m \in msgs : Deliverable(m)} :
         LET R == {m.r : m \in M}
             parents == [r \in Resources |-> IF r \in R THEN ParentsOf({r}) ELSE {}]
             locks == {r \in R \cup ParentsOf(R) : rows[r].present}
         IN
         /\ M # {} /\ Cardinality(M) <= MaxBatch
         /\ Cardinality(R) = Cardinality(M)
         /\ Unlocked(locks)
         /\ regs' = regs \cup
               {[phase |-> "open", items |-> M, draw |-> seq, locks |-> locks,
                 parents |-> parents, accepted |-> {}, marked |-> {}, claims |-> {},
                 missed |-> {}]}
         /\ seq' = seq + Cardinality(R)
         /\ msgs' = msgs \ M
    /\ UNCHANGED <<rows, edges, docs, src, entries, tasks, used, exposed>>

Item(m) == [deleted |-> m.deleted,
            version |-> IF m.deleted \/ m.r \notin Versioned THEN 0 ELSE m.n]

AcceptedItems(g) == {m \in g.items : Accepts(rows[m.r], Item(m))}

ItemOf(g, r) == CHOOSE m \in g.items : m.r = r

Number(g, r) == g.draw + Nth(Touched(g), r)

\* Parents the statement marks: of the accepted items, not those items.
StatementParents(g, A) == (UNION {g.parents[r] : r \in A}) \ A

RegisteredRows(g, A, P) ==
    [r \in Resources |->
        IF r \in A THEN RegisterItem(rows[r], Item(ItemOf(g, r)), Number(g, r))
        ELSE IF r \in P THEN MarkRow(rows[r], seq + Nth(P, r))
        ELSE rows[r]]

\* What the registration will submit: the items and Parents it claimed.
RegisteredClaims(g, A, P, after) ==
    LET claimed == {r \in A \cup P : ClaimToken(after[r]) # 0} IN
    {IF r \in A /\ after[r].deleted
     THEN DeleteEntry(r, after[r].staleSeq, ClaimToken(after[r]))
     ELSE BuildEntry(r, ClaimToken(after[r])) : r \in claimed}

\* Another open registration holds a row this one must write.
Blocked(g) ==
    LET A == {m.r : m \in AcceptedItems(g)} IN
    (A \cup StatementParents(g, A)) \cap LockedBy(regs \ {g}) # {}

\* The commit: versions, marks and claims of the accepted items and the marks
\* and claims of their Parents, all or nothing.  A caller that lost the answer
\* sends the batch again.
RegCommit(g) ==
    LET A == {m.r : m \in AcceptedItems(g)}
        P == StatementParents(g, A)
        after == RegisteredRows(g, A, P)
    IN
    /\ g.phase = "open"
    /\ ~Blocked(g)
    /\ rows' = after
    /\ seq' = seq + Cardinality(P)
    /\ regs' = (regs \ {g}) \cup
         (IF A = {} THEN {}
          ELSE {[g EXCEPT !.phase = "fanout", !.locks = {}, !.accepted = A, !.marked = P,
                          !.claims = RegisteredClaims(g, A, P, after)]})
    /\ \/ UNCHANGED <<msgs, used>>
       \/ CanErr /\ msgs' = msgs \cup g.items /\ Spend("errors")
    /\ exposed' = exposed \cup
         ({"lowered"} \X {r \in A : rows[r].changeSeq > Number(g, r)})
    /\ UNCHANGED <<edges, docs, src, entries, tasks>>

\* The statement fails and commits nothing - a deadlock victim included - and
\* the caller keeps the batch.
RegAbort(g) ==
    /\ g.phase = "open"
    /\ CanErr /\ Spend("errors")
    /\ regs' = regs \ {g}
    /\ msgs' = msgs \cup g.items
    /\ UNCHANGED <<seq, rows, edges, docs, src, entries, tasks, exposed>>

\* Faulty variant: no second fanout.
RegFanoutOnce(g) ==
    /\ g.phase = "fanout"
    /\ regs' = regs \ {g} /\ entries' = entries \cup g.claims
    /\ UNCHANGED <<seq, rows, edges, docs, src, msgs, tasks, used, exposed>>

\* markMissedParents reads the stored edges again once the batch is committed.
RegFanout(g) ==
    LET missed == ParentsOf(g.accepted) \ (g.accepted \cup g.marked) IN
    /\ g.phase = "fanout"
    /\ IF missed = {}
       THEN regs' = regs \ {g} /\ entries' = entries \cup g.claims
       ELSE regs' = (regs \ {g}) \cup {[g EXCEPT !.phase = "mark", !.missed = missed]}
            /\ UNCHANGED entries
    /\ UNCHANGED <<seq, rows, edges, docs, src, msgs, tasks, used, exposed>>

\* It schedules the Parents it found, and the claimed work is submitted.
RegMark(g) ==
    /\ g.phase = "mark"
    /\ Unlocked(g.missed)
    /\ rows' = MarkAll(g.missed)
    /\ seq' = seq + Cardinality(g.missed)
    /\ entries' = entries \cup g.claims \cup ClaimedBuilds(g.missed, rows')
    /\ regs' = regs \ {g}
    /\ UNCHANGED <<edges, docs, src, msgs, tasks, used, exposed>>

\* The read or the mark of the second fanout fails; the registration goes on
\* and the documented window stays open for its children.
RegFanoutFails(g) ==
    /\ g.phase \in {"fanout", "mark"}
    /\ CanErr /\ Spend("errors")
    /\ exposed' = exposed \cup ({"fanout"} \X g.accepted)
    /\ entries' = entries \cup g.claims
    /\ regs' = regs \ {g}
    /\ UNCHANGED <<seq, rows, edges, docs, src, msgs, tasks>>

\* The process stops between the commit and its submissions.
RegCrash(g) ==
    /\ g.phase \in {"fanout", "mark"}
    /\ CanCrash /\ Spend("crashes")
    /\ exposed' = exposed \cup ({"fanout"} \X g.accepted)
    /\ regs' = regs \ {g}
    /\ UNCHANGED <<seq, rows, edges, docs, src, msgs, entries, tasks>>

-----------------------------------------------------------------------------
(* Pool queue and sweep *)

\* The pool refuses a submission: its ownership is released, its mark stays.
Shed(e) ==
    /\ e.via = "pool"
    /\ used.sheds < MaxSheds /\ Spend("sheds")
    /\ Unlocked({e.r})
    /\ entries' = entries \ {e}
    /\ rows' = [rows EXCEPT ![e.r] = Release(@, e.token)]
    /\ UNCHANGED <<seq, edges, docs, src, msgs, regs, tasks, exposed>>

LoseEntry(e) ==
    /\ CanCrash /\ Spend("crashes")
    /\ entries' = entries \ {e}
    /\ UNCHANGED <<seq, rows, edges, docs, src, msgs, regs, tasks, exposed>>

SweptEntry(r) ==
    [via |-> "sweep", kind |-> IF rows[r].deleted THEN "delete" ELSE "build", r |-> r,
     token |-> rows[r].staleSeq, mark |-> rows[r].staleSeq]

\* ListStale: claims up to SweepLimit rows whose turn has come, skipping locked
\* ones.  A pass runs to its end before the next begins.
SweepList ==
    LET ready == {r \in Resources : Sweepable(rows[r]) /\ Unlocked({r})} IN
    /\ tasks[Sweeper] = Idle
    /\ \A e \in entries : e.via # "sweep"
    /\ ready # {}
    /\ \E S \in SUBSET ready :
         /\ IF Cardinality(ready) <= SweepLimit THEN S = ready
                                                ELSE Cardinality(S) = SweepLimit
         /\ rows' = [r \in Resources |-> IF r \in S THEN SweepClaim(rows[r]) ELSE rows[r]]
         /\ entries' = entries \cup {SweptEntry(r) : r \in S}
    /\ UNCHANGED <<seq, edges, docs, src, msgs, regs, tasks, used, exposed>>

\* A sweep pass finishes its tombstones before its builds.
Takes(a, e) ==
    /\ tasks[a] = Idle
    /\ IF a = Sweeper
       THEN /\ e.via = "sweep"
            /\ e.kind = "build" => \A o \in entries : o.via = "sweep" => o.kind = "build"
       ELSE e.via = "pool"

NoSource == [n |-> 0, vs |-> {}, refs |-> {}, ups |-> {}]

Started(e) ==
    [pc |-> IF e.kind = "build" THEN "begin" ELSE "begindelete", entry |-> e, idx |-> 0,
     mark |-> e.mark, left |-> Versions, seen |-> NoSource,
     out |-> [v \in Versions |-> NoBody], ups |-> {}]

\* Faulty variant: work whose ownership was lost goes back on the queue.
TakeRequeueing(a, e) ==
    /\ Takes(a, e)
    /\ Unlocked({e.r})
    /\ entries' = IF Holds(rows[e.r], e.token) THEN entries \ {e} ELSE entries
    /\ rows' = [rows EXCEPT ![e.r] = Renew(@, e.token)]
    /\ tasks' = IF Holds(rows[e.r], e.token) THEN [tasks EXCEPT ![a] = Started(e)] ELSE tasks
    /\ UNCHANGED <<seq, edges, docs, src, msgs, regs, used, exposed>>

\* renewOwners at a dequeue or at a sweep entry: only held work is done.
Take(a, e) ==
    /\ Takes(a, e)
    /\ Unlocked({e.r})
    /\ entries' = entries \ {e}
    /\ rows' = [rows EXCEPT ![e.r] = Renew(@, e.token)]
    /\ tasks' = IF Holds(rows[e.r], e.token) THEN [tasks EXCEPT ![a] = Started(e)] ELSE tasks
    /\ UNCHANGED <<seq, edges, docs, src, msgs, regs, used, exposed>>

\* Faulty variant: the skipped work keeps its ownership.
TakeFailsHolding(a, e) ==
    /\ Takes(a, e)
    /\ CanErr /\ Spend("errors")
    /\ entries' = entries \ {e}
    /\ UNCHANGED <<seq, rows, edges, docs, src, msgs, regs, tasks, exposed>>

\* The renewal fails: the ownership is released and the work skipped.
TakeFails(a, e) ==
    /\ Takes(a, e)
    /\ Unlocked({e.r})
    /\ CanErr /\ Spend("errors")
    /\ entries' = entries \ {e}
    /\ rows' = [rows EXCEPT ![e.r] = Release(@, e.token)]
    /\ UNCHANGED <<seq, edges, docs, src, msgs, regs, tasks, exposed>>

-----------------------------------------------------------------------------
(* Owned builds *)

At(a, p) == tasks[a].pc = p

Id(a) == tasks[a].entry.r

Token(a) == tasks[a].entry.token

Ended(a) == tasks' = [tasks EXCEPT ![a] = Idle]

\* BeginBuilds: a fresh Build Sequence, which is also the drift check's start,
\* and the captured mark.
BeginBuild(a) ==
    /\ At(a, "begin")
    /\ Unlocked({Id(a)})
    /\ seq' = seq + 1
    /\ rows' = [rows EXCEPT ![Id(a)] = BeginBuildRow(@, seq + 1, Token(a))]
    /\ tasks' = [tasks EXCEPT ![a] =
          [@ EXCEPT !.pc = "root", !.idx = seq + 1, !.mark = rows[Id(a)].staleSeq]]
    /\ UNCHANGED <<edges, docs, src, msgs, regs, entries, used, exposed>>

\* A plan fetches its root, then what the root relates to.
FetchRoot(a) ==
    /\ At(a, "root")
    /\ tasks' = [tasks EXCEPT ![a] = [@ EXCEPT !.pc = "related", !.seen = src[Id(a)]]]
    /\ UNCHANGED <<seq, rows, edges, docs, src, msgs, regs, entries, used, exposed>>

Fetched(r, v, seen) ==
    IF v \in seen.vs
    THEN [found |-> TRUE, n |-> seen.n, kids |-> {<<c, src[c].n>> : c \in Related(r, seen)}]
    ELSE NoBody

FoundIn(out) == {v \in Versions : out[v].found}

\* Every plan runs before anything is written.  A resource every plan finds
\* gone is deleted everywhere.
FetchRelated(a) ==
    LET t == tasks[a]
        v == LeastOf(t.left)
        body == Fetched(Id(a), v, t.seen)
        out == [t.out EXCEPT ![v] = body]
        left == t.left \ {v}
        next == IF left # {} THEN "root" ELSE IF FoundIn(out) = {} THEN "esdelete" ELSE "write"
    IN
    /\ At(a, "related")
    /\ tasks' = [tasks EXCEPT ![a] =
          [t EXCEPT !.pc = next, !.out = out, !.left = IF left = {} THEN Versions ELSE left,
                    !.ups = IF body.found THEN t.ups \cup t.seen.ups ELSE t.ups]]
    /\ UNCHANGED <<seq, rows, edges, docs, src, msgs, regs, entries, used, exposed>>

WrittenDocs(r, S, t) ==
    [docs EXCEPT ![r] =
        [v \in Versions |-> IF v \in S THEN Written(@[v], t.out[v], t.idx) ELSE @[v]]]

BulkUpsert(a) ==
    LET t == tasks[a]
        nils == Versions \ FoundIn(t.out)
    IN
    /\ At(a, "write")
    /\ docs' = WrittenDocs(Id(a), FoundIn(t.out), t)
    /\ tasks' = [tasks EXCEPT ![a] =
          [@ EXCEPT !.pc = IF nils = {} THEN "edges" ELSE "nils", !.left = nils]]
    /\ UNCHANGED <<seq, rows, edges, src, msgs, regs, entries, used, exposed>>

\* The delete of one Schema Version's document at the task's Build Sequence.
DeleteDoc(a, after) ==
    LET v == LeastOf(tasks[a].left)
        left == tasks[a].left \ {v}
    IN
    /\ docs' = WrittenDocs(Id(a), {v}, [tasks[a] EXCEPT !.out[v] = NoBody])
    /\ tasks' = [tasks EXCEPT ![a] =
          [tasks[a] EXCEPT !.pc = IF left = {} THEN after ELSE tasks[a].pc, !.left = left]]
    /\ UNCHANGED <<seq, rows, edges, src, msgs, regs, entries, used, exposed>>

DeleteNil(a) == At(a, "nils") /\ DeleteDoc(a, "edges")

FetchedKids(t) == UNION {Names(t.out[v]) : v \in Versions}

AfterParents(t) == IF FetchedKids(t) = {} THEN "finish" ELSE "drift"

ReplaceEdges(a) ==
    LET t == tasks[a] IN
    /\ At(a, "edges")
    /\ edges' = [edges EXCEPT ![Id(a)] =
          [v \in Versions |-> ReplacedSet(@[v], t.idx, Names(t.out[v]))]]
    /\ tasks' = [tasks EXCEPT ![a].pc = IF t.ups = {} THEN AfterParents(t) ELSE "parents"]
    /\ UNCHANGED <<seq, rows, docs, src, msgs, regs, entries, used, exposed>>

\* scheduleBuild: mark and claim S, then submit what was claimed.
ScheduleBuild(S) ==
    /\ Unlocked(S)
    /\ rows' = MarkAll(S)
    /\ seq' = seq + Cardinality(S)
    /\ entries' = entries \cup ClaimedBuilds(S, rows')

\* The Parents the resource's own data names.
ScheduleParents(a) ==
    /\ At(a, "parents")
    /\ ScheduleBuild(tasks[a].ups)
    /\ tasks' = [tasks EXCEPT ![a].pc = AfterParents(tasks[a])]
    /\ UNCHANGED <<edges, docs, src, msgs, regs, used, exposed>>

Drifted(t) == \E c \in FetchedKids(t) : rows[c].present /\ rows[c].changeSeq > t.idx

CheckDrift(a) ==
    /\ At(a, "drift")
    /\ tasks' = [tasks EXCEPT ![a].pc = IF Drifted(tasks[a]) THEN "remark" ELSE "finish"]
    /\ UNCHANGED <<seq, rows, edges, docs, src, msgs, regs, entries, used, exposed>>

Remark(a) ==
    /\ At(a, "remark")
    /\ ScheduleBuild({Id(a)})
    /\ tasks' = [tasks EXCEPT ![a].pc = "finish"]
    /\ UNCHANGED <<edges, docs, src, msgs, regs, used, exposed>>

Finish(a) ==
    LET r == Id(a)
        mark == tasks[a].mark
    IN
    /\ At(a, "finish")
    /\ Unlocked({r})
    /\ rows' = [rows EXCEPT ![r] = FinishOwned(@, mark, Token(a))]
    /\ entries' = entries \cup FollowUpEntries(r, rows[r], mark, Token(a))
    /\ Ended(a)
    /\ UNCHANGED <<seq, edges, docs, src, msgs, regs, used, exposed>>

-----------------------------------------------------------------------------
(* Owned deletes, and builds of a resource found gone *)

\* A superseded delete - of a row recreated or already gone - deletes nothing
\* and only finishes.
BeginDelete(a) ==
    LET row == rows[Id(a)] IN
    /\ At(a, "begindelete")
    /\ Unlocked({Id(a)})
    /\ IF row.present /\ row.deleted
       THEN /\ seq' = seq + 1
            /\ rows' = [rows EXCEPT ![Id(a)] = BeginDeleteRow(@, seq + 1, Token(a))]
            /\ tasks' = [tasks EXCEPT ![a] = [@ EXCEPT !.pc = "esdelete", !.idx = seq + 1]]
       ELSE /\ tasks' = [tasks EXCEPT ![a].pc = "drop"]
            /\ UNCHANGED <<seq, rows>>
    /\ UNCHANGED <<edges, docs, src, msgs, regs, entries, used, exposed>>

DeleteEach(a) == At(a, "esdelete") /\ DeleteDoc(a, "unlink")

RemoveResource(a) ==
    /\ At(a, "unlink")
    /\ edges' = [edges EXCEPT ![Id(a)] =
          [v \in Versions |-> RemovedSet(@[v], tasks[a].idx)]]
    /\ tasks' = [tasks EXCEPT ![a].pc = "drop"]
    /\ UNCHANGED <<seq, rows, docs, src, msgs, regs, entries, used, exposed>>

\* A build that fetched r has still to ask whether r changed.
AwaitsDriftCheck(r) ==
    \E b \in Actors :
        /\ tasks[b].pc \in {"root", "related", "write", "nils", "edges", "parents", "drift"}
        /\ r \in FetchedKids(tasks[b])

\* DeleteResourceIfSeq: the row goes, or its newer mark is followed up.
DropRow(a) ==
    LET r == Id(a)
        mark == tasks[a].mark
    IN
    /\ At(a, "drop")
    /\ Unlocked({r})
    /\ rows' = [rows EXCEPT ![r] = DeleteRowIfSeq(@, mark, Token(a))]
    /\ entries' = entries \cup FollowUpEntries(r, rows[r], mark, Token(a))
    /\ Ended(a)
    /\ exposed' = IF ~rows'[r].present /\ AwaitsDriftCheck(r)
                  THEN exposed \cup {<<"removed", r>>} ELSE exposed
    /\ UNCHANGED <<seq, edges, docs, src, msgs, regs, used>>

-----------------------------------------------------------------------------
(* Failures, leases and time *)

\* What releaseFailed does: a backoff, or none once the context has ended.
Released(a) ==
    /\ Unlocked({Id(a)})
    /\ \/ rows' = [rows EXCEPT ![Id(a)] = ReleaseFailed(@, Token(a))]
       \/ rows' = [rows EXCEPT ![Id(a)] = Release(@, Token(a))]
    /\ Ended(a)

\* A statement, a fetch or a request fails and ends the task; its mark stays.
FailTask(a) ==
    /\ tasks[a] # Idle /\ ~At(a, "write")
    /\ CanErr /\ Spend("errors")
    /\ Released(a)
    /\ UNCHANGED <<seq, edges, docs, src, msgs, regs, entries, exposed>>

\* A bulk request fails or has items rejected; any of the others is written.
FailBulk(a) ==
    /\ At(a, "write")
    /\ CanErr /\ Spend("errors")
    /\ \E S \in SUBSET FoundIn(tasks[a].out) : docs' = WrittenDocs(Id(a), S, tasks[a])
    /\ Released(a)
    /\ UNCHANGED <<seq, edges, src, msgs, regs, entries, exposed>>

\* The process stops, or a failed task's release fails too: only the lease
\* ends its ownership.
CrashTask(a) ==
    /\ tasks[a] # Idle
    /\ CanCrash /\ Spend("crashes")
    /\ Ended(a)
    /\ UNCHANGED <<seq, rows, edges, docs, src, msgs, regs, entries, exposed>>

\* buildRenewal's tick, for a build not yet finishing.
RenewTick(a) ==
    /\ tasks[a] # Idle
    /\ tasks[a].entry.kind = "build" /\ ~At(a, "finish") /\ ~At(a, "drop")
    /\ Holds(rows[Id(a)], Token(a)) /\ ~rows[Id(a)].live
    /\ Unlocked({Id(a)})
    /\ rows' = [rows EXCEPT ![Id(a)] = Renew(@, Token(a))]
    /\ UNCHANGED <<seq, edges, docs, src, msgs, regs, entries, tasks, used, exposed>>

\* Who has claimed work on r to do or to submit: <<where, which, entry>>.
Holders(r) ==
    {h \in ({<<"queue", 0, e>> : e \in entries}
            \cup (UNION {{<<"call", g.draw, e>> : e \in g.claims} : g \in regs})
            \cup {<<"task", a, tasks[a].entry>> : a \in {b \in Actors : tasks[b] # Idle}}) : h[3].r = r}

Alive(r) == \E h \in Holders(r) : h[3].token = rows[r].owner

Expire(r) == rows' = [rows EXCEPT ![r].live = FALSE]

\* A lease runs out while its owner is stalled, queued or waiting its turn.
LeaseLapses(r) ==
    /\ rows[r].live /\ Alive(r)
    /\ used.lapses < MaxLapses /\ Spend("lapses")
    /\ Expire(r)
    /\ UNCHANGED <<seq, edges, docs, src, msgs, regs, entries, tasks, exposed>>

\* The lease of an owner that is no more.
DeadLeaseExpires(r) ==
    /\ rows[r].live /\ ~Alive(r)
    /\ Expire(r)
    /\ UNCHANGED <<seq, edges, docs, src, msgs, regs, entries, tasks, used, exposed>>

BackoffElapses(r) ==
    /\ rows[r].waiting
    /\ rows' = [rows EXCEPT ![r].waiting = FALSE]
    /\ UNCHANGED <<seq, edges, docs, src, msgs, regs, entries, tasks, used, exposed>>

\* Elasticsearch forgets a deleted document's version after index.gc_deletes,
\* taken to outlast every request sent below it.
ForgetDelete(r, v) ==
    /\ docs[r][v].ver > 0 /\ ~docs[r][v].body.found
    /\ \A a \in Actors : tasks[a] # Idle /\ Id(a) = r =>
          tasks[a].idx = 0 \/ tasks[a].idx >= docs[r][v].ver
    /\ used.forgets < MaxForgets /\ Spend("forgets")
    /\ docs' = [docs EXCEPT ![r][v].ver = 0]
    /\ UNCHANGED <<seq, rows, edges, src, msgs, regs, entries, tasks, exposed>>

-----------------------------------------------------------------------------
(* Specification *)

\* Settled resources start registered, built and clean: each drew one number
\* for its registration and one for its build.
Init ==
    /\ used \in [setup : {Setups[i] : i \in DOMAIN Setups}, workers : SUBSET Pool, changes : {0}, errors : {0},
                crashes : {0}, lapses : {0}, sheds : {0}, forgets : {0}]
    /\ Cardinality(Workers) = used.setup.workers
    /\ LET N == Cardinality(Settled)
           built(r) == N + Nth(Settled, r)
       IN
       /\ seq = 2 * N
       /\ src = [r \in Resources |->
            IF r \in Settled THEN [n |-> 1, vs |-> Versions, refs |-> InitRefs[r], ups |-> {}]
            ELSE NoSource]
       /\ rows = [r \in Resources |->
            IF r \in Settled
            THEN [BlankRow EXCEPT !.present = TRUE, !.version = IF r \in Versioned THEN 1 ELSE 0,
                    !.buildIdx = built(r), !.staleSeq = Nth(Settled, r),
                    !.changeSeq = Nth(Settled, r)]
            ELSE BlankRow]
       /\ edges = [r \in Resources |-> [v \in Versions |->
            IF r \in Settled THEN [stamp |-> built(r), kids |-> InitRefs[r]] ELSE NoEdges]]
       /\ docs = [r \in Resources |-> [v \in Versions |->
            IF r \in Settled
            THEN [ver |-> built(r), body |-> [found |-> TRUE, n |-> 1, kids |-> InitRefs[r] \X {1}]]
            ELSE [ver |-> 0, body |-> NoBody]]]
       /\ msgs = {} /\ regs = {} /\ entries = {}
       /\ tasks = [a \in Actors |-> Idle]
       /\ exposed = {}

Register(g) ==
    RegCommit(g) \/ RegAbort(g) \/ RegFanout(g) \/ RegMark(g) \/ RegFanoutFails(g) \/ RegCrash(g)

BuildStep(a) ==
    \/ BeginBuild(a) \/ FetchRoot(a) \/ FetchRelated(a) \/ BulkUpsert(a) \/ DeleteNil(a)
    \/ ReplaceEdges(a) \/ ScheduleParents(a) \/ CheckDrift(a) \/ Remark(a) \/ Finish(a)

DeleteStep(a) == BeginDelete(a) \/ DeleteEach(a) \/ RemoveResource(a) \/ DropRow(a)

TaskStep(a) == BuildStep(a) \/ DeleteStep(a)

TaskEvent(a) == FailTask(a) \/ FailBulk(a) \/ CrashTask(a) \/ RenewTick(a)

RowEvent(r) ==
    LeaseLapses(r) \/ DeadLeaseExpires(r) \/ BackoffElapses(r)
        \/ \E v \in Versions : ForgetDelete(r, v)

\* Nothing is under way and no row is marked.
Quiet ==
    /\ msgs = {} /\ regs = {} /\ entries = {}
    /\ \A a \in Actors : tasks[a] = Idle
    /\ \A r \in Resources : ~rows[r].stale

Rest == Quiet /\ UNCHANGED vars

Next ==
    \/ \E r \in Resources : Change(r) \/ RowEvent(r)
    \/ RegBegin
    \/ \E g \in regs : Register(g)
    \/ SweepList
    \/ \E e \in entries : Shed(e) \/ LoseEntry(e) \/ \E a \in Actors : Take(a, e) \/ TakeFails(a, e)
    \/ \E a \in Actors : TaskStep(a) \/ TaskEvent(a)
    \/ Rest

Spec == Init /\ [][Next]_vars

\* Callers retry what they have not registered, a registration runs to its
\* end, workers and the sweep keep running, and time passes.
Fairness ==
    /\ WF_vars(RegBegin)
    /\ WF_vars(\E g \in regs : RegCommit(g) \/ RegFanout(g) \/ RegMark(g))
    /\ WF_vars(SweepList)
    /\ \A a \in Pool \cup {Sweeper} :
          WF_vars(a \in Actors /\ (TaskStep(a) \/ \E e \in entries : Take(a, e)))
    /\ \A r \in Resources : WF_vars(DeadLeaseExpires(r)) /\ WF_vars(BackoffElapses(r))

FairSpec == Spec /\ Fairness

-----------------------------------------------------------------------------
(* Properties *)

\* Equality of two documents but for the children W exposes.
SameBut(W, body, other) ==
    LET shown(b) == {k \in b.kids : \A w \in W : <<w, k[1]>> \notin exposed} IN
    body.found = other.found /\ body.n = other.n /\ shown(body) = shown(other)

\* Once nothing is under way and no row is marked, every document says what a
\* build run now would say: no interleaving of registrations, builds, deletes,
\* sweeps, lapsed leases, failures and crashes loses a change.  Children that
\* may have passed their Parent by in one of Windows are left out.
Converged ==
    Quiet => \A r \in Resources, v \in Versions :
               SameBut(Windows, docs[r][v].body, Truth(r, v))

\* The same, leaving out only the windows ADR 0002 says the second fanout
\* leaves open: "If its drift check runs after the registration commits, it
\* sees the change and re-marks the Parent."
ConvergedAsDocumented ==
    Quiet => \A r \in Resources, v \in Versions :
               SameBut({"fanout", "removed"}, docs[r][v].body, Truth(r, v))

\* Once nothing is under way, every child a document shows has a stored edge,
\* so its next change reaches the document.
EdgesCoverDocs ==
    Quiet => \A r \in Resources, v \in Versions :
               Names(docs[r][v].body) \subseteq edges[r][v].kids

\* A row without a mark never has a document older than the version it has
\* registered: a mark is cleared only by a build that fetched after it.
CleanRowIsServed ==
    \A r \in Resources, v \in Versions :
        rows[r].present /\ ~rows[r].stale /\ docs[r][v].body.found =>
            docs[r][v].body.n >= rows[r].version

\* While no lease has lapsed under a working owner, a row's work is in one
\* place only: queued, listed by the sweep, being done or about to be
\* submitted, under the row's own token.
OneHolder(r) ==
    /\ \A h \in Holders(r) : h[3].token = rows[r].owner
    /\ Cardinality(Holders(r)) <= 1

\* A claimed row has one live owner, unless its lease lapsed, and at least
\* one, unless something crashed: no refusal, failure or finish forgets a claim
\* and leaves it to the lease, or hands it to two.
OwnedOnce ==
    \A r \in Resources :
        /\ used.lapses = 0 => OneHolder(r)
        /\ used.crashes = 0 /\ rows[r].owner # 0 => Alive(r)

\* Every change is eventually served: when the source stops changing and
\* failures stop, the system comes to rest for good.
Settles == <>[]Quiet

=============================================================================
