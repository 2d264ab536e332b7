---------------------------- MODULE IndexerProofs ----------------------------
(***************************************************************************)
(* Proofs about Indexer, for any number of resources, Schema Versions,     *)
(* workers and calls in flight, any source and any bounds: its state is    *)
(* well formed, no row's claimed work is done by two or forgotten, and a   *)
(* mark is cleared only once every document of the resource is at least as *)
(* new as the change the mark stands for, and no write still under way can *)
(* take it back, whatever leases lapse and builds overlap.                 *)
(***************************************************************************)
EXTENDS Indexer, BuildSequenceProofs

-----------------------------------------------------------------------------
(* What the statements on one resources row do to its columns *)

\* A row that is missing has no owner and no mark; a mark has a number.
Formed(row) ==
    /\ row \in Row
    /\ ~row.present => row.owner = 0 /\ ~row.stale
    /\ row.stale => row.staleSeq # 0

\* A missing row.
LEMMA BlankRowFormed == Formed(BlankRow) /\ BlankRow.owner = 0 /\ BlankRow.staleSeq = 0 /\ ~BlankRow.live
  BY DEF BlankRow, Row, Formed

\* A mark puts its number on the row; it becomes the owner of a row that has
\* none or whose owner's lease ran out, and of no other.
LEMMA MarkRowFacts ==
    ASSUME NEW row \in Row, NEW s \in Nat \ {0}
    PROVE  LET new == MarkRow(row, s)
           IN  /\ Formed(new) /\ new.present /\ new.stale /\ new.staleSeq = s
               /\ new.version = row.version /\ new.changeSeq = row.changeSeq
               /\ IF Claimable(row) THEN new.owner = s /\ new.live
                  ELSE new.owner = row.owner /\ new.live = row.live
  BY DEF MarkRow, ClaimAt, Row, Formed

\* So does an accepted item, and it registers its version.
LEMMA RegisterItemFacts ==
    ASSUME NEW row \in Row, NEW item \in [deleted : BOOLEAN, version : Nat], NEW s \in Nat \ {0}
    PROVE  LET new == RegisterItem(row, item, s)
           IN  /\ Formed(new) /\ new.present /\ new.stale /\ new.staleSeq = s /\ new.changeSeq = s
               /\ new.version \in {0, row.version, item.version}
               /\ new.deleted = item.deleted
               /\ IF Claimable(row) THEN new.owner = s /\ new.live
                  ELSE new.owner = row.owner /\ new.live = row.live
  BY DEF RegisterItem, ClaimAt, Row, Formed

\* The sweep owns what it lists at the row's own mark.
LEMMA SweepClaimFacts ==
    ASSUME NEW row, Formed(row), Sweepable(row)
    PROVE  LET new == SweepClaim(row)
           IN  /\ Formed(new) /\ new.owner = row.staleSeq /\ new.owner # 0 /\ new.live
               /\ new.staleSeq = row.staleSeq /\ new.present /\ new.stale
               /\ new.version = row.version /\ Claimable(row)
  BY DEF SweepClaim, Sweepable, Row, Formed

\* A renewal changes the lease of the row's own owner only.
LEMMA RenewFacts ==
    ASSUME NEW row, Formed(row), NEW token \in Nat
    PROVE  LET new == Renew(row, token)
           IN  /\ Formed(new) /\ new.owner = row.owner /\ new.staleSeq = row.staleSeq
               /\ new.present = row.present /\ new.stale = row.stale /\ new.version = row.version
               /\ new.live = row.live \/ (Holds(row, token) /\ new.live)
               /\ row.live => new.live
  BY DEF Renew, Holds, Row, Formed

\* A release takes the ownership from its own owner only.
RowReleased(row, new, token) ==
    /\ Formed(new) /\ new.staleSeq = row.staleSeq
    /\ new.present = row.present /\ new.stale = row.stale /\ new.version = row.version
    /\ IF Holds(row, token) THEN new.owner = 0 /\ ~new.live
       ELSE new.owner = row.owner /\ new.live = row.live

\* Whether the owner is backed off or not.
LEMMA ReleaseFacts ==
    ASSUME NEW row, Formed(row), NEW token \in Nat
    PROVE  RowReleased(row, Release(row, token), token) /\ RowReleased(row, ReleaseFailed(row, token), token)
  <1>1. (BacksOff(row, token) \/ row.waiting) \in BOOLEAN
    BY DEF BacksOff
  <1>2. RowReleased(row, Release(row, token), token)
    BY DEF RowReleased, Release, Disowned, Holds, Row, Formed
  <1>. DEFINE new == ReleaseFailed(row, token)
  <1>3. CASE Holds(row, token)
    <2>1. PICK b \in BOOLEAN : new = [Disowned(row) EXCEPT !.waiting = b]
      BY <1>1, <1>3 DEF ReleaseFailed
    <2>2. new = [[row EXCEPT !.owner = 0, !.live = FALSE] EXCEPT !.waiting = b]
      BY <2>1 DEF Disowned
    <2>3. row \in Row /\ row.present
      BY <1>3 DEF Formed, Holds
    <2>. HIDE DEF new
    <2>4. new \in Row
      BY <2>2, <2>3 DEF Row
    <2>5. new.owner = 0 /\ new.live = FALSE /\ new.present = row.present /\ new.staleSeq = row.staleSeq
      BY <2>2, <2>3 DEF Row
    <2>6. new.stale = row.stale /\ new.version = row.version
      BY <2>2, <2>3 DEF Row
    <2>7. RowReleased(row, new, token)
      BY <2>3, <2>4, <2>5, <2>6, <1>3 DEF Formed, RowReleased
    <2>. QED  BY <1>2, <2>7 DEF new
  <1>4. CASE ~Holds(row, token)
    BY <1>2, <1>4 DEF ReleaseFailed, Formed, RowReleased
  <1>. QED  BY <1>3, <1>4

\* A build or a delete that begins puts its Build Sequence on the row and
\* renews its lease.
RowBegun(row, new, token) ==
    /\ Formed(new) /\ new.owner = row.owner /\ new.staleSeq = row.staleSeq
    /\ new.stale = row.stale /\ new.version = row.version /\ (row.present => new.present)
    /\ new.live = row.live \/ (Holds(row, token) /\ new.live)
    /\ row.live => new.live

\* Of either.
LEMMA BeginRowFacts ==
    ASSUME NEW row, Formed(row), NEW idx \in Nat, NEW token \in Nat
    PROVE  RowBegun(row, BeginBuildRow(row, idx, token), token) /\ RowBegun(row, BeginDeleteRow(row, idx, token), token)
  BY DEF RowBegun, BeginBuildRow, BeginDeleteRow, Renew, Holds, Row, Formed

\* Finishing at the captured mark clears it and the ownership; a moved mark is
\* owned again by its owner, and left alone by anyone else.
LEMMA FinishOwnedFacts ==
    ASSUME NEW row, Formed(row), NEW mark \in Nat, NEW token \in Nat
    PROVE  LET new == FinishOwned(row, mark, token)
           IN  /\ Formed(new) /\ new.staleSeq = row.staleSeq /\ new.present = row.present
               /\ new.version = row.version
               /\ \/ row.present /\ row.staleSeq = mark /\ new.owner = 0 /\ ~new.stale
                  \/ /\ Holds(row, token) /\ row.staleSeq # mark
                     /\ new.owner = row.staleSeq /\ new.live /\ new.stale = row.stale
                  \/ /\ ~Holds(row, token) /\ new = row
                     /\ row.present => row.staleSeq # mark
  BY DEF FinishOwned, Cleared, Reclaimed, Disowned, Holds, Row, Formed

\* The same of a delete, which removes the row with its mark.
LEMMA DeleteRowFacts ==
    ASSUME NEW row, Formed(row), NEW mark \in Nat, NEW token \in Nat
    PROVE  LET new == DeleteRowIfSeq(row, mark, token)
           IN  /\ Formed(new)
               /\ \/ new = BlankRow /\ (~row.present \/ row.staleSeq = mark)
                  \/ /\ Holds(row, token) /\ row.staleSeq # mark /\ new.present
                     /\ new.owner = row.staleSeq /\ new.live /\ new.staleSeq = row.staleSeq
                     /\ new.stale = row.stale /\ new.version = row.version
                  \/ /\ ~Holds(row, token) /\ row.present /\ row.staleSeq # mark /\ new.present
                     /\ new.owner = row.owner /\ new.live = row.live /\ new.staleSeq = row.staleSeq
                     /\ new.stale = row.stale /\ new.version = row.version
  BY BlankRowFormed DEF DeleteRowIfSeq, Reclaimed, Holds, Row, Formed

\* A token is the mark's number when the mark claimed the row.
LEMMA ClaimTokenFacts ==
    ASSUME NEW row \in Row
    PROVE  /\ ClaimToken(row) \in Nat
           /\ ClaimToken(row) # 0 <=> row.owner = row.staleSeq /\ row.owner # 0
           /\ ClaimToken(row) # 0 => ClaimToken(row) = row.owner
  BY DEF ClaimToken, Row

\* A follow-up is of the row's moved mark, for its owner.
LEMMA FollowUpFacts ==
    ASSUME NEW row \in Row, NEW mark, NEW token
    PROVE  /\ FollowUp(row, mark, token) \in Nat
           /\ FollowUp(row, mark, token) # 0 <=> Holds(row, token) /\ row.staleSeq # mark /\ row.staleSeq # 0
           /\ FollowUp(row, mark, token) # 0 => FollowUp(row, mark, token) = row.staleSeq
  BY DEF FollowUp, Row

-----------------------------------------------------------------------------
(* Facts about setups and numbers *)

\* What IndexerAssumption says of the setup that was chosen.
LEMMA SetupFacts ==
    ASSUME used.setup \in {Setups[i] : i \in DOMAIN Setups}
    PROVE  /\ Versions \subseteq Nat /\ IsFiniteSet(Versions) /\ Versions # {}
           /\ Versioned \subseteq Resources /\ Settled \subseteq Resources
           /\ Existences \in [Resources -> SUBSET SUBSET Versions]
           /\ RefChoices \in [Resources -> SUBSET SUBSET Resources]
           /\ UpChoices \in [Resources -> SUBSET SUBSET Resources]
           /\ InitRefs \in [Resources -> SUBSET Settled]
           /\ MaxChanges \in Nat /\ MaxErrors \in Nat /\ MaxCrashes \in Nat /\ MaxLapses \in Nat
           /\ MaxSheds \in Nat /\ MaxForgets \in Nat
           /\ Resources \subseteq Nat /\ IsFiniteSet(Resources)
  <1>1. IsSetup(used.setup)
    BY IndexerAssumption
  <1>2. \A f \in {"changes", "errors", "crashes", "lapses", "sheds", "forgets"} : used.setup[f] \in Nat
    BY <1>1 DEF IsSetup
  <1>. QED  BY <1>1, <1>2, IndexerAssumption
            DEF IsSetup, Versions, Versioned, Settled, Existences, RefChoices, UpChoices, InitRefs, MaxChanges,
                MaxErrors, MaxCrashes, MaxLapses, MaxSheds, MaxForgets

\* The setup is chosen once, and what is spent of its bounds stays within them.
LEMMA SetupStays ==
    ASSUME TypeOK, Next
    PROVE  /\ used' \in Used' /\ used'.setup = used.setup /\ used'.workers = used.workers
           /\ used'.lapses = 0 => used.lapses = 0
           /\ used'.crashes = 0 => used.crashes = 0
  <1>. DEFINE Spends ==
          \/ used' = used
          \/ used.changes < MaxChanges /\ used' = [used EXCEPT !.changes = @ + 1]
          \/ used.errors < MaxErrors /\ used' = [used EXCEPT !.errors = @ + 1]
          \/ used.crashes < MaxCrashes /\ used' = [used EXCEPT !.crashes = @ + 1]
          \/ used.lapses < MaxLapses /\ used' = [used EXCEPT !.lapses = @ + 1]
          \/ used.sheds < MaxSheds /\ used' = [used EXCEPT !.sheds = @ + 1]
          \/ used.forgets < MaxForgets /\ used' = [used EXCEPT !.forgets = @ + 1]
  <1>1. Spends
    <2>1. ASSUME NEW r \in Resources, Change(r) \/ RowEvent(r)  PROVE Spends
      BY <2>1 DEF Change, RowEvent, LeaseLapses, DeadLeaseExpires, BackoffElapses, ForgetDelete, Spend
    <2>2. ASSUME NEW g \in regs, Register(g)  PROVE Spends
      BY <2>2 DEF Register, RegCommit, RegAbort, RegFanout, RegMark, RegFanoutFails, RegCrash, Spend, CanErr,
                  CanCrash
    <2>3. ASSUME NEW e \in entries, Shed(e) \/ LoseEntry(e) \/ \E a \in Actors : Take(a, e) \/ TakeFails(a, e)
          PROVE  Spends
      BY <2>3 DEF Shed, LoseEntry, Take, TakeFails, Spend, CanErr, CanCrash
    <2>4. ASSUME NEW a \in Actors, TaskStep(a)  PROVE Spends
      BY <2>4 DEF TaskStep, BuildStep, DeleteStep, BeginBuild, FetchRoot, FetchRelated, BulkUpsert, DeleteNil,
                  DeleteDoc, ReplaceEdges, ScheduleParents, CheckDrift, Remark, Finish, BeginDelete,
                  DeleteEach, RemoveResource, DropRow
    <2>5. ASSUME NEW a \in Actors, TaskEvent(a)  PROVE Spends
      BY <2>5 DEF TaskEvent, FailTask, FailBulk, CrashTask, RenewTick, Spend, CanErr, CanCrash
    <2>6. ASSUME RegBegin \/ SweepList \/ Rest  PROVE Spends
      BY <2>6 DEF RegBegin, SweepList, Rest, vars
    <2>. QED  BY <2>1, <2>2, <2>3, <2>4, <2>5, <2>6 DEF Next
  <1>2. used \in Used
    BY DEF TypeOK
  <1>3. /\ MaxChanges \in Nat /\ MaxErrors \in Nat /\ MaxCrashes \in Nat /\ MaxLapses \in Nat
        /\ MaxSheds \in Nat /\ MaxForgets \in Nat
    BY <1>2, SetupFacts DEF Used
  <1>4. used'.setup = used.setup /\ used'.workers = used.workers
    BY <1>1, <1>2 DEF Used
  <1>5. (used'.lapses = 0 => used.lapses = 0) /\ (used'.crashes = 0 => used.crashes = 0)
    BY <1>1, <1>2, <1>3 DEF Used
  <1>6. used' \in Used
    BY <1>1, <1>2, <1>3 DEF Used
  <1>7. Used' = Used
    BY <1>4 DEF Used, MaxChanges, MaxErrors, MaxCrashes, MaxLapses, MaxSheds, MaxForgets
  <1>. QED  BY <1>4, <1>5, <1>6, <1>7

\* So do the sets the state is made of.
LEMMA SetsStay ==
    ASSUME used'.setup = used.setup, used'.workers = used.workers
    PROVE  /\ Versions' = Versions /\ Workers' = Workers /\ Actors' = Actors
           /\ Source' = Source /\ Task' = Task
  <1>1. Versions' = Versions /\ Workers' = Workers
    BY DEF Versions, Workers
  <1>2. Source' = Source
    BY <1>1 DEF Source
  <1>. QED  BY <1>1, <1>2 DEF Actors, Task

\* The numbers a statement draws for the resources of S are 1 to |S| past the
\* last one drawn.
LEMMA NumberFacts ==
    ASSUME NEW S \in SUBSET Resources, NEW r \in S
    PROVE  /\ Cardinality(S) \in Nat /\ Nth(S, r) \in Nat
           /\ 1 <= Nth(S, r) /\ Nth(S, r) <= Cardinality(S)
  <1>1. IsFiniteSet(S) /\ S \in SUBSET Nat
    BY IndexerAssumption, FS_Subset
  <1>. QED  BY <1>1, NthFacts

\* How many there are.
LEMMA CardFacts ==
    ASSUME NEW S \in SUBSET Resources
    PROVE  IsFiniteSet(S) /\ Cardinality(S) \in Nat /\ (S # {} => Cardinality(S) >= 1)
  <1>1. IsFiniteSet(S)
    BY IndexerAssumption, FS_Subset
  <1>2. Cardinality(S) \in Nat
    BY <1>1, FS_CardinalityType
  <1>3. S # {} => Cardinality(S) # 0
    BY <1>1, FS_EmptySet
  <1>. QED  BY <1>1, <1>2, <1>3

-----------------------------------------------------------------------------
(* The state is well formed *)

DocTable == [Resources -> [Versions -> Doc]]
EdgeTable == [Resources -> [Versions -> EdgeSet]]
RowsFormed == rows \in [Resources -> Row] /\ \A r \in Resources : Formed(rows[r])

\* What there is to know of a task that is under way.
LEMMA TaskFacts ==
    ASSUME TypeOK, NEW a \in Actors, tasks[a] # Idle \/ tasks[a].pc # "idle"
    PROVE  /\ tasks[a] \in Task /\ tasks[a] # Idle
           /\ Id(a) \in Resources /\ Token(a) \in Nat /\ tasks[a].entry \in Entry
           /\ tasks[a].idx \in Nat /\ tasks[a].mark \in Nat /\ tasks[a].left \subseteq Versions
           /\ tasks[a].seen \in Source /\ tasks[a].out \in [Versions -> Body]
           /\ tasks[a].ups \subseteq Resources /\ tasks[a].pc \in PC /\ tasks[a].pc # "idle"
  <1>1. tasks[a] \in Task \cup {Idle}
    BY DEF TypeOK
  <1>2. tasks[a] \in Task
    BY <1>1 DEF Idle
  <1>3. tasks[a].pc # "idle"
    BY <1>2 DEF Task, PC
  <1>4. tasks[a].entry \in Entry
    BY <1>2 DEF Task
  <1>. QED  BY <1>2, <1>3, <1>4 DEF Task, Id, Token, Entry, Idle

\* A task is replaced by another, or ends.
LEMMA TaskPut ==
    ASSUME TypeOK, NEW a \in Actors, NEW t \in Task \cup {Idle}, tasks' = [tasks EXCEPT ![a] = t]
    PROVE  /\ tasks' \in [Actors -> Task \cup {Idle}]
           /\ tasks'[a] = t /\ \A b \in Actors \ {a} : tasks'[b] = tasks[b]
  BY DEF TypeOK

\* A row is replaced by another.
LEMMA RowPut ==
    ASSUME RowsFormed, NEW r \in Resources, NEW row, Formed(row), rows' = [rows EXCEPT ![r] = row]
    PROVE  /\ RowsFormed' /\ rows'[r] = row /\ \A x \in Resources \ {r} : rows'[x] = rows[x]
  BY DEF RowsFormed, Formed

\* What a plan fetches is a document's body.
LEMMA FetchedType ==
    ASSUME TypeOK, NEW r \in Resources, NEW v, NEW seen \in Source
    PROVE  Fetched(r, v, seen) \in Body
  <1>1. Related(r, seen) \subseteq Resources
    BY DEF Related
  <1>2. \A c \in Related(r, seen) : src[c].n \in Nat
    BY <1>1 DEF TypeOK, Source
  <1>3. {<<c, src[c].n>> : c \in Related(r, seen)} \subseteq Resources \X Nat
    BY <1>1, <1>2
  <1>4. seen.n \in Nat
    BY DEF Source
  <1>. QED  BY <1>3, <1>4 DEF Fetched, Body, NoBody

\* Writes of a task keep the table of documents one.
LEMMA WrittenType ==
    ASSUME TypeOK, NEW r \in Resources, NEW S, NEW t, t.idx \in Nat, t.out \in [Versions -> Body]
    PROVE  WrittenDocs(r, S, t) \in DocTable
  <1>1. docs \in DocTable
    BY DEF TypeOK, DocTable
  <1>. DEFINE new == [v \in Versions |-> IF v \in S THEN Written(docs[r][v], t.out[v], t.idx) ELSE docs[r][v]]
  <1>2. \A v \in Versions : docs[r][v] \in Doc /\ t.out[v] \in Body
    BY <1>1 DEF DocTable
  <1>3. \A v \in Versions : Written(docs[r][v], t.out[v], t.idx) \in Doc
    BY <1>2 DEF Written, Doc
  <1>4. new \in [Versions -> Doc]
    BY <1>2, <1>3
  <1>5. WrittenDocs(r, S, t) = [docs EXCEPT ![r] = new]
    BY DEF WrittenDocs
  <1>. HIDE DEF new
  <1>. QED  BY <1>1, <1>4, <1>5 DEF DocTable

\* The steps of a task that write no row.
LEMMA TaskTypes ==
    ASSUME TypeOK, NEW a \in Actors,
           \/ FetchRoot(a) \/ FetchRelated(a) \/ BulkUpsert(a) \/ DeleteNil(a) \/ ReplaceEdges(a)
           \/ CheckDrift(a) \/ DeleteEach(a) \/ RemoveResource(a)
    PROVE  /\ UNCHANGED <<seq, rows, src, msgs, regs, entries, used, exposed>>
           /\ docs' \in DocTable /\ edges' \in EdgeTable
           /\ tasks[a] # Idle
           /\ \E t \in Task : tasks' = [tasks EXCEPT ![a] = t] /\ t.entry = tasks[a].entry
  <1>1. /\ docs \in DocTable /\ edges \in EdgeTable
        /\ tasks[a].pc \in {"root", "related", "write", "nils", "edges", "drift", "esdelete", "unlink"}
    BY DEF TypeOK, DocTable, EdgeTable, FetchRoot, FetchRelated, BulkUpsert, DeleteNil, ReplaceEdges,
           CheckDrift, DeleteEach, RemoveResource, At
  <1>2. /\ tasks[a] \in Task /\ tasks[a] # Idle /\ Id(a) \in Resources
        /\ tasks[a].idx \in Nat /\ tasks[a].left \subseteq Versions
        /\ tasks[a].seen \in Source /\ tasks[a].out \in [Versions -> Body] /\ tasks[a].ups \subseteq Resources
    BY <1>1, TaskFacts
  <1>. DEFINE Goal(t) == tasks' = [tasks EXCEPT ![a] = t]
  <1>3. CASE FetchRoot(a)
    <2>. DEFINE t == [tasks[a] EXCEPT !.pc = "related", !.seen = src[Id(a)]]
    <2>1. src[Id(a)] \in Source
      BY <1>2 DEF TypeOK
    <2>2. t \in Task /\ t.entry = tasks[a].entry
      BY <2>1, <1>2 DEF Task, PC
    <2>3. UNCHANGED <<seq, rows, edges, docs, src, msgs, regs, entries, used, exposed>> /\ Goal(t)
      BY <1>3 DEF FetchRoot
    <2>. HIDE DEF t
    <2>. QED  BY <2>2, <2>3, <1>1, <1>2
  <1>4. CASE FetchRelated(a)
    <2>. DEFINE v == LeastOf(tasks[a].left)
                body == Fetched(Id(a), v, tasks[a].seen)
                out == [tasks[a].out EXCEPT ![v] = body]
                left == tasks[a].left \ {v}
                next == IF left # {} THEN "root" ELSE IF FoundIn(out) = {} THEN "esdelete" ELSE "write"
                left2 == IF left = {} THEN Versions ELSE left
                ups == IF body.found THEN tasks[a].ups \cup tasks[a].seen.ups ELSE tasks[a].ups
                t == [tasks[a] EXCEPT !.pc = next, !.out = out, !.left = left2, !.ups = ups]
    <2>1. body \in Body
      BY <1>2, FetchedType
    <2>2. out \in [Versions -> Body]
      BY <2>1, <1>2
    <2>3. left2 \subseteq Versions /\ next \in PC
      BY <1>2 DEF PC
    <2>4. ups \subseteq Resources
      BY <1>2 DEF Source
    <2>5. UNCHANGED <<seq, rows, edges, docs, src, msgs, regs, entries, used, exposed>> /\ Goal(t)
      BY <1>4 DEF FetchRelated
    <2>. HIDE DEF v, body, out, left, next, left2, ups
    <2>6. t \in Task /\ t.entry = tasks[a].entry
      BY <2>2, <2>3, <2>4, <1>2 DEF Task
    <2>. QED  BY <2>5, <2>6, <1>1, <1>2
  <1>5. CASE BulkUpsert(a)
    <2>. DEFINE nils == Versions \ FoundIn(tasks[a].out)
                next == IF nils = {} THEN "edges" ELSE "nils"
                t == [tasks[a] EXCEPT !.pc = next, !.left = nils]
    <2>1. UNCHANGED <<seq, rows, edges, src, msgs, regs, entries, used, exposed>> /\ Goal(t)
          /\ docs' = WrittenDocs(Id(a), FoundIn(tasks[a].out), tasks[a])
      BY <1>5 DEF BulkUpsert
    <2>2. docs' \in DocTable
      BY <2>1, <1>2, WrittenType
    <2>3. nils \subseteq Versions /\ next \in PC
      BY DEF PC
    <2>. HIDE DEF nils, next
    <2>4. t \in Task /\ t.entry = tasks[a].entry
      BY <2>3, <1>2 DEF Task
    <2>. QED  BY <2>1, <2>2, <2>4, <1>1, <1>2
  <1>6. CASE DeleteNil(a) \/ DeleteEach(a)
    <2>1. PICK after \in {"edges", "unlink"} : DeleteDoc(a, after)
      BY <1>6 DEF DeleteNil, DeleteEach
    <2>. DEFINE v == LeastOf(tasks[a].left)
                left == tasks[a].left \ {v}
                u == [tasks[a] EXCEPT !.out[v] = NoBody]
                next == IF left = {} THEN after ELSE tasks[a].pc
                t == [tasks[a] EXCEPT !.pc = next, !.left = left]
    <2>2. UNCHANGED <<seq, rows, edges, src, msgs, regs, entries, used, exposed>> /\ Goal(t)
          /\ docs' = WrittenDocs(Id(a), {v}, u)
      BY <2>1 DEF DeleteDoc
    <2>3. u.idx \in Nat /\ u.out \in [Versions -> Body]
      <3>1. [tasks[a].out EXCEPT ![v] = NoBody] \in [Versions -> Body]
        BY <1>2 DEF NoBody, Body
      <3>2. u.out = [tasks[a].out EXCEPT ![v] = NoBody] /\ u.idx = tasks[a].idx
        BY <1>2 DEF Task
      <3>. QED  BY <3>1, <3>2, <1>2
    <2>4. left \subseteq Versions /\ next \in PC
      BY <1>1, <1>2 DEF PC
    <2>. HIDE DEF v, left, next, u
    <2>5. docs' \in DocTable
      BY <2>2, <2>3, <1>2, WrittenType
    <2>6. t \in Task /\ t.entry = tasks[a].entry
      BY <2>4, <1>2 DEF Task
    <2>. QED  BY <2>2, <2>5, <2>6, <1>1, <1>2
  <1>7. CASE ReplaceEdges(a)
    <2>. DEFINE next == IF tasks[a].ups = {} THEN AfterParents(tasks[a]) ELSE "parents"
                set == [v \in Versions |-> ReplacedSet(edges[Id(a)][v], tasks[a].idx, Names(tasks[a].out[v]))]
                t == [tasks[a] EXCEPT !.pc = next]
    <2>1. UNCHANGED <<seq, rows, docs, src, msgs, regs, entries, used, exposed>> /\ Goal(t)
          /\ edges' = [edges EXCEPT ![Id(a)] = set]
      BY <1>7 DEF ReplaceEdges
    <2>2. next \in PC
      BY DEF PC, AfterParents
    <2>3. \A v \in Versions : edges[Id(a)][v] \in EdgeSet /\ Names(tasks[a].out[v]) \subseteq Resources
      <3>1. \A v \in Versions : tasks[a].out[v].kids \subseteq Resources \X Nat
        BY <1>2 DEF Body
      <3>2. \A v \in Versions : \A k \in tasks[a].out[v].kids : k[1] \in Resources
        BY <3>1
      <3>. QED  BY <3>2, <1>1, <1>2 DEF Names, EdgeTable
    <2>4. set \in [Versions -> EdgeSet]
      BY <2>3, <1>2 DEF ReplacedSet, EdgeSet
    <2>. HIDE DEF set, next
    <2>5. edges' \in EdgeTable
      BY <2>1, <2>4, <1>1, <1>2 DEF EdgeTable
    <2>6. t \in Task /\ t.entry = tasks[a].entry
      BY <2>2, <1>2 DEF Task
    <2>. QED  BY <2>1, <2>5, <2>6, <1>1, <1>2
  <1>8. CASE CheckDrift(a)
    <2>. DEFINE next == IF Drifted(tasks[a]) THEN "remark" ELSE "finish"
                t == [tasks[a] EXCEPT !.pc = next]
    <2>1. UNCHANGED <<seq, rows, edges, docs, src, msgs, regs, entries, used, exposed>> /\ Goal(t)
      BY <1>8 DEF CheckDrift
    <2>2. next \in PC
      BY DEF PC
    <2>. HIDE DEF next
    <2>3. t \in Task /\ t.entry = tasks[a].entry
      BY <2>2, <1>2 DEF Task
    <2>. QED  BY <2>1, <2>3, <1>1, <1>2
  <1>9. CASE RemoveResource(a)
    <2>. DEFINE set == [v \in Versions |-> RemovedSet(edges[Id(a)][v], tasks[a].idx)]
                t == [tasks[a] EXCEPT !.pc = "drop"]
    <2>1. UNCHANGED <<seq, rows, docs, src, msgs, regs, entries, used, exposed>> /\ Goal(t)
          /\ edges' = [edges EXCEPT ![Id(a)] = set]
      BY <1>9 DEF RemoveResource
    <2>2. set \in [Versions -> EdgeSet]
      BY <1>1, <1>2 DEF RemovedSet, EdgeSet, EdgeTable, NoEdges
    <2>. HIDE DEF set
    <2>3. edges' \in EdgeTable
      BY <2>1, <2>2, <1>1, <1>2 DEF EdgeTable
    <2>4. t \in Task /\ t.entry = tasks[a].entry
      BY <1>2 DEF Task, PC
    <2>. QED  BY <2>1, <2>3, <2>4, <1>1, <1>2
  <1>. QED  BY <1>3, <1>4, <1>5, <1>6, <1>7, <1>8, <1>9

\* Every variable is of its type after the step, while the sets the types are
\* made of have not moved.
StepTyped ==
    /\ seq' \in Nat /\ RowsFormed' /\ edges' \in EdgeTable /\ docs' \in DocTable
    /\ src' \in [Resources -> Source] /\ msgs' \subseteq Msg /\ regs' \subseteq Reg /\ entries' \subseteq Entry
    /\ tasks' \in [Actors -> Task \cup {Idle}] /\ exposed' \subseteq Windows \X Resources

\* What is left alone stays of its type.
LEMMA TypesBefore ==
    ASSUME TypeOK
    PROVE  /\ seq \in Nat /\ edges \in EdgeTable /\ docs \in DocTable
           /\ src \in [Resources -> Source] /\ msgs \subseteq Msg /\ regs \subseteq Reg
           /\ entries \subseteq Entry /\ tasks \in [Actors -> Task \cup {Idle}]
           /\ exposed \subseteq Windows \X Resources
           /\ used.setup \in {Setups[i] : i \in DOMAIN Setups}
  BY DEF TypeOK, EdgeTable, DocTable, Used

\* So the type invariant holds after a step whose variables are of their types.
LEMMA TypesAfter ==
    ASSUME TypeOK, Next, StepTyped
    PROVE  TypeOK'
  <1>1. used' \in Used' /\ used'.setup = used.setup /\ used'.workers = used.workers
    BY SetupStays
  <1>2. Versions' = Versions /\ Actors' = Actors /\ Source' = Source /\ Task' = Task
    BY <1>1, SetsStay
  <1>3. seq' \in Nat /\ rows' \in [Resources -> Row]
    BY DEF StepTyped, RowsFormed
  <1>4. edges' \in [Resources -> [Versions' -> EdgeSet]] /\ docs' \in [Resources -> [Versions' -> Doc]]
    BY <1>2 DEF StepTyped, EdgeTable, DocTable
  <1>5. src' \in [Resources -> Source'] /\ tasks' \in [Actors' -> Task' \cup {Idle}]
    BY <1>2 DEF StepTyped
  <1>6. msgs' \subseteq Msg /\ regs' \subseteq Reg /\ entries' \subseteq Entry /\ exposed' \subseteq Windows \X Resources
    BY DEF StepTyped
  <1>. QED  BY <1>1, <1>3, <1>4, <1>5, <1>6 DEF TypeOK

\* A row keeps its owner, its mark and its lease.
SameOwner(r) ==
    /\ rows'[r].owner = rows[r].owner /\ rows'[r].staleSeq = rows[r].staleSeq
    /\ rows[r].live => rows'[r].live

\* Every task goes on with the work it had, and none begins or ends.
SameWork ==
    \A a \in Actors : (tasks'[a] = Idle <=> tasks[a] = Idle) /\ (tasks[a] # Idle => tasks'[a].entry = tasks[a].entry)

\* The steps of a task that write no row leave the ownership alone.
LEMMA PlainStep ==
    ASSUME TypeOK, RowsFormed, NEW a \in Actors,
           \/ FetchRoot(a) \/ FetchRelated(a) \/ BulkUpsert(a) \/ DeleteNil(a) \/ ReplaceEdges(a)
           \/ CheckDrift(a) \/ DeleteEach(a) \/ RemoveResource(a)
    PROVE  /\ StepTyped /\ SameWork /\ \A r \in Resources : SameOwner(r)
           /\ UNCHANGED <<regs, entries>> /\ seq' = seq
  <1>1. /\ UNCHANGED <<seq, rows, src, msgs, regs, entries, used, exposed>>
        /\ docs' \in DocTable /\ edges' \in EdgeTable /\ tasks[a] # Idle
    BY TaskTypes
  <1>2. PICK t \in Task : tasks' = [tasks EXCEPT ![a] = t] /\ t.entry = tasks[a].entry
    BY TaskTypes
  <1>3. t # Idle
    BY <1>2 DEF Task, PC, Idle
  <1>4. tasks' \in [Actors -> Task \cup {Idle}] /\ tasks'[a] = t /\ \A b \in Actors \ {a} : tasks'[b] = tasks[b]
    BY <1>2, TaskPut
  <1>5. SameWork
    BY <1>1, <1>2, <1>3, <1>4 DEF SameWork
  <1>6. RowsFormed'
    BY <1>1 DEF RowsFormed
  <1>7. \A r \in Resources : SameOwner(r)
    BY <1>1 DEF SameOwner
  <1>. QED  BY <1>1, <1>4, <1>5, <1>6, <1>7, TypesBefore DEF StepTyped

\* So do the steps that begin a build or a delete: they renew its lease.
LEMMA BeginStep ==
    ASSUME TypeOK, RowsFormed, NEW a \in Actors, BeginBuild(a) \/ BeginDelete(a)
    PROVE  /\ StepTyped /\ SameWork /\ \A r \in Resources : SameOwner(r)
           /\ UNCHANGED <<regs, entries>> /\ seq' >= seq
  <1>1. tasks[a].pc \in {"begin", "begindelete"}
    BY DEF BeginBuild, BeginDelete, At
  <1>2. /\ tasks[a] \in Task /\ tasks[a] # Idle /\ Id(a) \in Resources /\ Token(a) \in Nat
    BY <1>1, TaskFacts
  <1>3. Formed(rows[Id(a)]) /\ rows[Id(a)].staleSeq \in Nat /\ seq \in Nat
    BY <1>2 DEF RowsFormed, Formed, Row, TypeOK
  <1>. PICK n \in Nat : n = seq + 1
    BY <1>3
  <1>4. UNCHANGED <<edges, docs, src, msgs, regs, entries, exposed>>
    BY DEF BeginBuild, BeginDelete
  <1>5. \E t \in Task : tasks' = [tasks EXCEPT ![a] = t] /\ t.entry = tasks[a].entry
    <2>1. CASE BeginBuild(a)
      <3>. DEFINE t == [tasks[a] EXCEPT !.pc = "root", !.idx = n, !.mark = rows[Id(a)].staleSeq]
      <3>1. t \in Task /\ t.entry = tasks[a].entry
        BY <1>2, <1>3 DEF Task, PC
      <3>2. tasks' = [tasks EXCEPT ![a] = t]
        BY <2>1 DEF BeginBuild
      <3>. HIDE DEF t
      <3>. QED  BY <3>1, <3>2
    <2>2. CASE BeginDelete(a) /\ tasks' = [tasks EXCEPT ![a] = [@ EXCEPT !.pc = "esdelete", !.idx = seq + 1]]
      <3>. DEFINE t == [tasks[a] EXCEPT !.pc = "esdelete", !.idx = n]
      <3>1. t \in Task /\ t.entry = tasks[a].entry
        BY <1>2, <1>3 DEF Task, PC
      <3>2. tasks' = [tasks EXCEPT ![a] = t]
        BY <2>2
      <3>. HIDE DEF t
      <3>. QED  BY <3>1, <3>2
    <2>3. CASE BeginDelete(a) /\ tasks' = [tasks EXCEPT ![a].pc = "drop"]
      <3>. DEFINE t == [tasks[a] EXCEPT !.pc = "drop"]
      <3>1. t \in Task /\ t.entry = tasks[a].entry
        BY <1>2, <1>3 DEF Task, PC
      <3>2. tasks' = [tasks EXCEPT ![a] = t]
        BY <2>3
      <3>. HIDE DEF t
      <3>. QED  BY <3>1, <3>2
    <2>. QED  BY <2>1, <2>2, <2>3 DEF BeginDelete
  <1>6. PICK t \in Task : tasks' = [tasks EXCEPT ![a] = t] /\ t.entry = tasks[a].entry
    BY <1>5
  <1>7. t # Idle
    BY <1>6 DEF Task, PC, Idle
  <1>8. tasks' \in [Actors -> Task \cup {Idle}] /\ tasks'[a] = t /\ \A b \in Actors \ {a} : tasks'[b] = tasks[b]
    BY <1>6, TaskPut
  <1>9. SameWork
    BY <1>2, <1>6, <1>7, <1>8 DEF SameWork
  <1>10. seq' \in {seq, seq + 1}
    BY DEF BeginBuild, BeginDelete
  <1>11. RowsFormed' /\ \A r \in Resources : SameOwner(r)
    <2>1. CASE rows' = rows
      BY <2>1 DEF RowsFormed, SameOwner
    <2>2. CASE rows' # rows
      <3>1. PICK new \in {BeginBuildRow(rows[Id(a)], n, Token(a)), BeginDeleteRow(rows[Id(a)], n, Token(a))} :
               rows' = [rows EXCEPT ![Id(a)] = new]
        BY <2>2 DEF BeginBuild, BeginDelete
      <3>2. /\ Formed(new) /\ new.owner = rows[Id(a)].owner /\ new.staleSeq = rows[Id(a)].staleSeq
            /\ rows[Id(a)].live => new.live
        <4>1. RowBegun(rows[Id(a)], new, Token(a))
          BY <1>2, <1>3, BeginRowFacts
        <4>. QED  BY <4>1 DEF RowBegun
      <3>3. RowsFormed' /\ rows'[Id(a)] = new /\ \A x \in Resources \ {Id(a)} : rows'[x] = rows[x]
        BY <3>1, <3>2, <1>2, RowPut
      <3>. QED  BY <3>2, <3>3 DEF SameOwner
    <2>. QED  BY <2>1, <2>2
  <1>. QED  BY <1>3, <1>4, <1>8, <1>9, <1>10, <1>11, TypesBefore DEF StepTyped

\* And a lease renewed at its tick.
LEMMA RenewStep ==
    ASSUME TypeOK, RowsFormed, NEW a \in Actors, RenewTick(a)
    PROVE  /\ StepTyped /\ SameWork /\ \A r \in Resources : SameOwner(r)
           /\ UNCHANGED <<regs, entries>> /\ seq' = seq
  <1>1. UNCHANGED <<seq, edges, docs, src, msgs, regs, entries, tasks, exposed>> /\ tasks[a] # Idle
    BY DEF RenewTick
  <1>2. Id(a) \in Resources /\ Token(a) \in Nat
    BY <1>1, TaskFacts
  <1>3. Formed(rows[Id(a)])
    BY <1>2 DEF RowsFormed
  <1>. DEFINE new == Renew(rows[Id(a)], Token(a))
  <1>4. rows' = [rows EXCEPT ![Id(a)] = new]
    BY DEF RenewTick
  <1>5. /\ Formed(new) /\ new.owner = rows[Id(a)].owner /\ new.staleSeq = rows[Id(a)].staleSeq
        /\ rows[Id(a)].live => new.live
    BY <1>2, <1>3, RenewFacts
  <1>. HIDE DEF new
  <1>6. RowsFormed' /\ rows'[Id(a)] = new /\ \A x \in Resources \ {Id(a)} : rows'[x] = rows[x]
    BY <1>2, <1>4, <1>5, RowPut
  <1>7. \A r \in Resources : SameOwner(r)
    BY <1>5, <1>6 DEF SameOwner
  <1>8. SameWork
    BY <1>1 DEF SameWork
  <1>. QED  BY <1>1, <1>6, <1>7, <1>8, TypesBefore DEF StepTyped

\* The owner and the mark of a row are what they were, nothing, or a number of
\* N.
Renumbered(N) ==
    \A r \in Resources :
        /\ rows'[r].owner \in {0, rows[r].owner, rows[r].staleSeq} \cup N
        /\ rows'[r].staleSeq \in {0, rows[r].staleSeq} \cup N

\* Both ways to release a row.
LEMMA ReleasedRows ==
    ASSUME RowsFormed, NEW r \in Resources, NEW token \in Nat,
           \/ rows' = [rows EXCEPT ![r] = Release(@, token)]
           \/ rows' = [rows EXCEPT ![r] = ReleaseFailed(@, token)]
    PROVE  /\ RowsFormed' /\ RowReleased(rows[r], rows'[r], token) /\ Renumbered({})
           /\ \A x \in Resources \ {r} : rows'[x] = rows[x]
  <1>1. Formed(rows[r])
    BY DEF RowsFormed
  <1>2. PICK new : RowReleased(rows[r], new, token) /\ rows' = [rows EXCEPT ![r] = new]
    BY <1>1, ReleaseFacts
  <1>3. Formed(new)
    BY <1>2 DEF RowReleased
  <1>4. RowsFormed' /\ rows'[r] = new /\ \A x \in Resources \ {r} : rows'[x] = rows[x]
    BY <1>2, <1>3, RowPut
  <1>5. new.owner \in {0, rows[r].owner} /\ new.staleSeq = rows[r].staleSeq
    BY <1>2 DEF RowReleased
  <1>6. Renumbered({})
    BY <1>4, <1>5 DEF Renumbered
  <1>. QED  BY <1>2, <1>4, <1>6

\* Claimed work that is refused, or whose renewal fails.
LEMMA RefuseStep ==
    ASSUME TypeOK, RowsFormed, NEW e \in entries, Shed(e) \/ \E a \in Actors : TakeFails(a, e)
    PROVE  /\ StepTyped /\ UNCHANGED <<seq, regs, tasks>> /\ entries' = entries \ {e}
           /\ e \in Entry /\ e.r \in Resources /\ RowReleased(rows[e.r], rows'[e.r], e.token)
           /\ Renumbered({}) /\ \A x \in Resources \ {e.r} : rows'[x] = rows[x]
  <1>1. /\ UNCHANGED <<seq, edges, docs, src, msgs, regs, tasks, exposed>> /\ entries' = entries \ {e}
        /\ rows' = [rows EXCEPT ![e.r] = Release(@, e.token)]
    BY DEF Shed, TakeFails
  <1>2. e \in Entry /\ e.r \in Resources /\ e.token \in Nat
    BY DEF TypeOK, Entry
  <1>3. /\ RowsFormed' /\ RowReleased(rows[e.r], rows'[e.r], e.token) /\ Renumbered({})
        /\ \A x \in Resources \ {e.r} : rows'[x] = rows[x]
    BY <1>1, <1>2, ReleasedRows
  <1>. QED  BY <1>1, <1>2, <1>3, TypesBefore DEF StepTyped

\* A task that fails.
LEMMA FailStep ==
    ASSUME TypeOK, RowsFormed, NEW a \in Actors, FailTask(a) \/ FailBulk(a)
    PROVE  /\ StepTyped /\ UNCHANGED <<seq, regs, entries>> /\ tasks[a] # Idle
           /\ tasks' = [tasks EXCEPT ![a] = Idle]
           /\ Id(a) \in Resources /\ RowReleased(rows[Id(a)], rows'[Id(a)], Token(a))
           /\ Renumbered({}) /\ \A x \in Resources \ {Id(a)} : rows'[x] = rows[x]
  <1>1. /\ UNCHANGED <<seq, edges, src, msgs, regs, entries, exposed>> /\ tasks' = [tasks EXCEPT ![a] = Idle]
        /\ \/ rows' = [rows EXCEPT ![Id(a)] = ReleaseFailed(@, Token(a))]
           \/ rows' = [rows EXCEPT ![Id(a)] = Release(@, Token(a))]
    BY DEF FailTask, FailBulk, Released, Ended
  <1>2. tasks[a] # Idle \/ tasks[a].pc # "idle"
    BY DEF FailTask, FailBulk, At
  <1>3. /\ tasks[a] # Idle /\ Id(a) \in Resources /\ Token(a) \in Nat /\ tasks[a].idx \in Nat
        /\ tasks[a].out \in [Versions -> Body]
    BY <1>2, TaskFacts
  <1>4. /\ RowsFormed' /\ RowReleased(rows[Id(a)], rows'[Id(a)], Token(a)) /\ Renumbered({})
        /\ \A x \in Resources \ {Id(a)} : rows'[x] = rows[x]
    BY <1>1, <1>3, ReleasedRows
  <1>5. docs' \in DocTable
    <2>1. CASE docs' = docs
      BY <2>1, TypesBefore
    <2>2. CASE docs' # docs
      <3>1. PICK S : docs' = WrittenDocs(Id(a), S, tasks[a])
        BY <2>2 DEF FailTask, FailBulk
      <3>. QED  BY <3>1, <1>3, WrittenType
    <2>. QED  BY <2>1, <2>2
  <1>6. tasks' \in [Actors -> Task \cup {Idle}]
    BY <1>1, TaskPut
  <1>. QED  BY <1>1, <1>3, <1>4, <1>5, <1>6, TypesBefore DEF StepTyped

\* Work that is lost with its process.
LEMMA LoseStep ==
    ASSUME TypeOK, RowsFormed,
           (\E e \in entries : LoseEntry(e)) \/ (\E a \in Actors : CrashTask(a)) \/ (\E g \in regs : RegCrash(g))
    PROVE  /\ StepTyped /\ UNCHANGED <<seq, rows>> /\ used'.crashes # 0
           /\ \/ \E e \in entries : entries' = entries \ {e} /\ UNCHANGED <<regs, tasks>>
              \/ \E a \in Actors : tasks' = [tasks EXCEPT ![a] = Idle] /\ UNCHANGED <<regs, entries>>
              \/ \E g \in regs : regs' = regs \ {g} /\ g.phase # "open" /\ UNCHANGED <<entries, tasks>>
  <1>1. UNCHANGED <<seq, rows, edges, docs, src, msgs>> /\ used' = [used EXCEPT !.crashes = @ + 1]
    BY DEF LoseEntry, CrashTask, RegCrash, Spend
  <1>2. used \in Used /\ MaxCrashes \in Nat
    BY SetupFacts, TypesBefore DEF TypeOK
  <1>3. used'.crashes # 0
    BY <1>1, <1>2 DEF Used
  <1>4. RowsFormed'
    BY <1>1 DEF RowsFormed
  <1>5. CASE \E e \in entries : LoseEntry(e)
    BY <1>1, <1>3, <1>4, <1>5, TypesBefore DEF LoseEntry, StepTyped
  <1>6. ASSUME NEW a \in Actors, CrashTask(a)
        PROVE  StepTyped /\ tasks' = [tasks EXCEPT ![a] = Idle] /\ UNCHANGED <<regs, entries>>
    <2>1. tasks' = [tasks EXCEPT ![a] = Idle] /\ UNCHANGED <<regs, entries, exposed>>
      BY <1>6 DEF CrashTask, Ended
    <2>2. tasks' \in [Actors -> Task \cup {Idle}]
      BY <2>1, TaskPut
    <2>. QED  BY <2>1, <2>2, <1>1, <1>4, TypesBefore DEF StepTyped
  <1>7. ASSUME NEW g \in regs, RegCrash(g)
        PROVE  StepTyped /\ regs' = regs \ {g} /\ g.phase # "open" /\ UNCHANGED <<entries, tasks>>
    <2>1. /\ regs' = regs \ {g} /\ g.phase # "open" /\ UNCHANGED <<entries, tasks>>
          /\ exposed' = exposed \cup ({"fanout"} \X g.accepted)
      BY <1>7 DEF RegCrash
    <2>2. g.accepted \subseteq Resources
      BY TypesBefore DEF Reg
    <2>3. exposed' \subseteq Windows \X Resources
      BY <2>1, <2>2, TypesBefore DEF Windows
    <2>. QED  BY <2>1, <2>3, <1>1, <1>4, TypesBefore DEF StepTyped
  <1>. QED  BY <1>1, <1>3, <1>5, <1>6, <1>7

\* Work that is taken: it is done when its token still owns the row, and only
\* then.
LEMMA TakeStep ==
    ASSUME TypeOK, RowsFormed, NEW e \in entries, NEW a \in Actors, Take(a, e)
    PROVE  /\ StepTyped /\ UNCHANGED <<seq, regs>> /\ entries' = entries \ {e} /\ tasks[a] = Idle
           /\ e \in Entry /\ e.r \in Resources /\ \A r \in Resources : SameOwner(r)
           /\ IF Holds(rows[e.r], e.token)
              THEN \E t \in Task : tasks' = [tasks EXCEPT ![a] = t] /\ t.entry = e
              ELSE tasks' = tasks
  <1>1. /\ UNCHANGED <<seq, edges, docs, src, msgs, regs, exposed>> /\ entries' = entries \ {e} /\ tasks[a] = Idle
        /\ rows' = [rows EXCEPT ![e.r] = Renew(@, e.token)]
        /\ tasks' = IF Holds(rows[e.r], e.token) THEN [tasks EXCEPT ![a] = Started(e)] ELSE tasks
    BY DEF Take, Takes
  <1>2. e \in Entry /\ e.r \in Resources /\ e.token \in Nat /\ e.mark \in Nat
    BY DEF TypeOK, Entry
  <1>3. Formed(rows[e.r])
    BY <1>2 DEF RowsFormed
  <1>. DEFINE new == Renew(rows[e.r], e.token)
  <1>4. /\ Formed(new) /\ new.owner = rows[e.r].owner /\ new.staleSeq = rows[e.r].staleSeq
        /\ rows[e.r].live => new.live
    BY <1>2, <1>3, RenewFacts
  <1>5. rows' = [rows EXCEPT ![e.r] = new]
    BY <1>1
  <1>. HIDE DEF new
  <1>6. RowsFormed' /\ rows'[e.r] = new /\ \A x \in Resources \ {e.r} : rows'[x] = rows[x]
    BY <1>2, <1>4, <1>5, RowPut
  <1>7. \A r \in Resources : SameOwner(r)
    BY <1>4, <1>6 DEF SameOwner
  <1>8. Started(e) \in Task /\ Started(e).entry = e
    <2>1. NoSource \in Source /\ [v \in Versions |-> NoBody] \in [Versions -> Body]
      BY DEF NoSource, Source, NoBody, Body
    <2>2. (IF e.kind = "build" THEN "begin" ELSE "begindelete") \in PC
      BY DEF PC
    <2>. QED  BY <2>1, <2>2, <1>2 DEF Started, Task
  <1>9. tasks' \in [Actors -> Task \cup {Idle}]
    BY <1>1, <1>8, TaskPut, TypesBefore
  <1>. QED  BY <1>1, <1>2, <1>6, <1>7, <1>8, <1>9, TypesBefore DEF StepTyped

\* What a follow-up submits.
LEMMA FollowUpEntryFacts ==
    ASSUME NEW r \in Resources, NEW row \in Row, NEW mark, NEW token
    PROVE  /\ FollowUpEntries(r, row, mark, token) \subseteq Entry
           /\ IF Holds(row, token) /\ row.staleSeq # mark /\ row.staleSeq # 0
              THEN \E e \in Entry : e.r = r /\ e.token = row.staleSeq /\ FollowUpEntries(r, row, mark, token) = {e}
              ELSE FollowUpEntries(r, row, mark, token) = {}
  <1>. DEFINE t == FollowUp(row, mark, token)
  <1>1. /\ t \in Nat /\ (t # 0 <=> Holds(row, token) /\ row.staleSeq # mark /\ row.staleSeq # 0)
        /\ t # 0 => t = row.staleSeq
    BY FollowUpFacts
  <1>2. FollowUpEntries(r, row, mark, token)
          = IF t = 0 THEN {} ELSE IF row.deleted THEN {DeleteEntry(r, t, t)} ELSE {BuildEntry(r, t)}
    BY DEF FollowUpEntries
  <1>. HIDE DEF t
  <1>3. /\ DeleteEntry(r, t, t) \in Entry /\ DeleteEntry(r, t, t).r = r /\ DeleteEntry(r, t, t).token = t
        /\ BuildEntry(r, t) \in Entry /\ BuildEntry(r, t).r = r /\ BuildEntry(r, t).token = t
    BY <1>1 DEF DeleteEntry, BuildEntry, Entry
  <1>. QED  BY <1>1, <1>2, <1>3

\* The end of a build or of a delete: the row loses its owner; or its owner
\* owns it again at a moved mark and submits the follow-up; or, ended by
\* anyone else, it keeps both and nothing is submitted.
LEMMA EndStep ==
    ASSUME TypeOK, RowsFormed, NEW a \in Actors, Finish(a) \/ DropRow(a)
    PROVE  /\ StepTyped /\ UNCHANGED <<seq, regs>> /\ tasks[a] # Idle /\ tasks' = [tasks EXCEPT ![a] = Idle]
           /\ Id(a) \in Resources /\ Renumbered({})
           /\ \A x \in Resources \ {Id(a)} : rows'[x] = rows[x]
           /\ \/ rows'[Id(a)].owner = 0 /\ entries' = entries
              \/ /\ Holds(rows[Id(a)], Token(a)) /\ rows'[Id(a)].live /\ rows'[Id(a)].owner # 0
                 /\ \E e \in Entry : e.r = Id(a) /\ e.token = rows'[Id(a)].owner /\ entries' = entries \cup {e}
              \/ /\ ~Holds(rows[Id(a)], Token(a)) /\ entries' = entries
                 /\ rows'[Id(a)].owner = rows[Id(a)].owner /\ rows'[Id(a)].live = rows[Id(a)].live
  <1>. DEFINE r == Id(a)
              row == rows[r]
              mark == tasks[a].mark
              F == FollowUpEntries(r, row, mark, Token(a))
  <1>1. tasks[a].pc \in {"finish", "drop"}
    BY DEF Finish, DropRow, At
  <1>2. tasks[a] # Idle /\ r \in Resources /\ Token(a) \in Nat /\ mark \in Nat
    BY <1>1, TaskFacts
  <1>3. /\ UNCHANGED <<seq, edges, docs, src, msgs, regs>> /\ tasks' = [tasks EXCEPT ![a] = Idle]
        /\ entries' = entries \cup F
    BY DEF Finish, DropRow, Ended
  <1>4. exposed' \subseteq Windows \X Resources
    <2>1. exposed' \subseteq exposed \cup {<<"removed", r>>}
      BY DEF Finish, DropRow
    <2>. QED  BY <2>1, <1>2, TypesBefore DEF Windows
  <1>5. Formed(row) /\ row \in Row
    BY <1>2 DEF RowsFormed, Formed
  <1>6. PICK new : /\ rows' = [rows EXCEPT ![r] = new]
                   /\ new = FinishOwned(row, mark, Token(a)) \/ new = DeleteRowIfSeq(row, mark, Token(a))
    BY DEF Finish, DropRow
  <1>7. /\ F \subseteq Entry
        /\ IF Holds(row, Token(a)) /\ row.staleSeq # mark /\ row.staleSeq # 0
           THEN \E e \in Entry : e.r = r /\ e.token = row.staleSeq /\ F = {e}
           ELSE F = {}
    BY <1>2, <1>5, FollowUpEntryFacts
  <1>. HIDE DEF F, mark
  <1>8. /\ Formed(new) /\ new.staleSeq \in {0, row.staleSeq}
        /\ \/ new.owner = 0 /\ (~row.present \/ row.staleSeq = mark)
           \/ Holds(row, Token(a)) /\ row.staleSeq # mark /\ new.owner = row.staleSeq /\ new.live
           \/ ~Holds(row, Token(a)) /\ new.owner = row.owner /\ new.live = row.live
    <2>1. CASE new = FinishOwned(row, mark, Token(a))
      <3>1. /\ Formed(new) /\ new.staleSeq = row.staleSeq
            /\ \/ row.present /\ row.staleSeq = mark /\ new.owner = 0
               \/ Holds(row, Token(a)) /\ row.staleSeq # mark /\ new.owner = row.staleSeq /\ new.live
               \/ ~Holds(row, Token(a)) /\ new = row
        BY <2>1, <1>2, <1>5, FinishOwnedFacts
      <3>. QED  BY <3>1
    <2>2. CASE new = DeleteRowIfSeq(row, mark, Token(a))
      BY <2>2, <1>2, <1>5, DeleteRowFacts, BlankRowFormed
    <2>. QED  BY <1>6, <2>1, <2>2
  <1>9. RowsFormed' /\ rows'[r] = new /\ \A x \in Resources \ {r} : rows'[x] = rows[x]
    BY <1>2, <1>6, <1>8, RowPut
  <1>10. new.owner \in {0, row.owner, row.staleSeq}
    BY <1>8
  <1>11. Renumbered({})
    BY <1>8, <1>9, <1>10 DEF Renumbered
  <1>12. tasks' \in [Actors -> Task \cup {Idle}]
    BY <1>3, TaskPut
  <1>13. StepTyped
    BY <1>3, <1>4, <1>7, <1>9, <1>12, TypesBefore DEF StepTyped
  <1>14. ~row.present => ~Holds(row, Token(a))
    BY DEF Holds
  <1>15. CASE new.owner = 0 /\ (~row.present \/ row.staleSeq = mark)
    <2>1. F = {}
      BY <1>7, <1>14, <1>15
    <2>. QED  BY <2>1, <1>2, <1>3, <1>9, <1>11, <1>13, <1>15
  <1>16. CASE Holds(row, Token(a)) /\ row.staleSeq # mark /\ new.owner = row.staleSeq /\ new.live
    <2>1. CASE row.staleSeq = 0
      <3>1. F = {}
        BY <2>1, <1>7
      <3>. QED  BY <2>1, <3>1, <1>2, <1>3, <1>9, <1>11, <1>13, <1>16
    <2>2. CASE row.staleSeq # 0
      <3>1. PICK e \in Entry : e.r = r /\ e.token = row.staleSeq /\ F = {e}
        BY <2>2, <1>7, <1>16
      <3>. QED  BY <2>2, <3>1, <1>2, <1>3, <1>9, <1>11, <1>13, <1>16
    <2>. QED  BY <2>1, <2>2
  <1>17. CASE ~Holds(row, Token(a)) /\ new.owner = row.owner /\ new.live = row.live
    <2>1. F = {}
      BY <1>7, <1>17
    <2>. QED  BY <2>1, <1>2, <1>3, <1>9, <1>11, <1>13, <1>17
  <1>. QED  BY <1>8, <1>15, <1>16, <1>17

-----------------------------------------------------------------------------
(* Marks and claims *)

\* The numbers an open registration has drawn for its items.
Drawn(g) == g.draw + 1 .. g.draw + Cardinality(Touched(g))

\* A number no open registration still has to use.
Spent(s) == s \in 0 .. seq /\ \A g \in regs : g.phase = "open" => s \notin Drawn(g)

\* Rows carry only such numbers, and the numbers of two registrations differ:
\* a mark never meets the number it is about to put on a row.
Numbered ==
    /\ \A r \in Resources : Spent(rows[r].owner) /\ Spent(rows[r].staleSeq)
    /\ \A g \in regs :
         /\ g.draw < seq
         /\ g.phase = "open" => g.claims = {} /\ g.draw + Cardinality(Touched(g)) <= seq
    /\ \A g, h \in regs :
         g # h => /\ g.draw # h.draw
                  /\ g.phase = "open" /\ h.phase = "open" => Drawn(g) \cap Drawn(h) = {}

\* The row is marked at s, which becomes its owner if it may be claimed.
MarkedAt(r, s) ==
    /\ Formed(rows'[r]) /\ rows'[r].staleSeq = s
    /\ IF Claimable(rows[r]) THEN rows'[r].owner = s /\ rows'[r].live
       ELSE rows'[r].owner = rows[r].owner /\ rows'[r].live = rows[r].live

\* C is the claimed work of the step: one entry for each row it claimed, and
\* none for a row that had a live owner.
NewClaims(C) ==
    /\ C \subseteq Entry
    /\ \A e \in C : Claimable(rows[e.r]) /\ rows'[e.r].owner = e.token /\ e.token # 0 /\ rows'[e.r].live
    /\ \A e, f \in C : e.r = f.r => e = f
    /\ \A r \in Resources :
         (\E e \in C : e.r = r) \/ (rows'[r].owner = rows[r].owner /\ rows'[r].live = rows[r].live)

\* What a mark at a number the row does not have does.
LEMMA MarkedFacts ==
    ASSUME NEW r \in Resources, NEW s \in Nat \ {0}, MarkedAt(r, s), rows[r].owner # s
    PROVE  /\ rows'[r].owner \in {rows[r].owner, s} /\ rows'[r].staleSeq = s
           /\ IF Claimable(rows[r])
              THEN ClaimToken(rows'[r]) = s /\ rows'[r].owner = s /\ rows'[r].live
              ELSE ClaimToken(rows'[r]) = 0 /\ rows'[r].owner = rows[r].owner /\ rows'[r].live = rows[r].live
  BY DEF MarkedAt, ClaimToken

\* MarkStale with a lease.
LEMMA MarkAllFacts ==
    ASSUME RowsFormed, seq \in Nat, Numbered, NEW S \in SUBSET Resources, rows' = MarkAll(S),
           seq' = seq + Cardinality(S)
    PROVE  /\ RowsFormed' /\ seq' \in Nat /\ seq <= seq' /\ Renumbered(seq + 1 .. seq')
           /\ NewClaims(ClaimedBuilds(S, rows'))
  <1>. DEFINE num(r) == seq + Nth(S, r)
  <1>1. Cardinality(S) \in Nat
    BY CardFacts
  <1>2. \A r \in S : num(r) \in Nat \ {0} /\ num(r) \in seq + 1 .. seq' /\ num(r) > seq
    <2>1. \A r \in S : Nth(S, r) \in Nat /\ 1 <= Nth(S, r) /\ Nth(S, r) <= Cardinality(S)
      BY NumberFacts
    <2>. QED  BY <2>1, <1>1
  <1>. HIDE DEF num
  <1>3. \A r \in S : rows'[r] = MarkRow(rows[r], num(r))
    BY DEF MarkAll, num
  <1>4. \A r \in Resources \ S : rows'[r] = rows[r]
    BY DEF MarkAll
  <1>5. \A r \in S : MarkedAt(r, num(r))
    <2>. SUFFICES ASSUME NEW r \in S  PROVE MarkedAt(r, num(r))
      OBVIOUS
    <2>1. rows[r] \in Row
      BY DEF RowsFormed
    <2>. QED  BY <2>1, <1>2, <1>3, MarkRowFacts DEF MarkedAt
  <1>6. RowsFormed'
    <2>1. \A r \in Resources : Formed(rows'[r])
      BY <1>4, <1>5 DEF MarkedAt, RowsFormed
    <2>2. rows' = [r \in Resources |-> IF r \in S THEN MarkRow(rows[r], seq + Nth(S, r)) ELSE rows[r]]
      BY DEF MarkAll
    <2>. QED  BY <2>1, <2>2 DEF RowsFormed, Formed
  <1>7. \A r \in S : rows[r].owner # num(r)
    <2>1. \A r \in S : rows[r].owner \in 0 .. seq
      BY DEF Numbered, Spent
    <2>. QED  BY <2>1, <1>2
  <1>8. \A r \in S : /\ rows'[r].owner \in {rows[r].owner, num(r)} /\ rows'[r].staleSeq = num(r)
                     /\ IF Claimable(rows[r])
                        THEN ClaimToken(rows'[r]) = num(r) /\ rows'[r].owner = num(r) /\ rows'[r].live
                        ELSE /\ ClaimToken(rows'[r]) = 0
                             /\ rows'[r].owner = rows[r].owner /\ rows'[r].live = rows[r].live
    BY <1>2, <1>5, <1>7, MarkedFacts
  <1>9. Renumbered(seq + 1 .. seq')
    BY <1>2, <1>4, <1>8 DEF Renumbered
  <1>10. NewClaims(ClaimedBuilds(S, rows'))
    <2>. DEFINE C == ClaimedBuilds(S, rows')
    <2>1. \A e \in C : \E r \in S : ClaimToken(rows'[r]) # 0 /\ e = BuildEntry(r, ClaimToken(rows'[r]))
      BY DEF ClaimedBuilds
    <2>2. \A r \in S : ClaimToken(rows'[r]) # 0 => BuildEntry(r, ClaimToken(rows'[r])) \in C
      BY DEF ClaimedBuilds
    <2>3. \A r \in Resources, t \in Nat : /\ BuildEntry(r, t) \in Entry /\ BuildEntry(r, t).r = r
                                          /\ BuildEntry(r, t).token = t
      BY DEF BuildEntry, Entry
    <2>. HIDE DEF C
    <2>4. \A e \in C : /\ e \in Entry /\ e.r \in S /\ e = BuildEntry(e.r, num(e.r)) /\ e.token = num(e.r)
                       /\ Claimable(rows[e.r])
      BY <2>1, <2>3, <1>2, <1>8
    <2>5. \A r \in S : (\E e \in C : e.r = r) \/ (rows'[r].owner = rows[r].owner /\ rows'[r].live = rows[r].live)
      BY <2>2, <2>3, <1>2, <1>8
    <2>6. \A r \in Resources : (\E e \in C : e.r = r) \/ (rows'[r].owner = rows[r].owner /\ rows'[r].live = rows[r].live)
      BY <2>5, <1>4
    <2>7. \A e \in C : rows'[e.r].owner = e.token /\ e.token # 0 /\ rows'[e.r].live
      BY <2>4, <1>2, <1>8
    <2>8. NewClaims(C)
      BY <2>4, <2>6, <2>7 DEF NewClaims
    <2>. QED  BY <2>8 DEF C
  <1>11. seq' \in Nat /\ seq <= seq'
    BY <1>1
  <1>. QED  BY <1>6, <1>9, <1>10, <1>11

\* A task that schedules Parents, or its own resource again.
LEMMA ScheduleStep ==
    ASSUME TypeOK, RowsFormed, Numbered, NEW a \in Actors, ScheduleParents(a) \/ Remark(a)
    PROVE  /\ StepTyped /\ SameWork /\ regs' = regs /\ seq' >= seq /\ Renumbered(seq + 1 .. seq')
           /\ \E C \in SUBSET Entry : NewClaims(C) /\ entries' = entries \cup C
  <1>1. tasks[a].pc \in {"parents", "remark"}
    BY DEF ScheduleParents, Remark, At
  <1>2. tasks[a] \in Task /\ tasks[a] # Idle /\ Id(a) \in Resources /\ tasks[a].ups \subseteq Resources
    BY <1>1, TaskFacts
  <1>3. UNCHANGED <<edges, docs, src, msgs, regs, exposed>>
    BY DEF ScheduleParents, Remark
  <1>4. PICK p \in {"finish", "drift"} : tasks' = [tasks EXCEPT ![a].pc = p]
    BY DEF ScheduleParents, Remark, AfterParents
  <1>. DEFINE t == [tasks[a] EXCEPT !.pc = p]
  <1>5. t \in Task /\ t.entry = tasks[a].entry /\ tasks' = [tasks EXCEPT ![a] = t]
    BY <1>2, <1>4 DEF Task, PC
  <1>. HIDE DEF t
  <1>6. tasks' \in [Actors -> Task \cup {Idle}] /\ tasks'[a] = t /\ \A b \in Actors \ {a} : tasks'[b] = tasks[b]
    BY <1>5, TaskPut
  <1>7. t # Idle
    BY <1>5 DEF Task, PC, Idle
  <1>8. SameWork
    BY <1>2, <1>5, <1>6, <1>7 DEF SameWork
  <1>9. PICK S \in SUBSET Resources : ScheduleBuild(S)
    BY <1>2 DEF ScheduleParents, Remark
  <1>10. rows' = MarkAll(S) /\ seq' = seq + Cardinality(S) /\ entries' = entries \cup ClaimedBuilds(S, rows')
    BY <1>9 DEF ScheduleBuild
  <1>11. /\ RowsFormed' /\ seq' \in Nat /\ seq <= seq' /\ Renumbered(seq + 1 .. seq')
         /\ NewClaims(ClaimedBuilds(S, rows'))
    BY <1>10, MarkAllFacts, TypesBefore
  <1>. DEFINE C == ClaimedBuilds(S, rows')
  <1>12. entries' = entries \cup C /\ NewClaims(C)
    BY <1>10, <1>11
  <1>. HIDE DEF C
  <1>13. C \subseteq Entry
    BY <1>12 DEF NewClaims
  <1>14. entries' \subseteq Entry
    BY <1>12, <1>13, TypesBefore
  <1>15. seq' >= seq
    BY <1>11, TypesBefore
  <1>. QED  BY <1>3, <1>6, <1>8, <1>11, <1>12, <1>13, <1>14, <1>15, TypesBefore DEF StepTyped

\* The sweep's listing.
LEMMA SweepStep ==
    ASSUME TypeOK, RowsFormed, SweepList
    PROVE  /\ StepTyped /\ UNCHANGED <<seq, regs, tasks>> /\ Renumbered({})
           /\ \E C \in SUBSET Entry : NewClaims(C) /\ entries' = entries \cup C
  <1>1. UNCHANGED <<seq, edges, docs, src, msgs, regs, tasks, exposed>>
    BY DEF SweepList
  <1>2. PICK S \in SUBSET {r \in Resources : Sweepable(rows[r]) /\ Unlocked({r})} :
           /\ rows' = [r \in Resources |-> IF r \in S THEN SweepClaim(rows[r]) ELSE rows[r]]
           /\ entries' = entries \cup {SweptEntry(r) : r \in S}
    BY DEF SweepList
  <1>3. S \subseteq Resources /\ \A r \in S : Sweepable(rows[r]) /\ Formed(rows[r])
    BY <1>2 DEF RowsFormed
  <1>4. /\ \A r \in Resources \ S : rows'[r] = rows[r]
        /\ \A r \in S : rows'[r] = SweepClaim(rows[r])
    BY <1>2, <1>3
  <1>5. \A r \in S : /\ Formed(rows'[r]) /\ rows'[r].owner = rows[r].staleSeq /\ rows'[r].owner # 0
                     /\ rows'[r].live /\ rows'[r].staleSeq = rows[r].staleSeq /\ Claimable(rows[r])
    BY <1>3, <1>4, SweepClaimFacts
  <1>6. RowsFormed'
    <2>1. \A r \in Resources : Formed(rows'[r])
      BY <1>4, <1>5 DEF RowsFormed
    <2>. QED  BY <2>1, <1>2 DEF RowsFormed, Formed
  <1>7. Renumbered({})
    BY <1>4, <1>5 DEF Renumbered
  <1>. DEFINE C == {SweptEntry(r) : r \in S}
  <1>8. \A r \in S : SweptEntry(r) \in Entry /\ SweptEntry(r).r = r /\ SweptEntry(r).token = rows[r].staleSeq
    <2>1. \A r \in S : rows[r].staleSeq \in Nat
      BY <1>3 DEF Formed, Row
    <2>. QED  BY <2>1, <1>3 DEF SweptEntry, Entry
  <1>9. entries' = entries \cup C
    BY <1>2
  <1>10. /\ \A e \in C : e \in Entry /\ e.r \in S /\ e = SweptEntry(e.r) /\ e.token = rows[e.r].staleSeq
         /\ \A r \in S : \E e \in C : e.r = r
    BY <1>8
  <1>. HIDE DEF C
  <1>11. NewClaims(C)
    BY <1>4, <1>5, <1>10 DEF NewClaims
  <1>12. C \subseteq Entry /\ entries' \subseteq Entry
    BY <1>9, <1>10, TypesBefore
  <1>. QED  BY <1>1, <1>6, <1>7, <1>9, <1>11, <1>12, TypesBefore DEF StepTyped

-----------------------------------------------------------------------------
(* Registrations *)

\* What there is to know of a call in flight.
LEMMA RegFacts ==
    ASSUME TypeOK, NEW g \in regs
    PROVE  /\ g \in Reg /\ g.items \subseteq Msg /\ g.draw \in Nat /\ Touched(g) \subseteq Resources
           /\ Cardinality(Touched(g)) \in Nat /\ g.claims \subseteq Entry /\ g.missed \subseteq Resources
           /\ g.accepted \subseteq Resources /\ g.marked \subseteq Resources
           /\ g.parents \in [Resources -> SUBSET Resources]
  <1>1. g \in Reg
    BY DEF TypeOK
  <1>2. g.items \subseteq Msg /\ g.draw \in Nat /\ g.claims \subseteq Entry /\ g.missed \subseteq Resources
        /\ g.accepted \subseteq Resources /\ g.marked \subseteq Resources /\ g.parents \in [Resources -> SUBSET Resources]
    BY <1>1 DEF Reg
  <1>3. Touched(g) \subseteq Resources
    BY <1>2 DEF Touched, Msg
  <1>. QED  BY <1>1, <1>2, <1>3, CardFacts

\* A call begins: it draws a number for each of its items.
LEMMA BeginCallStep ==
    ASSUME TypeOK, RowsFormed, RegBegin
    PROVE  /\ StepTyped /\ UNCHANGED <<rows, entries, tasks>>
           /\ \E g \in Reg : /\ regs' = regs \cup {g} /\ g.phase = "open" /\ g.claims = {} /\ g.draw = seq
                             /\ Cardinality(Touched(g)) \in Nat \ {0}
                             /\ seq' = seq + Cardinality(Touched(g))
  <1>. DEFINE R(M) == {m.r : m \in M}
              parents(M) == [r \in Resources |-> IF r \in R(M) THEN ParentsOf({r}) ELSE {}]
              locks(M) == {r \in R(M) \cup ParentsOf(R(M)) : rows[r].present}
              call(M) == [phase |-> "open", items |-> M, draw |-> seq, locks |-> locks(M),
                          parents |-> parents(M), accepted |-> {}, marked |-> {}, claims |-> {}, missed |-> {}]
  <1>1. UNCHANGED <<rows, edges, docs, src, entries, tasks, exposed>>
    BY DEF RegBegin
  <1>2. PICK M \in SUBSET {m \in msgs : Deliverable(m)} :
           /\ M # {} /\ regs' = regs \cup {call(M)} /\ seq' = seq + Cardinality(R(M)) /\ msgs' = msgs \ M
    BY DEF RegBegin
  <1>3. M \subseteq Msg /\ msgs' \subseteq Msg
    BY <1>2, TypesBefore
  <1>4. R(M) \subseteq Resources /\ R(M) # {}
    BY <1>2, <1>3 DEF Msg
  <1>5. \A D : ParentsOf(D) \subseteq Resources
    BY DEF ParentsOf
  <1>6. parents(M) \in [Resources -> SUBSET Resources] /\ locks(M) \subseteq Resources
    BY <1>4, <1>5
  <1>. DEFINE g == call(M)
  <1>7. g \in Reg /\ g.phase = "open" /\ g.claims = {} /\ g.draw = seq /\ g.items = M
    <2>. HIDE DEF parents, locks
    <2>. QED  BY <1>3, <1>6, TypesBefore DEF Reg
  <1>8. Touched(g) = R(M)
    BY <1>7 DEF Touched
  <1>9. Cardinality(R(M)) \in Nat \ {0}
    BY <1>4, CardFacts
  <1>10. regs' = regs \cup {g} /\ seq' = seq + Cardinality(Touched(g)) /\ Cardinality(Touched(g)) \in Nat \ {0}
    BY <1>2, <1>8, <1>9
  <1>. HIDE DEF g
  <1>11. StepTyped
    <2>1. RowsFormed'
      BY <1>1 DEF RowsFormed
    <2>2. seq' \in Nat
      BY <1>10, TypesBefore
    <2>3. regs' \subseteq Reg
      BY <1>7, <1>10, TypesBefore
    <2>. QED  BY <2>1, <2>2, <2>3, <1>1, <1>3, TypesBefore DEF StepTyped
  <1>. QED  BY <1>1, <1>7, <1>10, <1>11

\* The rows after a commit: items and Parents are marked, each at a number
\* that is on no row.
LEMMA CommitRows ==
    ASSUME TypeOK, RowsFormed, Numbered, NEW g \in regs, g.phase = "open",
           NEW A, A = {m.r : m \in AcceptedItems(g)},
           NEW P, P = StatementParents(g, A), rows' = RegisteredRows(g, A, P), seq' = seq + Cardinality(P)
    PROVE  /\ A \subseteq Resources /\ P \subseteq Resources /\ seq' \in Nat /\ seq' >= seq /\ RowsFormed'
           /\ Renumbered((seq + 1 .. seq') \cup Drawn(g)) /\ NewClaims(RegisteredClaims(g, A, P, rows'))
  <1>. DEFINE num(r) == IF r \in A THEN Number(g, r) ELSE seq + Nth(P, r)
              N == (seq + 1 .. seq') \cup Drawn(g)
  <1>1. /\ g.items \subseteq Msg /\ g.draw \in Nat /\ Touched(g) \subseteq Resources
        /\ Cardinality(Touched(g)) \in Nat /\ g.parents \in [Resources -> SUBSET Resources]
    BY RegFacts
  <1>2. A \subseteq Touched(g) /\ A \subseteq Resources
    BY <1>1 DEF AcceptedItems, Touched
  <1>3. P \subseteq Resources /\ A \cap P = {}
    BY <1>1, <1>2 DEF StatementParents
  <1>4. Cardinality(P) \in Nat /\ seq \in Nat
    BY <1>3, CardFacts, TypesBefore
  <1>5. seq' \in Nat /\ seq' >= seq
    BY <1>4
  <1>6. \A r \in A : num(r) \in Nat \ {0} /\ num(r) \in Drawn(g)
    <2>1. \A r \in A : /\ Nth(Touched(g), r) \in Nat /\ 1 <= Nth(Touched(g), r)
                       /\ Nth(Touched(g), r) <= Cardinality(Touched(g))
      BY <1>1, <1>2, NumberFacts
    <2>. QED  BY <2>1, <1>1 DEF Number, Drawn
  <1>7. \A r \in P : num(r) \in Nat \ {0} /\ num(r) \in seq + 1 .. seq'
    <2>1. \A r \in P : Nth(P, r) \in Nat /\ 1 <= Nth(P, r) /\ Nth(P, r) <= Cardinality(P)
      BY <1>3, NumberFacts
    <2>. QED  BY <2>1, <1>3, <1>4
  <1>8. /\ \A r \in A : rows'[r] = RegisterItem(rows[r], Item(ItemOf(g, r)), num(r))
        /\ \A r \in P : rows'[r] = MarkRow(rows[r], num(r))
        /\ \A r \in Resources \ (A \cup P) : rows'[r] = rows[r]
    BY <1>2, <1>3 DEF RegisteredRows
  <1>. HIDE DEF num
  <1>9. \A r \in A \cup P : MarkedAt(r, num(r))
    <2>1. ASSUME NEW r \in A  PROVE MarkedAt(r, num(r))
      <3>1. ItemOf(g, r) \in g.items
        BY <1>2 DEF ItemOf, Touched
      <3>2. Item(ItemOf(g, r)) \in [deleted : BOOLEAN, version : Nat]
        BY <3>1, <1>1 DEF Item, Msg
      <3>3. rows[r] \in Row
        BY <1>2 DEF RowsFormed
      <3>. QED  BY <3>2, <3>3, <1>6, <1>8, RegisterItemFacts DEF MarkedAt
    <2>2. ASSUME NEW r \in P  PROVE MarkedAt(r, num(r))
      <3>1. rows[r] \in Row
        BY <1>3 DEF RowsFormed
      <3>. QED  BY <3>1, <1>7, <1>8, MarkRowFacts DEF MarkedAt
    <2>. QED  BY <2>1, <2>2
  <1>10. RowsFormed'
    <2>1. \A r \in Resources : Formed(rows'[r])
      BY <1>8, <1>9 DEF MarkedAt, RowsFormed
    <2>2. DOMAIN rows' = Resources /\ rows' = [r \in Resources |-> rows'[r]]
      BY DEF RegisteredRows
    <2>. QED  BY <2>1, <2>2 DEF RowsFormed, Formed
  <1>11. \A r \in A \cup P : rows[r].owner # num(r)
    <2>1. \A r \in Resources : rows[r].owner \in 0 .. seq /\ rows[r].owner \notin Drawn(g)
      BY DEF Numbered, Spent
    <2>. QED  BY <2>1, <1>2, <1>3, <1>4, <1>6, <1>7
  <1>12. \A r \in A \cup P :
            /\ rows'[r].owner \in {rows[r].owner, num(r)} /\ rows'[r].staleSeq = num(r)
            /\ IF Claimable(rows[r])
               THEN ClaimToken(rows'[r]) = num(r) /\ rows'[r].owner = num(r) /\ rows'[r].live
               ELSE ClaimToken(rows'[r]) = 0 /\ rows'[r].owner = rows[r].owner /\ rows'[r].live = rows[r].live
    BY <1>2, <1>3, <1>6, <1>7, <1>9, <1>11, MarkedFacts
  <1>13. \A r \in A \cup P : num(r) \in N
    BY <1>6, <1>7
  <1>. HIDE DEF N
  <1>14. Renumbered(N)
    BY <1>8, <1>12, <1>13 DEF Renumbered
  <1>15. NewClaims(RegisteredClaims(g, A, P, rows'))
    <2>. DEFINE C == RegisteredClaims(g, A, P, rows')
                entry(r) == IF r \in A /\ rows'[r].deleted
                            THEN DeleteEntry(r, rows'[r].staleSeq, ClaimToken(rows'[r]))
                            ELSE BuildEntry(r, ClaimToken(rows'[r]))
    <2>1. C = {entry(r) : r \in {x \in A \cup P : ClaimToken(rows'[x]) # 0}}
      BY DEF RegisteredClaims
    <2>2. \A r \in A \cup P : Claimable(rows[r]) => entry(r) \in Entry /\ entry(r).r = r /\ entry(r).token = num(r)
      BY <1>2, <1>3, <1>6, <1>7, <1>12 DEF DeleteEntry, BuildEntry, Entry
    <2>. HIDE DEF C, entry
    <2>3. \A r \in A \cup P : num(r) # 0
      BY <1>6, <1>7
    <2>4. \A e \in C : /\ e \in Entry /\ e.r \in A \cup P /\ e = entry(e.r) /\ e.token = num(e.r)
                       /\ Claimable(rows[e.r])
      <3>. SUFFICES ASSUME NEW e \in C
                    PROVE  /\ e \in Entry /\ e.r \in A \cup P /\ e = entry(e.r) /\ e.token = num(e.r)
                           /\ Claimable(rows[e.r])
        OBVIOUS
      <3>1. PICK r \in A \cup P : ClaimToken(rows'[r]) # 0 /\ e = entry(r)
        BY <2>1
      <3>2. Claimable(rows[r])
        BY <3>1, <1>12
      <3>. QED  BY <3>1, <3>2, <2>2
    <2>5. \A r \in A \cup P : Claimable(rows[r]) => entry(r) \in C
      BY <2>1, <2>3, <1>12
    <2>6. \A r \in A \cup P : (\E e \in C : e.r = r) \/ (rows'[r].owner = rows[r].owner /\ rows'[r].live = rows[r].live)
      BY <2>2, <2>5, <1>12
    <2>7. \A r \in Resources : (\E e \in C : e.r = r) \/ (rows'[r].owner = rows[r].owner /\ rows'[r].live = rows[r].live)
      BY <2>6, <1>8
    <2>8. \A e \in C : rows'[e.r].owner = e.token /\ e.token # 0 /\ rows'[e.r].live
      <3>. SUFFICES ASSUME NEW e \in C
                    PROVE  rows'[e.r].owner = e.token /\ e.token # 0 /\ rows'[e.r].live
        OBVIOUS
      <3>. PICK r \in A \cup P : r = e.r
        BY <2>4
      <3>1. Claimable(rows[r]) /\ e.token = num(r)
        BY <2>4
      <3>. QED  BY <3>1, <2>3, <1>12
    <2>9. NewClaims(C)
      BY <2>4, <2>7, <2>8 DEF NewClaims
    <2>. QED  BY <2>9 DEF C
  <1>. QED  BY <1>2, <1>3, <1>5, <1>10, <1>14, <1>15 DEF N

\* A commit: the claims of its rows are held by the call.
LEMMA CommitStep ==
    ASSUME TypeOK, RowsFormed, Numbered, NEW g \in regs, RegCommit(g)
    PROVE  /\ StepTyped /\ UNCHANGED <<entries, tasks>> /\ g.phase = "open" /\ seq' >= seq
           /\ Renumbered((seq + 1 .. seq') \cup Drawn(g))
           /\ \E C \in SUBSET Entry :
                /\ NewClaims(C)
                /\ \/ C = {} /\ regs' = regs \ {g}
                   \/ \E k \in Reg : /\ k.draw = g.draw /\ k.phase # "open" /\ k.claims = C
                                     /\ regs' = (regs \ {g}) \cup {k}
  <1>1. PICK A : A = {m.r : m \in AcceptedItems(g)}
    OBVIOUS
  <1>2. PICK P : P = StatementParents(g, A)
    OBVIOUS
  <1>. DEFINE C == RegisteredClaims(g, A, P, rows')
              k == [g EXCEPT !.phase = "fanout", !.locks = {}, !.accepted = A, !.marked = P, !.claims = C]
  <1>3. /\ g.phase = "open" /\ rows' = RegisteredRows(g, A, P) /\ seq' = seq + Cardinality(P)
        /\ UNCHANGED <<edges, docs, src, entries, tasks>>
        /\ exposed' = exposed \cup ({"lowered"} \X {r \in A : rows[r].changeSeq > Number(g, r)})
        /\ msgs' = msgs \/ msgs' = msgs \cup g.items
        /\ regs' = (regs \ {g}) \cup (IF A = {} THEN {} ELSE {k})
    BY <1>1, <1>2 DEF RegCommit
  <1>4. /\ A \subseteq Resources /\ P \subseteq Resources /\ seq' \in Nat /\ seq' >= seq /\ RowsFormed'
        /\ Renumbered((seq + 1 .. seq') \cup Drawn(g)) /\ NewClaims(C)
    BY <1>1, <1>2, <1>3, CommitRows
  <1>5. C \subseteq Entry
    BY <1>4 DEF NewClaims
  <1>6. A = {} => C = {}
    <2>1. A = {} => P = {}
      BY <1>2 DEF StatementParents
    <2>. QED  BY <2>1 DEF RegisteredClaims
  <1>. HIDE DEF C
  <1>7. k \in Reg /\ k.draw = g.draw /\ k.phase # "open" /\ k.claims = C
    <2>1. g \in Reg
      BY RegFacts
    <2>. QED  BY <2>1, <1>4, <1>5 DEF Reg
  <1>. HIDE DEF k
  <1>8. StepTyped
    <2>1. exposed' \subseteq Windows \X Resources
      BY <1>3, <1>4, TypesBefore DEF Windows
    <2>2. msgs' \subseteq Msg
      BY <1>3, RegFacts, TypesBefore
    <2>3. regs' \subseteq Reg
      BY <1>3, <1>7, TypesBefore
    <2>. QED  BY <2>1, <2>2, <2>3, <1>3, <1>4, TypesBefore DEF StepTyped
  <1>9. CASE A = {}
    BY <1>3, <1>4, <1>5, <1>6, <1>8, <1>9
  <1>10. CASE A # {}
    BY <1>3, <1>4, <1>5, <1>7, <1>8, <1>10
  <1>. QED  BY <1>9, <1>10

\* A statement that fails.
LEMMA AbortStep ==
    ASSUME TypeOK, RowsFormed, NEW g \in regs, RegAbort(g)
    PROVE  StepTyped /\ UNCHANGED <<seq, rows, entries, tasks>> /\ g.phase = "open" /\ regs' = regs \ {g}
  <1>1. /\ UNCHANGED <<seq, rows, edges, docs, src, entries, tasks, exposed>> /\ g.phase = "open"
        /\ regs' = regs \ {g} /\ msgs' = msgs \cup g.items
    BY DEF RegAbort
  <1>2. RowsFormed' /\ msgs' \subseteq Msg
    BY <1>1, RegFacts, TypesBefore DEF RowsFormed
  <1>. QED  BY <1>1, <1>2, TypesBefore DEF StepTyped

\* A step that claims nothing.
LEMMA NoClaims == ASSUME rows' = rows  PROVE NewClaims({}) /\ Renumbered({})
  BY DEF NewClaims, Renumbered

\* The second fanout found Parents the statement missed.
LEMMA MissedStep ==
    ASSUME TypeOK, RowsFormed, NEW g \in regs, RegFanout(g), ParentsOf(g.accepted) \ (g.accepted \cup g.marked) # {}
    PROVE  /\ StepTyped /\ UNCHANGED <<seq, rows, entries, tasks>> /\ g.phase # "open"
           /\ \E k \in Reg : /\ k.draw = g.draw /\ k.phase # "open" /\ k.claims = g.claims
                             /\ regs' = (regs \ {g}) \cup {k}
  <1>. DEFINE missed == ParentsOf(g.accepted) \ (g.accepted \cup g.marked)
              k == [g EXCEPT !.phase = "mark", !.missed = missed]
  <1>1. /\ UNCHANGED <<seq, rows, edges, docs, src, msgs, entries, tasks, exposed>> /\ g.phase = "fanout"
        /\ regs' = (regs \ {g}) \cup {k}
    BY DEF RegFanout
  <1>2. missed \subseteq Resources /\ g \in Reg
    BY RegFacts DEF ParentsOf
  <1>. HIDE DEF missed
  <1>3. k \in Reg /\ k.draw = g.draw /\ k.phase # "open" /\ k.claims = g.claims
    BY <1>2 DEF Reg
  <1>. HIDE DEF k
  <1>4. RowsFormed' /\ regs' \subseteq Reg
    BY <1>1, <1>3, TypesBefore DEF RowsFormed
  <1>5. StepTyped
    BY <1>1, <1>4, TypesBefore DEF StepTyped
  <1>. QED  BY <1>1, <1>3, <1>5

\* The call submits what it claimed, with the Parents it claimed last.
LEMMA SubmitStep ==
    ASSUME TypeOK, RowsFormed, Numbered, NEW g \in regs,
           \/ RegFanout(g) /\ ParentsOf(g.accepted) \ (g.accepted \cup g.marked) = {}
           \/ RegMark(g) \/ RegFanoutFails(g)
    PROVE  /\ StepTyped /\ tasks' = tasks /\ g.phase # "open" /\ regs' = regs \ {g} /\ seq' >= seq
           /\ Renumbered(seq + 1 .. seq')
           /\ \E C \in SUBSET Entry : NewClaims(C) /\ entries' = entries \cup g.claims \cup C
  <1>1. /\ UNCHANGED <<edges, docs, src, msgs, tasks>> /\ g.phase # "open" /\ regs' = regs \ {g}
    BY DEF RegFanout, RegMark, RegFanoutFails
  <1>2. /\ g.claims \subseteq Entry /\ g.missed \subseteq Resources /\ g.accepted \subseteq Resources
    BY RegFacts
  <1>3. exposed' \subseteq Windows \X Resources
    <2>1. exposed' \subseteq exposed \cup ({"fanout"} \X g.accepted)
      BY DEF RegFanout, RegMark, RegFanoutFails
    <2>. QED  BY <2>1, <1>2, TypesBefore DEF Windows
  <1>4. CASE RegMark(g)
    <2>. DEFINE C == ClaimedBuilds(g.missed, rows')
    <2>1. rows' = MarkAll(g.missed) /\ seq' = seq + Cardinality(g.missed) /\ entries' = entries \cup g.claims \cup C
      BY <1>4 DEF RegMark
    <2>2. RowsFormed' /\ seq' \in Nat /\ seq <= seq' /\ Renumbered(seq + 1 .. seq') /\ NewClaims(C)
      BY <2>1, <1>2, MarkAllFacts, TypesBefore
    <2>. HIDE DEF C
    <2>3. C \subseteq Entry
      BY <2>2 DEF NewClaims
    <2>4. entries' \subseteq Entry /\ seq' >= seq
      BY <2>1, <2>2, <2>3, <1>2, TypesBefore
    <2>5. StepTyped
      BY <2>2, <2>4, <1>1, <1>3, TypesBefore DEF StepTyped
    <2>. QED  BY <2>1, <2>2, <2>3, <2>4, <2>5, <1>1
  <1>5. CASE ~RegMark(g)
    <2>1. UNCHANGED <<seq, rows>> /\ entries' = entries \cup g.claims
      BY <1>5 DEF RegFanout, RegFanoutFails
    <2>2. RowsFormed' /\ entries' \subseteq Entry /\ seq' >= seq
      BY <2>1, <1>2, TypesBefore DEF RowsFormed
    <2>3. NewClaims({}) /\ Renumbered(seq + 1 .. seq')
      BY <2>1, NoClaims DEF Renumbered
    <2>4. StepTyped
      BY <2>1, <2>2, <1>1, <1>3, TypesBefore DEF StepTyped
    <2>. QED  BY <2>1, <2>2, <2>3, <2>4, <1>1
  <1>. QED  BY <1>4, <1>5

-----------------------------------------------------------------------------
(* The source and time *)

\* A change at the source touches no row.
LEMMA ChangeStep ==
    ASSUME TypeOK, RowsFormed, NEW r \in Resources, Change(r)
    PROVE  StepTyped /\ UNCHANGED <<seq, rows, regs, entries, tasks>>
  <1>1. UNCHANGED <<seq, rows, edges, docs, regs, entries, tasks, exposed>>
    BY DEF Change
  <1>2. PICK vs \in Existences[r], refs \in RefChoices[r], ups \in UpChoices[r] :
           /\ src' = [src EXCEPT ![r] = [n |-> @.n + 1, vs |-> vs, refs |-> refs, ups |-> ups]]
           /\ msgs' = msgs \cup {[r |-> r, n |-> src[r].n + 1, deleted |-> vs = {}]}
    BY DEF Change
  <1>3. vs \subseteq Versions /\ refs \subseteq Resources /\ ups \subseteq Resources
    BY SetupFacts, TypesBefore
  <1>4. src[r].n \in Nat
    BY TypesBefore DEF Source
  <1>. PICK n \in Nat : n = src[r].n + 1
    BY <1>4
  <1>. DEFINE new == [n |-> n, vs |-> vs, refs |-> refs, ups |-> ups]
  <1>5. src' = [src EXCEPT ![r] = new]
    BY <1>2
  <1>6. new \in Source
    BY <1>3 DEF Source
  <1>. HIDE DEF new
  <1>7. src' \in [Resources -> Source]
    BY <1>5, <1>6, TypesBefore
  <1>8. (vs = {}) \in BOOLEAN
    OBVIOUS
  <1>9. [r |-> r, n |-> n, deleted |-> vs = {}] \in Msg
    BY <1>8 DEF Msg
  <1>10. msgs' \subseteq Msg
    BY <1>2, <1>9, TypesBefore
  <1>11. RowsFormed'
    BY <1>1 DEF RowsFormed
  <1>. QED  BY <1>1, <1>7, <1>10, <1>11, TypesBefore DEF StepTyped

\* Time ends a lease only when its owner is no more, or counts it as lapsed.
LEMMA TimeStep ==
    ASSUME TypeOK, RowsFormed, NEW x \in Resources, RowEvent(x)
    PROVE  /\ StepTyped /\ UNCHANGED <<seq, regs, entries, tasks>>
           /\ \A r \in Resources : /\ rows'[r].owner = rows[r].owner /\ rows'[r].staleSeq = rows[r].staleSeq
                                   /\ rows'[r].live = rows[r].live \/ used'.lapses # 0 \/ ~Alive(r)
  <1>1. UNCHANGED <<seq, edges, src, msgs, regs, entries, tasks, exposed>>
    BY DEF RowEvent, LeaseLapses, DeadLeaseExpires, BackoffElapses, ForgetDelete
  <1>2. Formed(rows[x]) /\ rows \in [Resources -> Row]
    BY DEF RowsFormed
  <1>3. used \in Used /\ MaxLapses \in Nat
    BY SetupFacts, TypesBefore DEF TypeOK
  <1>4. CASE LeaseLapses(x) \/ DeadLeaseExpires(x)
    <2>. DEFINE new == [rows[x] EXCEPT !.live = FALSE]
    <2>1. rows' = [rows EXCEPT ![x] = new] /\ docs' = docs
      BY <1>4 DEF LeaseLapses, DeadLeaseExpires, Expire
    <2>2. Formed(new) /\ new.owner = rows[x].owner /\ new.staleSeq = rows[x].staleSeq
      BY <1>2 DEF Formed, Row
    <2>. HIDE DEF new
    <2>3. RowsFormed' /\ rows'[x] = new /\ \A y \in Resources \ {x} : rows'[y] = rows[y]
      BY <2>1, <2>2, RowPut
    <2>4. used'.lapses # 0 \/ ~Alive(x)
      <3>1. CASE LeaseLapses(x)
        <4>1. used' = [used EXCEPT !.lapses = @ + 1]
          BY <3>1 DEF LeaseLapses, Spend
        <4>. QED  BY <4>1, <1>3 DEF Used
      <3>2. CASE DeadLeaseExpires(x)
        BY <3>2 DEF DeadLeaseExpires
      <3>. QED  BY <1>4, <3>1, <3>2
    <2>5. StepTyped
      BY <2>1, <2>3, <1>1, TypesBefore DEF StepTyped
    <2>. QED  BY <2>2, <2>3, <2>4, <2>5, <1>1
  <1>5. CASE BackoffElapses(x)
    <2>. DEFINE new == [rows[x] EXCEPT !.waiting = FALSE]
    <2>1. rows' = [rows EXCEPT ![x] = new] /\ docs' = docs
      BY <1>5 DEF BackoffElapses
    <2>2. Formed(new) /\ new.owner = rows[x].owner /\ new.staleSeq = rows[x].staleSeq /\ new.live = rows[x].live
      BY <1>2 DEF Formed, Row
    <2>. HIDE DEF new
    <2>3. RowsFormed' /\ rows'[x] = new /\ \A y \in Resources \ {x} : rows'[y] = rows[y]
      BY <2>1, <2>2, RowPut
    <2>4. StepTyped
      BY <2>1, <2>3, <1>1, TypesBefore DEF StepTyped
    <2>. QED  BY <2>2, <2>3, <2>4, <1>1
  <1>6. CASE \E v \in Versions : ForgetDelete(x, v)
    <2>1. PICK v \in Versions : ForgetDelete(x, v)
      BY <1>6
    <2>. DEFINE doc == [docs[x][v] EXCEPT !.ver = 0]
                all == [docs[x] EXCEPT ![v] = doc]
    <2>2. docs' = [docs EXCEPT ![x] = all] /\ rows' = rows
      BY <2>1 DEF ForgetDelete
    <2>3. docs[x] \in [Versions -> Doc] /\ docs[x][v] \in Doc
      BY TypesBefore DEF DocTable
    <2>4. doc \in Doc
      BY <2>3 DEF Doc
    <2>. HIDE DEF doc
    <2>5. all \in [Versions -> Doc]
      BY <2>3, <2>4
    <2>. HIDE DEF all
    <2>6. docs' \in DocTable
      BY <2>2, <2>5, TypesBefore DEF DocTable
    <2>7. RowsFormed'
      BY <2>2 DEF RowsFormed
    <2>8. StepTyped
      BY <2>6, <2>7, <1>1, TypesBefore DEF StepTyped
    <2>. QED  BY <2>2, <2>8, <1>1
  <1>. QED  BY <1>4, <1>5, <1>6 DEF RowEvent

-----------------------------------------------------------------------------
(* The numbers stay apart *)

\* Rows take the numbers a step draws, and calls only leave.
LEMMA NumberedKept ==
    ASSUME TypeOK, Numbered, regs' \subseteq regs, seq' \in Nat, seq' >= seq, Renumbered(seq + 1 .. seq')
    PROVE  Numbered'
  <1>1. seq \in Nat /\ \A h \in regs : h.draw \in Nat /\ Cardinality(Touched(h)) \in Nat
    BY RegFacts, TypesBefore
  <1>2. \A h \in regs : h.phase = "open" => Drawn(h) \subseteq 1 .. seq
    BY <1>1 DEF Numbered, Drawn
  <1>3. ASSUME NEW s, Spent(s) \/ s = 0 \/ s \in seq + 1 .. seq'  PROVE Spent(s)'
    <2>1. s \in 0 .. seq'
      BY <1>1, <1>3 DEF Spent
    <2>2. \A h \in regs' : h.phase = "open" => s \notin Drawn(h)
      BY <1>1, <1>2, <1>3 DEF Spent
    <2>. QED  BY <2>1, <2>2 DEF Spent
  <1>4. \A r \in Resources : Spent(rows[r].owner)' /\ Spent(rows[r].staleSeq)'
    <2>. SUFFICES ASSUME NEW r \in Resources  PROVE Spent(rows[r].owner)' /\ Spent(rows[r].staleSeq)'
      OBVIOUS
    <2>1. PICK s : s = rows'[r].owner
      OBVIOUS
    <2>2. PICK t : t = rows'[r].staleSeq
      OBVIOUS
    <2>3. (Spent(s) \/ s = 0 \/ s \in seq + 1 .. seq') /\ (Spent(t) \/ t = 0 \/ t \in seq + 1 .. seq')
      BY <2>1, <2>2 DEF Renumbered, Numbered
    <2>4. Spent(s)' /\ Spent(t)'
      BY <2>3, <1>3
    <2>. QED  BY <2>1, <2>2, <2>4 DEF Spent
  <1>5. \A g \in regs' : /\ g.draw < seq'
                         /\ g.phase = "open" => g.claims = {} /\ g.draw + Cardinality(Touched(g)) <= seq'
    BY <1>1 DEF Numbered
  <1>6. \A g, h \in regs' : g # h => /\ g.draw # h.draw
                                     /\ g.phase = "open" /\ h.phase = "open" => Drawn(g) \cap Drawn(h) = {}
    BY DEF Numbered
  <1>. QED  BY <1>4, <1>5, <1>6 DEF Numbered, Drawn, Touched

\* A call goes on, or ends, past its statement, whose numbers rows may take.
LEMMA NumberedPast ==
    ASSUME TypeOK, Numbered, NEW g \in regs, NEW K, regs' = (regs \ {g}) \cup K,
           \A k \in K : k.draw = g.draw /\ k.phase # "open", \A k, l \in K : k = l,
           seq' \in Nat, seq' >= seq, NEW N, Renumbered(N),
           N \subseteq (seq + 1 .. seq') \cup (IF g.phase = "open" THEN Drawn(g) ELSE {})
    PROVE  Numbered'
  <1>1. seq \in Nat /\ \A h \in regs : h.draw \in Nat /\ Cardinality(Touched(h)) \in Nat
    BY RegFacts, TypesBefore
  <1>2. \A h \in regs : h.phase = "open" => Drawn(h) \subseteq 1 .. seq
    BY <1>1 DEF Numbered, Drawn
  <1>3. ASSUME NEW s, Spent(s) \/ s = 0 \/ s \in N  PROVE Spent(s)'
    <2>1. s \in 0 .. seq'
      <3>1. CASE Spent(s) \/ s = 0
        BY <3>1, <1>1 DEF Spent
      <3>2. CASE s \in seq + 1 .. seq'
        BY <3>2, <1>1
      <3>3. CASE g.phase = "open" /\ s \in Drawn(g)
        BY <3>3, <1>1, <1>2
      <3>. QED  BY <3>1, <3>2, <3>3, <1>3
    <2>2. ASSUME NEW h \in regs', h.phase = "open"  PROVE s \notin Drawn(h)
      <3>1. h \in regs /\ h # g
        BY <2>2
      <3>2. g.phase = "open" => Drawn(g) \cap Drawn(h) = {}
        BY <2>2, <3>1 DEF Numbered
      <3>. QED  BY <2>2, <3>1, <3>2, <1>1, <1>2, <1>3 DEF Spent
    <2>. QED  BY <2>1, <2>2 DEF Spent
  <1>4. \A r \in Resources : Spent(rows[r].owner)' /\ Spent(rows[r].staleSeq)'
    <2>. SUFFICES ASSUME NEW r \in Resources  PROVE Spent(rows[r].owner)' /\ Spent(rows[r].staleSeq)'
      OBVIOUS
    <2>1. PICK s : s = rows'[r].owner
      OBVIOUS
    <2>2. PICK t : t = rows'[r].staleSeq
      OBVIOUS
    <2>3. (Spent(s) \/ s = 0 \/ s \in N) /\ (Spent(t) \/ t = 0 \/ t \in N)
      BY <2>1, <2>2 DEF Renumbered, Numbered
    <2>4. Spent(s)' /\ Spent(t)'
      BY <2>3, <1>3
    <2>. QED  BY <2>1, <2>2, <2>4 DEF Spent
  <1>5. \A h \in regs' : /\ h.draw < seq'
                         /\ h.phase = "open" => h.claims = {} /\ h.draw + Cardinality(Touched(h)) <= seq'
    BY <1>1 DEF Numbered
  <1>6. \A h, j \in regs' : h # j => /\ h.draw # j.draw
                                     /\ h.phase = "open" /\ j.phase = "open" => Drawn(h) \cap Drawn(j) = {}
    BY DEF Numbered
  <1>. QED  BY <1>4, <1>5, <1>6 DEF Numbered, Drawn, Touched

\* A call that begins draws numbers above all others.
LEMMA NumberedBegun ==
    ASSUME TypeOK, Numbered, rows' = rows, NEW g \in Reg, regs' = regs \cup {g}, g.phase = "open", g.claims = {},
           g.draw = seq, Cardinality(Touched(g)) \in Nat \ {0}, seq' = seq + Cardinality(Touched(g))
    PROVE  Numbered'
  <1>1. seq \in Nat /\ \A h \in regs : h.draw \in Nat /\ Cardinality(Touched(h)) \in Nat
    BY RegFacts, TypesBefore
  <1>2. \A h \in regs : h.phase = "open" => Drawn(h) \subseteq 1 .. seq
    BY <1>1 DEF Numbered, Drawn
  <1>3. Drawn(g) \cap (0 .. seq) = {}
    BY <1>1 DEF Drawn
  <1>4. ASSUME NEW s, Spent(s)  PROVE Spent(s)'
    <2>1. s \in 0 .. seq /\ s \in 0 .. seq'
      BY <1>1, <1>4 DEF Spent
    <2>2. \A h \in regs' : h.phase = "open" => s \notin Drawn(h)
      BY <2>1, <1>3, <1>4 DEF Spent
    <2>. QED  BY <2>1, <2>2 DEF Spent
  <1>5. \A r \in Resources : Spent(rows[r].owner)' /\ Spent(rows[r].staleSeq)'
    <2>1. \A r \in Resources : Spent(rows[r].owner) /\ Spent(rows[r].staleSeq)
      BY DEF Numbered
    <2>2. \A s : Spent(s) => Spent(s)'
      BY <1>4
    <2>. QED  BY <2>1, <2>2 DEF Spent
  <1>6. \A h \in regs' : /\ h.draw < seq'
                         /\ h.phase = "open" => h.claims = {} /\ h.draw + Cardinality(Touched(h)) <= seq'
    BY <1>1 DEF Numbered
  <1>7. \A h, j \in regs' : h # j => /\ h.draw # j.draw
                                     /\ h.phase = "open" /\ j.phase = "open" => Drawn(h) \cap Drawn(j) = {}
    <2>1. \A h \in regs : h.draw # g.draw /\ (h.phase = "open" => Drawn(h) \cap Drawn(g) = {} /\ Drawn(g) \cap Drawn(h) = {})
      BY <1>1, <1>2, <1>3 DEF Numbered
    <2>2. \A h, j \in regs : h # j => /\ h.draw # j.draw
                                      /\ h.phase = "open" /\ j.phase = "open" => Drawn(h) \cap Drawn(j) = {}
      BY DEF Numbered
    <2>. QED  BY <2>1, <2>2
  <1>. QED  BY <1>5, <1>6, <1>7 DEF Numbered, Drawn, Touched

-----------------------------------------------------------------------------
(* Who holds a row's work *)

InQueue(r, h) == \E e \in entries : e.r = r /\ h = <<"queue", 0, e>>

InCall(r, h) == \E g \in regs : \E e \in g.claims : e.r = r /\ h = <<"call", g.draw, e>>

InTask(r, h) == \E a \in Actors : tasks[a] # Idle /\ tasks[a].entry.r = r /\ h = <<"task", a, tasks[a].entry>>

\* The three places work can be in.
LEMMA HolderCases ==
    ASSUME NEW r, NEW h
    PROVE  /\ h \in Holders(r) <=> InQueue(r, h) \/ InCall(r, h) \/ InTask(r, h)
           /\ h \in Holders(r)' <=> InQueue(r, h)' \/ InCall(r, h)' \/ InTask(r, h)'
  <1>1. h \in Holders(r) <=> InQueue(r, h) \/ InCall(r, h) \/ InTask(r, h)
    BY DEF Holders, InQueue, InCall, InTask
  <1>2. h \in Holders(r)' <=> InQueue(r, h)' \/ InCall(r, h)' \/ InTask(r, h)'
    BY DEF Holders, InQueue, InCall, InTask
  <1>. QED  BY <1>1, <1>2

\* A row's work is in one place, under the row's own token and a live lease.
HeldOnce(r) ==
    /\ \A h, k \in Holders(r) : h = k
    /\ Holders(r) # {} => rows[r].owner # 0 /\ rows[r].live
    /\ \A h \in Holders(r) : h[3].token = rows[r].owner

\* A claimed row's work is somewhere.
Watched(r) == rows[r].owner # 0 => Alive(r)

\* The step keeps both of r.
Keeps(r) == (used'.lapses = 0 /\ HeldOnce(r) => HeldOnce(r)') /\ (used'.crashes = 0 /\ Watched(r) => Watched(r)')

\* The work stays where it is, and with it the owner and the lease.
LEMMA WorkStays ==
    ASSUME NEW r \in Resources, Holders(r)' = Holders(r), rows'[r].owner = rows[r].owner,
           (rows[r].live => rows'[r].live) \/ used'.lapses # 0 \/ ~Alive(r)
    PROVE  Keeps(r)
  <1>1. ASSUME used'.lapses = 0, HeldOnce(r)  PROVE HeldOnce(r)'
    <2>1. Holders(r) # {} => Alive(r)
      BY <1>1 DEF HeldOnce, Alive
    <2>2. Holders(r) # {} => rows'[r].live
      BY <2>1, <1>1 DEF HeldOnce
    <2>. QED  BY <2>2, <1>1 DEF HeldOnce
  <1>2. Watched(r) => Watched(r)'
    BY DEF Watched, Alive
  <1>. QED  BY <1>1, <1>2 DEF Keeps

\* The work is given up and the row released.
LEMMA WorkReleased ==
    ASSUME NEW r \in Resources, Formed(rows[r]), NEW p \in Holders(r), Holders(r)' = Holders(r) \ {p},
           RowReleased(rows[r], rows'[r], p[3].token)
    PROVE  Keeps(r)
  <1>1. HeldOnce(r) => HeldOnce(r)'
    BY DEF HeldOnce
  <1>2. ASSUME Watched(r), rows'[r].owner # 0  PROVE Alive(r)'
    <2>1. ~Holds(rows[r], p[3].token) /\ rows'[r].owner = rows[r].owner
      BY <1>2 DEF RowReleased
    <2>2. rows[r].present
      BY <1>2, <2>1 DEF Formed
    <2>3. p[3].token # rows[r].owner
      BY <1>2, <2>1, <2>2 DEF Holds
    <2>4. PICK h \in Holders(r) : h[3].token = rows[r].owner
      BY <1>2, <2>1 DEF Watched, Alive
    <2>. QED  BY <2>1, <2>3, <2>4 DEF Alive
  <1>. QED  BY <1>1, <1>2 DEF Keeps, Watched

\* The work is given up by another than the row's owner.
LEMMA WorkDropped ==
    ASSUME NEW r \in Resources, Formed(rows[r]), NEW p \in Holders(r), Holders(r)' = Holders(r) \ {p},
           \/ rows'[r].owner = 0
           \/ ~Holds(rows[r], p[3].token) /\ rows'[r].owner = rows[r].owner
    PROVE  Keeps(r)
  <1>1. HeldOnce(r) => HeldOnce(r)'
    BY DEF HeldOnce
  <1>2. ASSUME Watched(r), rows'[r].owner # 0  PROVE Alive(r)'
    <2>1. ~Holds(rows[r], p[3].token) /\ rows'[r].owner = rows[r].owner
      BY <1>2
    <2>2. rows[r].present
      BY <1>2, <2>1 DEF Formed
    <2>3. p[3].token # rows[r].owner
      BY <1>2, <2>1, <2>2 DEF Holds
    <2>4. PICK h \in Holders(r) : h[3].token = rows[r].owner
      BY <1>2, <2>1 DEF Watched, Alive
    <2>. QED  BY <2>1, <2>3, <2>4 DEF Alive
  <1>. QED  BY <1>1, <1>2 DEF Keeps, Watched

\* The work passes from one to another, who holds the row's token.
LEMMA WorkPassed ==
    ASSUME NEW r \in Resources, NEW p \in Holders(r), NEW q, Holders(r)' = (Holders(r) \ {p}) \cup {q},
           rows'[r].owner # 0, q[3].token = rows'[r].owner, rows[r].live => rows'[r].live
    PROVE  Keeps(r)
  <1>1. ASSUME HeldOnce(r)  PROVE HeldOnce(r)'
    <2>1. Holders(r)' = {q} /\ rows'[r].live
      BY <1>1 DEF HeldOnce
    <2>. QED  BY <2>1 DEF HeldOnce
  <1>2. Alive(r)'
    BY DEF Alive
  <1>. QED  BY <1>1, <1>2 DEF Keeps, Watched

\* New work, of a row that may be claimed.
LEMMA WorkClaimed ==
    ASSUME NEW r \in Resources, NEW q, q \in Holders(r)', Claimable(rows[r]),
           HeldOnce(r) /\ Holders(r) = {} => Holders(r)' = {q},
           rows'[r].owner # 0, rows'[r].live, q[3].token = rows'[r].owner
    PROVE  Keeps(r)
  <1>1. ASSUME HeldOnce(r)  PROVE HeldOnce(r)'
    <2>1. Holders(r) = {}
      BY <1>1 DEF HeldOnce, Claimable
    <2>2. Holders(r)' = {q}
      BY <2>1, <1>1
    <2>. QED  BY <2>2 DEF HeldOnce
  <1>2. Alive(r)'
    BY DEF Alive
  <1>. QED  BY <1>1, <1>2 DEF Keeps, Watched

\* The work of no row moves when no claim, task or queued entry does.
LEMMA NothingMoves ==
    ASSUME Actors' = Actors, entries' = entries, SameWork, NEW g,
           \/ regs' = regs
           \/ g.claims = {} /\ (regs' = regs \cup {g} \/ regs' = regs \ {g})
           \/ /\ g \in regs
              /\ \E k : k.draw = g.draw /\ k.claims = g.claims /\ regs' = (regs \ {g}) \cup {k}
    PROVE  \A r \in Resources : Holders(r)' = Holders(r)
  <1>. SUFFICES ASSUME NEW r \in Resources, NEW h  PROVE h \in Holders(r)' <=> h \in Holders(r)
    OBVIOUS
  <1>1. InQueue(r, h)' <=> InQueue(r, h)
    BY DEF InQueue
  <1>2. InTask(r, h)' <=> InTask(r, h)
    BY DEF InTask, SameWork
  <1>3. InCall(r, h)' <=> InCall(r, h)
    <2>1. CASE regs' = regs
      BY <2>1 DEF InCall
    <2>2. CASE g.claims = {} /\ regs' = regs \cup {g}
      BY <2>2 DEF InCall
    <2>3. CASE g.claims = {} /\ regs' = regs \ {g}
      BY <2>3 DEF InCall
    <2>4. CASE g \in regs /\ \E k : k.draw = g.draw /\ k.claims = g.claims /\ regs' = (regs \ {g}) \cup {k}
      <3>1. PICK k : k.draw = g.draw /\ k.claims = g.claims /\ regs' = (regs \ {g}) \cup {k}
        BY <2>4
      <3>. QED  BY <2>4, <3>1 DEF InCall
    <2>. QED  BY <2>1, <2>2, <2>3, <2>4
  <1>. QED  BY <1>1, <1>2, <1>3, HolderCases

\* Entries are handed over between the queue and a task, and calls stay.
LEMMA QueueMoves ==
    ASSUME Actors' = Actors, regs' = regs, tasks' = tasks, NEW e \in entries, entries' = entries \ {e}
    PROVE  /\ <<"queue", 0, e>> \in Holders(e.r) /\ Holders(e.r)' = Holders(e.r) \ {<<"queue", 0, e>>}
           /\ \A r \in Resources \ {e.r} : Holders(r)' = Holders(r)
  <1>1. \A r, h : (InCall(r, h)' <=> InCall(r, h)) /\ (InTask(r, h)' <=> InTask(r, h))
    BY DEF InCall, InTask
  <1>2. \A r, h : InQueue(r, h)' <=> InQueue(r, h) /\ h # <<"queue", 0, e>>
    BY DEF InQueue
  <1>3. \A r, h : InQueue(r, h) /\ h = <<"queue", 0, e>> => r = e.r
    BY DEF InQueue
  <1>4. \A r : ~InCall(r, <<"queue", 0, e>>) /\ ~InTask(r, <<"queue", 0, e>>)
    BY DEF InCall, InTask
  <1>5. InQueue(e.r, <<"queue", 0, e>>)
    BY DEF InQueue
  <1>6. \A r, h : h \in Holders(r)' <=> h \in Holders(r) /\ h # <<"queue", 0, e>>
    BY <1>1, <1>2, <1>4, HolderCases
  <1>7. \A r \in Resources \ {e.r} : <<"queue", 0, e>> \notin Holders(r)
    BY <1>3, <1>4, HolderCases
  <1>8. <<"queue", 0, e>> \in Holders(e.r)
    BY <1>5, HolderCases
  <1>9. Holders(e.r)' = Holders(e.r) \ {<<"queue", 0, e>>}
    BY <1>6
  <1>10. \A r \in Resources \ {e.r} : Holders(r)' = Holders(r)
    <2>. SUFFICES ASSUME NEW r \in Resources \ {e.r}, NEW h  PROVE h \in Holders(r)' <=> h \in Holders(r)
      OBVIOUS
    <2>. QED  BY <1>6, <1>7
  <1>. QED  BY <1>8, <1>9, <1>10

\* A task takes its entry from the queue.
LEMMA TakeMoves ==
    ASSUME TypeOK, Actors' = Actors, regs' = regs, NEW a \in Actors, tasks[a] = Idle, NEW t \in Task, t # Idle,
           tasks' = [tasks EXCEPT ![a] = t], t.entry \in entries, entries' = entries \ {t.entry}
    PROVE  LET e == t.entry
           IN  /\ <<"queue", 0, e>> \in Holders(e.r)
               /\ Holders(e.r)' = (Holders(e.r) \ {<<"queue", 0, e>>}) \cup {<<"task", a, e>>}
               /\ \A r \in Resources \ {e.r} : Holders(r)' = Holders(r)
  <1>. DEFINE e == t.entry
  <1>1. tasks'[a] = t /\ \A b \in Actors \ {a} : tasks'[b] = tasks[b]
    BY TaskPut
  <1>2. \A r, h : InCall(r, h)' <=> InCall(r, h)
    BY DEF InCall
  <1>3. \A r, h : InQueue(r, h)' <=> InQueue(r, h) /\ h # <<"queue", 0, e>>
    BY DEF InQueue
  <1>4. \A r, h : InTask(r, h)' <=> InTask(r, h) \/ (r = e.r /\ h = <<"task", a, e>>)
    BY <1>1 DEF InTask
  <1>5. \A r, h : InQueue(r, h) /\ h = <<"queue", 0, e>> => r = e.r
    BY DEF InQueue
  <1>6. \A r : ~InCall(r, <<"queue", 0, e>>) /\ ~InTask(r, <<"queue", 0, e>>)
    BY DEF InCall, InTask
  <1>7. <<"queue", 0, e>> \in Holders(e.r)
    <2>1. InQueue(e.r, <<"queue", 0, e>>)
      BY DEF InQueue
    <2>. QED  BY <2>1, HolderCases
  <1>. HIDE DEF e
  <1>8. \A r, h : h \in Holders(r)' <=> \/ h \in Holders(r) /\ h # <<"queue", 0, e>>
                                        \/ r = e.r /\ h = <<"task", a, e>>
    BY <1>2, <1>3, <1>4, <1>6, HolderCases
  <1>9. \A r \in Resources \ {e.r} : <<"queue", 0, e>> \notin Holders(r)
    BY <1>5, <1>6, HolderCases
  <1>10. Holders(e.r)' = (Holders(e.r) \ {<<"queue", 0, e>>}) \cup {<<"task", a, e>>}
    BY <1>8
  <1>11. \A r \in Resources \ {e.r} : Holders(r)' = Holders(r)
    <2>. SUFFICES ASSUME NEW r \in Resources \ {e.r}, NEW h  PROVE h \in Holders(r)' <=> h \in Holders(r)
      OBVIOUS
    <2>. QED  BY <1>8, <1>9
  <1>. QED  BY <1>7, <1>10, <1>11 DEF e

\* The task a, holding p of the resource x, ends and queues the entries F,
\* which are then held as Q.
TaskEnds(a, x, p, F, Q) ==
    /\ tasks[a] # Idle /\ tasks' = [tasks EXCEPT ![a] = Idle] /\ x = Id(a) /\ p = <<"task", a, tasks[a].entry>>
    /\ entries' = entries \cup F /\ \A e \in F : e.r = x
    /\ \A h : h \in Q <=> \E e \in F : h = <<"queue", 0, e>>

\* Then p leaves the holders of x and Q joins them.
LEMMA EndMoves ==
    ASSUME TypeOK, Actors' = Actors, regs' = regs, NEW a \in Actors, NEW x, NEW p, NEW F, NEW Q,
           TaskEnds(a, x, p, F, Q)
    PROVE  /\ p \in Holders(x) /\ Holders(x)' = (Holders(x) \ {p}) \cup Q
           /\ \A r \in Resources \ {x} : Holders(r)' = Holders(r)
  <1>. USE DEF TaskEnds
  <1>1. tasks'[a] = Idle /\ \A b \in Actors \ {a} : tasks'[b] = tasks[b]
    BY TaskPut
  <1>2. \A r, h : InCall(r, h)' <=> InCall(r, h)
    BY DEF InCall
  <1>3. \A r, h : InQueue(r, h)' <=> InQueue(r, h) \/ (r = x /\ h \in Q)
    BY DEF InQueue
  <1>4. \A r, h : InTask(r, h)' <=> InTask(r, h) /\ h # p
    BY <1>1 DEF InTask
  <1>5. \A r, h : InTask(r, h) /\ h = p => r = x
    BY DEF InTask, Id
  <1>6. \A r : ~InCall(r, p) /\ ~InQueue(r, p)
    BY DEF InCall, InQueue
  <1>7. p \in Holders(x)
    <2>1. InTask(x, p)
      BY DEF InTask, Id
    <2>. QED  BY <2>1, HolderCases
  <1>8. p \notin Q
    BY <1>6 DEF InQueue
  <1>9. \A r, h : h \in Holders(r)' <=> (h \in Holders(r) /\ h # p) \/ (r = x /\ h \in Q)
    BY <1>2, <1>3, <1>4, <1>6, <1>8, HolderCases
  <1>10. \A r \in Resources \ {x} : p \notin Holders(r)
    BY <1>5, <1>6, HolderCases
  <1>11. Holders(x)' = (Holders(x) \ {p}) \cup Q
    BY <1>9
  <1>12. \A r \in Resources \ {x} : Holders(r)' = Holders(r)
    <2>. SUFFICES ASSUME NEW r \in Resources \ {x}, NEW h  PROVE h \in Holders(r)' <=> h \in Holders(r)
      OBVIOUS
    <2>. QED  BY <1>9, <1>10
  <1>. QED  BY <1>7, <1>11, <1>12

\* What a step claims goes to the queue.
LEMMA ClaimMoves ==
    ASSUME Actors' = Actors, regs' = regs, SameWork, NEW C \in SUBSET Entry, NewClaims(C),
           entries' = entries \cup C
    PROVE  \A r \in Resources : Keeps(r)
  <1>. SUFFICES ASSUME NEW r \in Resources  PROVE Keeps(r)
    OBVIOUS
  <1>. DEFINE Q == {<<"queue", 0, e>> : e \in {f \in C : f.r = r}}
  <1>1. \A h : (InCall(r, h)' <=> InCall(r, h)) /\ (InTask(r, h)' <=> InTask(r, h))
    BY DEF InCall, InTask, SameWork
  <1>2. \A h : InQueue(r, h)' <=> InQueue(r, h) \/ h \in Q
    BY DEF InQueue
  <1>. HIDE DEF Q
  <1>3. \A h : h \in Holders(r)' <=> h \in Holders(r) \/ h \in Q
    BY <1>1, <1>2, HolderCases
  <1>4. CASE \E e \in C : e.r = r
    <2>1. PICK e \in C : e.r = r
      BY <1>4
    <2>. DEFINE q == <<"queue", 0, e>>
    <2>2. Q = {q} /\ q[3] = e
      BY <2>1 DEF NewClaims, Q
    <2>3. Claimable(rows[r]) /\ rows'[r].owner # 0 /\ rows'[r].live /\ q[3].token = rows'[r].owner
      BY <2>1, <2>2 DEF NewClaims
    <2>. HIDE DEF q
    <2>4. q \in Holders(r)' /\ (Holders(r) = {} => Holders(r)' = {q})
      BY <2>2, <1>3
    <2>. QED  BY <2>3, <2>4, WorkClaimed
  <1>5. CASE ~\E e \in C : e.r = r
    <2>1. rows'[r].owner = rows[r].owner /\ rows'[r].live = rows[r].live
      BY <1>5 DEF NewClaims
    <2>2. Q = {}
      BY <1>5 DEF Q
    <2>3. Holders(r)' = Holders(r)
      BY <2>2, <1>3
    <2>. QED  BY <2>1, <2>3, WorkStays
  <1>. QED  BY <1>4, <1>5

\* What a commit claims is held by the call, which held nothing before.
LEMMA CommitMoves ==
    ASSUME Actors' = Actors, entries' = entries, SameWork, NEW g \in regs, g.claims = {},
           NEW C \in SUBSET Entry, NewClaims(C),
           NEW k, k.draw = g.draw, k.claims = C, regs' = (regs \ {g}) \cup {k}
    PROVE  \A r \in Resources : Keeps(r)
  <1>. SUFFICES ASSUME NEW r \in Resources  PROVE Keeps(r)
    OBVIOUS
  <1>. DEFINE Q == {<<"call", g.draw, e>> : e \in {f \in C : f.r = r}}
  <1>1. \A h : (InQueue(r, h)' <=> InQueue(r, h)) /\ (InTask(r, h)' <=> InTask(r, h))
    BY DEF InQueue, InTask, SameWork
  <1>2. \A h : InCall(r, h)' <=> InCall(r, h) \/ h \in Q
    BY DEF InCall
  <1>. HIDE DEF Q
  <1>3. \A h : h \in Holders(r)' <=> h \in Holders(r) \/ h \in Q
    BY <1>1, <1>2, HolderCases
  <1>4. CASE \E e \in C : e.r = r
    <2>1. PICK e \in C : e.r = r
      BY <1>4
    <2>. DEFINE q == <<"call", g.draw, e>>
    <2>2. Q = {q} /\ q[3] = e
      BY <2>1 DEF NewClaims, Q
    <2>3. Claimable(rows[r]) /\ rows'[r].owner # 0 /\ rows'[r].live /\ q[3].token = rows'[r].owner
      BY <2>1, <2>2 DEF NewClaims
    <2>. HIDE DEF q
    <2>4. q \in Holders(r)' /\ (Holders(r) = {} => Holders(r)' = {q})
      BY <2>2, <1>3
    <2>. QED  BY <2>3, <2>4, WorkClaimed
  <1>5. CASE ~\E e \in C : e.r = r
    <2>1. rows'[r].owner = rows[r].owner /\ rows'[r].live = rows[r].live
      BY <1>5 DEF NewClaims
    <2>2. Q = {}
      BY <1>5 DEF Q
    <2>3. Holders(r)' = Holders(r)
      BY <2>2, <1>3
    <2>. QED  BY <2>1, <2>3, WorkStays
  <1>. QED  BY <1>4, <1>5

\* A call hands its claims to the queue, with those it made last.
LEMMA SubmitMoves ==
    ASSUME Actors' = Actors, Numbered, tasks' = tasks, NEW g \in regs, regs' = regs \ {g},
           NEW C \in SUBSET Entry, NewClaims(C), entries' = entries \cup g.claims \cup C
    PROVE  \A r \in Resources : Keeps(r)
  <1>. SUFFICES ASSUME NEW r \in Resources  PROVE Keeps(r)
    OBVIOUS
  <1>. DEFINE Mine == {e \in g.claims : e.r = r}
              From == {<<"call", g.draw, e>> : e \in Mine}
              To == {<<"queue", 0, e>> : e \in Mine}
              Q == {<<"queue", 0, e>> : e \in {f \in C : f.r = r}}
  <1>1. \A h : InTask(r, h)' <=> InTask(r, h)
    BY DEF InTask
  <1>2. \A h : InQueue(r, h)' <=> InQueue(r, h) \/ h \in To \/ h \in Q
    BY DEF InQueue
  <1>3. \A h : InCall(r, h)' <=> InCall(r, h) /\ h \notin From
    <2>1. ASSUME NEW k \in regs, k.draw = g.draw  PROVE k = g
      BY <2>1 DEF Numbered
    <2>. QED  BY <2>1 DEF InCall
  <1>4. \A h : InTask(r, h) \/ InQueue(r, h) => h \notin From
    BY DEF InTask, InQueue
  <1>5. From \subseteq Holders(r)
    <2>1. \A h \in From : InCall(r, h)
      BY DEF InCall
    <2>. QED  BY <2>1, HolderCases
  <1>. HIDE DEF From, To, Q
  <1>6. \A h : h \in Holders(r)' <=> (h \in Holders(r) /\ h \notin From) \/ h \in To \/ h \in Q
    BY <1>1, <1>2, <1>3, <1>4, HolderCases
  <1>7. CASE \E e \in C : e.r = r
    <2>1. PICK e \in C : e.r = r
      BY <1>7
    <2>. DEFINE q == <<"queue", 0, e>>
    <2>2. Q = {q} /\ q[3] = e
      BY <2>1 DEF NewClaims, Q
    <2>3. Claimable(rows[r]) /\ rows'[r].owner # 0 /\ rows'[r].live /\ q[3].token = rows'[r].owner
      BY <2>1, <2>2 DEF NewClaims
    <2>4. Holders(r) = {} => To = {}
      <3>1. Holders(r) = {} => Mine = {}
        BY <1>5 DEF From
      <3>. QED  BY <3>1 DEF To
    <2>. HIDE DEF q, Mine
    <2>5. q \in Holders(r)' /\ (Holders(r) = {} => Holders(r)' = {q})
      BY <2>2, <2>4, <1>6
    <2>. QED  BY <2>3, <2>5, WorkClaimed
  <1>8. CASE ~\E e \in C : e.r = r
    <2>1. rows'[r].owner = rows[r].owner /\ rows'[r].live = rows[r].live
      BY <1>8 DEF NewClaims
    <2>2. Q = {}
      BY <1>8 DEF Q
    <2>3. CASE Mine = {}
      <3>1. From = {} /\ To = {}
        BY <2>3 DEF From, To
      <3>2. Holders(r)' = Holders(r)
        BY <2>2, <3>1, <1>6
      <3>. QED  BY <2>1, <3>2, WorkStays
    <2>4. CASE Mine # {}
      <3>1. PICK e \in Mine : TRUE
        BY <2>4
      <3>. DEFINE p == <<"call", g.draw, e>>
                  q == <<"queue", 0, e>>
      <3>2. p \in From /\ p \in Holders(r) /\ q \in To /\ p[3] = e /\ q[3] = e
        BY <1>5 DEF From, To
      <3>3. ASSUME HeldOnce(r)  PROVE HeldOnce(r)'
        <4>1. Holders(r) = {p} /\ rows[r].owner # 0 /\ rows[r].live /\ e.token = rows[r].owner
          BY <3>2, <3>3 DEF HeldOnce
        <4>2. \A f \in Mine : <<"call", g.draw, f>> = p
          BY <4>1, <1>5 DEF From
        <4>3. \A f \in Mine : f = e
          BY <4>2
        <4>4. To = {q}
          BY <4>3 DEF To
        <4>5. Holders(r)' = {q}
          BY <4>1, <4>4, <3>2, <2>2, <1>6
        <4>. QED  BY <4>1, <4>5, <3>2, <2>1 DEF HeldOnce
      <3>4. ASSUME Watched(r), rows'[r].owner # 0  PROVE Alive(r)'
        <4>1. PICK h \in Holders(r) : h[3].token = rows[r].owner
          BY <3>4, <2>1 DEF Watched, Alive
        <4>2. CASE h \in From
          <5>1. PICK f \in Mine : h = <<"call", g.draw, f>>
            BY <4>2 DEF From
          <5>2. <<"queue", 0, f>> \in Holders(r)'
            BY <1>6 DEF To
          <5>3. h[3] = f /\ <<"queue", 0, f>>[3] = f
            BY <5>1
          <5>. QED  BY <5>2, <5>3, <4>1, <2>1 DEF Alive
        <4>3. CASE h \notin From
          BY <4>1, <4>3, <1>6, <2>1 DEF Alive
        <4>. QED  BY <4>2, <4>3
      <3>. QED  BY <3>3, <3>4 DEF Keeps, Watched
    <2>. QED  BY <2>3, <2>4
  <1>. QED  BY <1>7, <1>8

\* Work that is lost with its process leaves no second holder.
LEMMA LoseMoves ==
    ASSUME TypeOK, Actors' = Actors, rows' = rows, used'.crashes # 0,
           \/ \E e \in entries : entries' = entries \ {e} /\ UNCHANGED <<regs, tasks>>
           \/ \E a \in Actors : tasks' = [tasks EXCEPT ![a] = Idle] /\ UNCHANGED <<regs, entries>>
           \/ \E g \in regs : regs' = regs \ {g} /\ UNCHANGED <<entries, tasks>>
    PROVE  \A r \in Resources : Keeps(r)
  <1>. SUFFICES ASSUME NEW r \in Resources  PROVE Keeps(r)
    OBVIOUS
  <1>1. entries' \subseteq entries /\ regs' \subseteq regs
    OBVIOUS
  <1>2. \A b \in Actors : tasks'[b] = tasks[b] \/ tasks'[b] = Idle
    BY TaskPut
  <1>3. \A h : (InQueue(r, h)' => InQueue(r, h)) /\ (InCall(r, h)' => InCall(r, h))
    BY <1>1 DEF InQueue, InCall
  <1>4. \A h : InTask(r, h)' => InTask(r, h)
    BY <1>2 DEF InTask
  <1>5. Holders(r)' \subseteq Holders(r)
    BY <1>3, <1>4, HolderCases
  <1>6. HeldOnce(r) => HeldOnce(r)'
    BY <1>5 DEF HeldOnce
  <1>. QED  BY <1>6 DEF Keeps

-----------------------------------------------------------------------------
(* The owner of a row: every step *)

\* The state is well formed, numbers stay apart, and a row's claimed work is
\* in one place while no lease has lapsed, and somewhere while nothing crashed.
OwnInv ==
    /\ TypeOK /\ RowsFormed /\ Numbered
    /\ used.lapses = 0 => \A r \in Resources : HeldOnce(r)
    /\ used.crashes = 0 => \A r \in Resources : Watched(r)

\* What a step of Indexer does to it.
StepGoal == StepTyped /\ Numbered' /\ \A r \in Resources : Keeps(r)

\* A step that moves no work, of a task or of time.
LEMMA QuietGoal ==
    ASSUME TypeOK, Numbered, Actors' = Actors, StepTyped, UNCHANGED <<regs, entries>>, SameWork, seq' >= seq,
           \A r \in Resources : /\ rows'[r].owner = rows[r].owner /\ rows'[r].staleSeq = rows[r].staleSeq
                                /\ (rows[r].live => rows'[r].live) \/ used'.lapses # 0 \/ ~Alive(r)
    PROVE  StepGoal
  <1>1. \A r \in Resources : Holders(r)' = Holders(r)
    BY NothingMoves
  <1>2. \A r \in Resources : Keeps(r)
    BY <1>1, WorkStays
  <1>3. Renumbered(seq + 1 .. seq') /\ seq' \in Nat
    BY DEF Renumbered, StepTyped
  <1>4. Numbered'
    BY <1>3, NumberedKept
  <1>. QED  BY <1>2, <1>4 DEF StepGoal

\* A wider set of numbers.
LEMMA RenumberedWider == ASSUME NEW M, NEW N, Renumbered(M), M \subseteq N  PROVE Renumbered(N)
  BY DEF Renumbered

\* Nothing moves without a step of a task.
LEMMA TasksSame == ASSUME tasks' = tasks  PROVE SameWork
  BY DEF SameWork

\* The steps of calls.
LEMMA CallGoal ==
    ASSUME TypeOK, RowsFormed, Numbered, Actors' = Actors, RegBegin \/ \E g \in regs : Register(g)
    PROVE  StepGoal
  <1>1. CASE RegBegin
    <2>1. StepTyped /\ UNCHANGED <<rows, entries, tasks>>
      BY <1>1, BeginCallStep
    <2>2. PICK g \in Reg : /\ regs' = regs \cup {g} /\ g.phase = "open" /\ g.claims = {} /\ g.draw = seq
                           /\ Cardinality(Touched(g)) \in Nat \ {0}
                           /\ seq' = seq + Cardinality(Touched(g))
      BY <1>1, BeginCallStep
    <2>3. Numbered'
      BY <2>1, <2>2, NumberedBegun
    <2>4. \A r \in Resources : Holders(r)' = Holders(r)
      BY <2>1, <2>2, NothingMoves, TasksSame
    <2>5. \A r \in Resources : Keeps(r)
      BY <2>1, <2>4, WorkStays
    <2>. QED  BY <2>1, <2>3, <2>5 DEF StepGoal
  <1>2. ASSUME NEW g \in regs, RegCommit(g)  PROVE StepGoal
    <2>1. /\ StepTyped /\ UNCHANGED <<entries, tasks>> /\ g.phase = "open" /\ seq' >= seq
          /\ Renumbered((seq + 1 .. seq') \cup Drawn(g))
      BY <1>2, CommitStep
    <2>2. PICK C \in SUBSET Entry :
                /\ NewClaims(C)
                /\ \/ C = {} /\ regs' = regs \ {g}
                   \/ \E k \in Reg : /\ k.draw = g.draw /\ k.phase # "open" /\ k.claims = C
                                     /\ regs' = (regs \ {g}) \cup {k}
      BY <1>2, CommitStep
    <2>3. g.claims = {} /\ SameWork /\ seq' \in Nat
      BY <2>1, TasksSame DEF Numbered, StepTyped
    <2>4. CASE C = {} /\ regs' = regs \ {g}
      <3>1. Numbered'
        BY <2>1, <2>3, <2>4, NumberedPast
      <3>2. \A r \in Resources : Holders(r)' = Holders(r)
        BY <2>1, <2>3, <2>4, NothingMoves
      <3>3. \A r \in Resources : rows'[r].owner = rows[r].owner /\ rows'[r].live = rows[r].live
        BY <2>2, <2>4 DEF NewClaims
      <3>4. \A r \in Resources : Keeps(r)
        BY <3>2, <3>3, WorkStays
      <3>. QED  BY <2>1, <3>1, <3>4 DEF StepGoal
    <2>5. ASSUME NEW k \in Reg, k.draw = g.draw, k.phase # "open", k.claims = C, regs' = (regs \ {g}) \cup {k}
          PROVE  StepGoal
      <3>1. Numbered'
        <4>. DEFINE K == {k}
        <4>1. regs' = (regs \ {g}) \cup K /\ (\A x \in K : x.draw = g.draw /\ x.phase # "open")
              /\ \A x, y \in K : x = y
          BY <2>5
        <4>. HIDE DEF K
        <4>. QED  BY <4>1, <2>1, <2>3, NumberedPast
      <3>2. \A r \in Resources : Keeps(r)
        BY <2>1, <2>2, <2>3, <2>5, CommitMoves
      <3>. QED  BY <2>1, <3>1, <3>2 DEF StepGoal
    <2>. QED  BY <2>2, <2>4, <2>5
  <1>3. ASSUME NEW g \in regs, RegAbort(g)  PROVE StepGoal
    <2>1. StepTyped /\ UNCHANGED <<seq, rows, entries, tasks>> /\ g.phase = "open" /\ regs' = regs \ {g}
      BY <1>3, AbortStep
    <2>2. g.claims = {} /\ SameWork
      BY <2>1, TasksSame DEF Numbered
    <2>3. \A r \in Resources : Holders(r)' = Holders(r)
      BY <2>1, <2>2, NothingMoves
    <2>4. \A r \in Resources : Keeps(r)
      BY <2>1, <2>3, WorkStays
    <2>5. seq' \in Nat /\ seq' >= seq /\ Renumbered(seq + 1 .. seq')
      BY <2>1, NoClaims, RenumberedWider, TypesBefore
    <2>6. Numbered'
      BY <2>1, <2>5, NumberedKept
    <2>. QED  BY <2>1, <2>4, <2>6 DEF StepGoal
  <1>4. ASSUME NEW g \in regs, RegFanout(g), ParentsOf(g.accepted) \ (g.accepted \cup g.marked) # {}
        PROVE  StepGoal
    <2>1. StepTyped /\ UNCHANGED <<seq, rows, entries, tasks>> /\ g.phase # "open"
      BY <1>4, MissedStep
    <2>2. PICK k \in Reg : /\ k.draw = g.draw /\ k.phase # "open" /\ k.claims = g.claims
                           /\ regs' = (regs \ {g}) \cup {k}
      BY <1>4, MissedStep
    <2>3. \A r \in Resources : Holders(r)' = Holders(r)
      BY <2>1, <2>2, NothingMoves, TasksSame
    <2>4. \A r \in Resources : Keeps(r)
      BY <2>1, <2>3, WorkStays
    <2>5. Numbered'
      <3>. DEFINE K == {k}
      <3>1. regs' = (regs \ {g}) \cup K /\ (\A x \in K : x.draw = g.draw /\ x.phase # "open")
            /\ \A x, y \in K : x = y
        BY <2>2
      <3>2. seq' \in Nat /\ seq' >= seq /\ Renumbered({})
        BY <2>1, NoClaims, TypesBefore
      <3>. HIDE DEF K
      <3>. QED  BY <3>1, <3>2, NumberedPast
    <2>. QED  BY <2>1, <2>4, <2>5 DEF StepGoal
  <1>5. ASSUME NEW g \in regs,
               \/ RegFanout(g) /\ ParentsOf(g.accepted) \ (g.accepted \cup g.marked) = {}
               \/ RegMark(g) \/ RegFanoutFails(g)
        PROVE  StepGoal
    <2>1. /\ StepTyped /\ tasks' = tasks /\ g.phase # "open" /\ regs' = regs \ {g} /\ seq' >= seq
          /\ Renumbered(seq + 1 .. seq')
          /\ \E C \in SUBSET Entry : NewClaims(C) /\ entries' = entries \cup g.claims \cup C
      BY <1>5, SubmitStep
    <2>2. \A r \in Resources : Keeps(r)
      BY <2>1, SubmitMoves
    <2>3. seq' \in Nat /\ regs' \subseteq regs
      BY <2>1 DEF StepTyped
    <2>4. Numbered'
      BY <2>1, <2>3, NumberedKept
    <2>. QED  BY <2>1, <2>2, <2>4 DEF StepGoal
  <1>6. ASSUME NEW g \in regs, RegCrash(g)  PROVE StepGoal
    <2>1. /\ StepTyped /\ UNCHANGED <<seq, rows>> /\ used'.crashes # 0
          /\ \/ \E e \in entries : entries' = entries \ {e} /\ UNCHANGED <<regs, tasks>>
             \/ \E a \in Actors : tasks' = [tasks EXCEPT ![a] = Idle] /\ UNCHANGED <<regs, entries>>
             \/ \E k \in regs : regs' = regs \ {k} /\ k.phase # "open" /\ UNCHANGED <<entries, tasks>>
      BY <1>6, LoseStep
    <2>2. \A r \in Resources : Keeps(r)
      BY <2>1, LoseMoves
    <2>3. seq' \in Nat /\ seq' >= seq /\ regs' \subseteq regs
      BY <2>1, TypesBefore
    <2>4. Renumbered(seq + 1 .. seq')
      BY <2>1, NoClaims, RenumberedWider
    <2>5. Numbered'
      BY <2>3, <2>4, NumberedKept
    <2>. QED  BY <2>1, <2>2, <2>5 DEF StepGoal
  <1>. QED  BY <1>1, <1>2, <1>3, <1>4, <1>5, <1>6 DEF Register

\* A step that draws no number and lets no call begin.
LEMMA PlainNumbers ==
    ASSUME TypeOK, Numbered, seq' = seq, regs' \subseteq regs, Renumbered({})
    PROVE  Numbered'
  <1>1. seq' \in Nat /\ seq' >= seq /\ Renumbered(seq + 1 .. seq')
    BY TypesBefore, RenumberedWider
  <1>. QED  BY <1>1, NumberedKept

\* The steps of the queue and of the sweep.
LEMMA QueueGoal ==
    ASSUME TypeOK, RowsFormed, Numbered, Actors' = Actors,
           \/ SweepList
           \/ \E e \in entries : Shed(e) \/ LoseEntry(e) \/ \E a \in Actors : Take(a, e) \/ TakeFails(a, e)
    PROVE  StepGoal
  <1>1. CASE SweepList
    <2>1. /\ StepTyped /\ UNCHANGED <<seq, regs, tasks>> /\ Renumbered({})
          /\ \E C \in SUBSET Entry : NewClaims(C) /\ entries' = entries \cup C
      BY <1>1, SweepStep
    <2>2. \A r \in Resources : Keeps(r)
      BY <2>1, ClaimMoves, TasksSame
    <2>3. Numbered'
      BY <2>1, PlainNumbers
    <2>. QED  BY <2>1, <2>2, <2>3 DEF StepGoal
  <1>2. ASSUME NEW e \in entries, Shed(e) \/ \E a \in Actors : TakeFails(a, e)  PROVE StepGoal
    <2>1. /\ StepTyped /\ UNCHANGED <<seq, regs, tasks>> /\ entries' = entries \ {e}
          /\ e \in Entry /\ e.r \in Resources /\ RowReleased(rows[e.r], rows'[e.r], e.token)
          /\ Renumbered({}) /\ \A x \in Resources \ {e.r} : rows'[x] = rows[x]
      BY <1>2, RefuseStep
    <2>. DEFINE p == <<"queue", 0, e>>
    <2>2. /\ p \in Holders(e.r) /\ Holders(e.r)' = Holders(e.r) \ {p} /\ p[3] = e
          /\ \A r \in Resources \ {e.r} : Holders(r)' = Holders(r)
      BY <2>1, QueueMoves
    <2>. HIDE DEF p
    <2>3. Keeps(e.r)
      <3>1. Formed(rows[e.r])
        BY <2>1 DEF RowsFormed
      <3>. QED  BY <2>1, <2>2, <3>1, WorkReleased
    <2>4. \A r \in Resources \ {e.r} : Keeps(r)
      BY <2>1, <2>2, WorkStays
    <2>5. Numbered'
      BY <2>1, PlainNumbers
    <2>. QED  BY <2>1, <2>3, <2>4, <2>5 DEF StepGoal
  <1>3. ASSUME NEW e \in entries, LoseEntry(e)  PROVE StepGoal
    <2>1. /\ StepTyped /\ UNCHANGED <<seq, rows>> /\ used'.crashes # 0
          /\ \/ \E f \in entries : entries' = entries \ {f} /\ UNCHANGED <<regs, tasks>>
             \/ \E a \in Actors : tasks' = [tasks EXCEPT ![a] = Idle] /\ UNCHANGED <<regs, entries>>
             \/ \E k \in regs : regs' = regs \ {k} /\ k.phase # "open" /\ UNCHANGED <<entries, tasks>>
      BY <1>3, LoseStep
    <2>2. \A r \in Resources : Keeps(r)
      BY <2>1, LoseMoves
    <2>3. Numbered'
      BY <2>1, NoClaims, PlainNumbers
    <2>. QED  BY <2>1, <2>2, <2>3 DEF StepGoal
  <1>4. ASSUME NEW e \in entries, NEW a \in Actors, Take(a, e)  PROVE StepGoal
    <2>1. /\ StepTyped /\ UNCHANGED <<seq, regs>> /\ entries' = entries \ {e} /\ tasks[a] = Idle
          /\ e \in Entry /\ e.r \in Resources /\ \A r \in Resources : SameOwner(r)
      BY <1>4, TakeStep
    <2>2. IF Holds(rows[e.r], e.token)
          THEN \E t \in Task : tasks' = [tasks EXCEPT ![a] = t] /\ t.entry = e
          ELSE tasks' = tasks
      BY <1>4, TakeStep
    <2>3. Renumbered({}) /\ Formed(rows[e.r])
      BY <2>1 DEF Renumbered, SameOwner, RowsFormed
    <2>4. Numbered'
      BY <2>1, <2>3, PlainNumbers
    <2>. DEFINE p == <<"queue", 0, e>>
                q == <<"task", a, e>>
    <2>5. p[3] = e /\ q[3] = e
      OBVIOUS
    <2>6. CASE Holds(rows[e.r], e.token)
      <3>1. PICK t \in Task : tasks' = [tasks EXCEPT ![a] = t] /\ t.entry = e
        BY <2>2, <2>6
      <3>2. t # Idle
        BY DEF Task, PC, Idle
      <3>3. /\ p \in Holders(e.r) /\ Holders(e.r)' = (Holders(e.r) \ {p}) \cup {q}
            /\ \A r \in Resources \ {e.r} : Holders(r)' = Holders(r)
        BY <2>1, <3>1, <3>2, TakeMoves
      <3>. HIDE DEF p, q
      <3>4. rows'[e.r].owner # 0 /\ q[3].token = rows'[e.r].owner /\ (rows[e.r].live => rows'[e.r].live)
        BY <2>1, <2>5, <2>6 DEF SameOwner, Holds
      <3>5. Keeps(e.r)
        BY <2>1, <3>3, <3>4, WorkPassed
      <3>6. \A r \in Resources \ {e.r} : Keeps(r)
        BY <2>1, <3>3, WorkStays DEF SameOwner
      <3>. QED  BY <2>1, <2>4, <3>5, <3>6 DEF StepGoal
    <2>7. CASE ~Holds(rows[e.r], e.token)
      <3>1. tasks' = tasks
        BY <2>2, <2>7
      <3>2. /\ p \in Holders(e.r) /\ Holders(e.r)' = Holders(e.r) \ {p}
            /\ \A r \in Resources \ {e.r} : Holders(r)' = Holders(r)
        BY <2>1, <3>1, QueueMoves
      <3>. HIDE DEF p, q
      <3>3. Keeps(e.r)
        BY <2>1, <2>3, <2>5, <2>7, <3>2, WorkDropped DEF SameOwner
      <3>4. \A r \in Resources \ {e.r} : Keeps(r)
        BY <2>1, <3>2, WorkStays DEF SameOwner
      <3>. QED  BY <2>1, <2>4, <3>3, <3>4 DEF StepGoal
    <2>. QED  BY <2>6, <2>7
  <1>. QED  BY <1>1, <1>2, <1>3, <1>4

\* The steps of a task.
LEMMA TaskGoal ==
    ASSUME TypeOK, RowsFormed, Numbered, Actors' = Actors, NEW a \in Actors, TaskStep(a) \/ TaskEvent(a)
    PROVE  StepGoal
  <1>1. CASE \/ FetchRoot(a) \/ FetchRelated(a) \/ BulkUpsert(a) \/ DeleteNil(a) \/ ReplaceEdges(a)
             \/ CheckDrift(a) \/ DeleteEach(a) \/ RemoveResource(a)
    <2>1. /\ StepTyped /\ SameWork /\ (\A r \in Resources : SameOwner(r))
          /\ UNCHANGED <<regs, entries>> /\ seq' = seq
      BY <1>1, PlainStep
    <2>2. seq' >= seq
      BY <2>1, TypesBefore
    <2>. QED  BY <2>1, <2>2, QuietGoal DEF SameOwner
  <1>2. CASE BeginBuild(a) \/ BeginDelete(a)
    BY <1>2, BeginStep, QuietGoal DEF SameOwner
  <1>3. CASE RenewTick(a)
    <2>1. /\ StepTyped /\ SameWork /\ (\A r \in Resources : SameOwner(r))
          /\ UNCHANGED <<regs, entries>> /\ seq' = seq
      BY <1>3, RenewStep
    <2>2. seq' >= seq
      BY <2>1, TypesBefore
    <2>. QED  BY <2>1, <2>2, QuietGoal DEF SameOwner
  <1>4. CASE ScheduleParents(a) \/ Remark(a)
    <2>1. /\ StepTyped /\ SameWork /\ regs' = regs /\ seq' >= seq /\ Renumbered(seq + 1 .. seq')
          /\ \E C \in SUBSET Entry : NewClaims(C) /\ entries' = entries \cup C
      BY <1>4, ScheduleStep
    <2>2. \A r \in Resources : Keeps(r)
      BY <2>1, ClaimMoves
    <2>3. seq' \in Nat /\ regs' \subseteq regs
      BY <2>1 DEF StepTyped
    <2>4. Numbered'
      BY <2>1, <2>3, NumberedKept
    <2>. QED  BY <2>1, <2>2, <2>4 DEF StepGoal
  <1>5. CASE FailTask(a) \/ FailBulk(a)
    <2>1. /\ StepTyped /\ UNCHANGED <<seq, regs, entries>> /\ tasks[a] # Idle
          /\ tasks' = [tasks EXCEPT ![a] = Idle]
          /\ Id(a) \in Resources /\ RowReleased(rows[Id(a)], rows'[Id(a)], Token(a))
          /\ Renumbered({}) /\ \A x \in Resources \ {Id(a)} : rows'[x] = rows[x]
      BY <1>5, FailStep
    <2>2. PICK x \in Resources : x = Id(a)
      BY <2>1
    <2>3. PICK p : p = <<"task", a, tasks[a].entry>>
      OBVIOUS
    <2>4. /\ p \in Holders(x) /\ Holders(x)' = (Holders(x) \ {p}) \cup {}
          /\ \A r \in Resources \ {x} : Holders(r)' = Holders(r)
      <3>1. PICK F : F = {}
        OBVIOUS
      <3>2. TaskEnds(a, x, p, F, {})
        BY <2>1, <2>2, <2>3, <3>1 DEF TaskEnds
      <3>. QED  BY <2>1, <3>2, EndMoves
    <2>5. Holders(x)' = Holders(x) \ {p} /\ p[3].token = Token(a)
      BY <2>3, <2>4 DEF Token
    <2>6. RowReleased(rows[x], rows'[x], p[3].token) /\ Formed(rows[x])
      BY <2>1, <2>2, <2>5 DEF RowsFormed
    <2>7. Keeps(x)
      BY <2>4, <2>5, <2>6, WorkReleased
    <2>8. \A r \in Resources \ {x} : Keeps(r)
      BY <2>1, <2>2, <2>4, WorkStays
    <2>9. Numbered'
      BY <2>1, PlainNumbers
    <2>. QED  BY <2>1, <2>7, <2>8, <2>9 DEF StepGoal
  <1>6. CASE CrashTask(a)
    <2>1. /\ StepTyped /\ UNCHANGED <<seq, rows>> /\ used'.crashes # 0
          /\ \/ \E f \in entries : entries' = entries \ {f} /\ UNCHANGED <<regs, tasks>>
             \/ \E b \in Actors : tasks' = [tasks EXCEPT ![b] = Idle] /\ UNCHANGED <<regs, entries>>
             \/ \E k \in regs : regs' = regs \ {k} /\ k.phase # "open" /\ UNCHANGED <<entries, tasks>>
      BY <1>6, LoseStep
    <2>2. \A r \in Resources : Keeps(r)
      BY <2>1, LoseMoves
    <2>3. Numbered'
      BY <2>1, NoClaims, PlainNumbers
    <2>. QED  BY <2>1, <2>2, <2>3 DEF StepGoal
  <1>7. CASE Finish(a) \/ DropRow(a)
    <2>1. /\ StepTyped /\ UNCHANGED <<seq, regs>> /\ tasks[a] # Idle /\ tasks' = [tasks EXCEPT ![a] = Idle]
          /\ Id(a) \in Resources /\ Renumbered({})
          /\ \A x \in Resources \ {Id(a)} : rows'[x] = rows[x]
      BY <1>7, EndStep
    <2>2. PICK x \in Resources : x = Id(a)
      BY <2>1
    <2>3. PICK p : p = <<"task", a, tasks[a].entry>>
      OBVIOUS
    <2>4. p[3].token = Token(a) /\ Formed(rows[x])
      BY <2>3 DEF Token, RowsFormed
    <2>5. \/ rows'[x].owner = 0 /\ entries' = entries
          \/ /\ Holds(rows[x], Token(a)) /\ rows'[x].live /\ rows'[x].owner # 0
             /\ \E e \in Entry : e.r = x /\ e.token = rows'[x].owner /\ entries' = entries \cup {e}
          \/ /\ ~Holds(rows[x], Token(a)) /\ entries' = entries
             /\ rows'[x].owner = rows[x].owner /\ rows'[x].live = rows[x].live
      BY <1>7, <2>2, EndStep
    <2>6. ASSUME NEW F, entries' = entries \cup F, \A e \in F : e.r = x,
                 NEW Q, \A h : h \in Q <=> \E e \in F : h = <<"queue", 0, e>>
          PROVE  /\ p \in Holders(x) /\ Holders(x)' = (Holders(x) \ {p}) \cup Q
                 /\ \A r \in Resources \ {x} : Holders(r)' = Holders(r)
      <3>1. TaskEnds(a, x, p, F, Q)
        BY <2>1, <2>2, <2>3, <2>6 DEF TaskEnds
      <3>. QED  BY <2>1, <3>1, EndMoves
    <2>7. /\ p \in Holders(x) /\ (\A r \in Resources \ {x} : Holders(r)' = Holders(r)) /\ Keeps(x)
      <3>1. CASE entries' = entries /\ (rows'[x].owner = 0 \/ (~Holds(rows[x], Token(a)) /\ rows'[x].owner = rows[x].owner))
        <4>. PICK F : F = {}
          OBVIOUS
        <4>1. /\ entries' = entries \cup F /\ (\A e \in F : e.r = x)
              /\ \A h : h \in {} <=> \E e \in F : h = <<"queue", 0, e>>
          BY <3>1
        <4>2. /\ p \in Holders(x) /\ Holders(x)' = (Holders(x) \ {p}) \cup {}
              /\ \A r \in Resources \ {x} : Holders(r)' = Holders(r)
          BY <2>6, <4>1
        <4>3. Holders(x)' = Holders(x) \ {p}
          BY <4>2
        <4>4. Keeps(x)
          BY <2>4, <3>1, <4>2, <4>3, WorkDropped
        <4>. QED  BY <4>2, <4>4
      <3>2. ASSUME rows'[x].live, rows'[x].owner # 0,
                   NEW e \in Entry, e.r = x, e.token = rows'[x].owner, entries' = entries \cup {e}
            PROVE  p \in Holders(x) /\ (\A r \in Resources \ {x} : Holders(r)' = Holders(r)) /\ Keeps(x)
        <4>. DEFINE q == <<"queue", 0, e>>
        <4>. PICK F : F = {e}
          OBVIOUS
        <4>1. /\ entries' = entries \cup F /\ (\A f \in F : f.r = x) /\ q[3] = e
              /\ \A h : h \in {q} <=> \E f \in F : h = <<"queue", 0, f>>
          BY <3>2
        <4>. HIDE DEF q
        <4>2. /\ p \in Holders(x) /\ Holders(x)' = (Holders(x) \ {p}) \cup {q}
              /\ \A r \in Resources \ {x} : Holders(r)' = Holders(r)
          BY <2>6, <4>1
        <4>3. rows[x].live => rows'[x].live
          BY <3>2
        <4>4. Keeps(x)
          BY <3>2, <4>1, <4>2, <4>3, WorkPassed
        <4>. QED  BY <4>2, <4>4
      <3>. QED  BY <2>5, <3>1, <3>2
    <2>8. \A r \in Resources \ {x} : Keeps(r)
      BY <2>1, <2>2, <2>7, WorkStays
    <2>9. Numbered'
      BY <2>1, PlainNumbers
    <2>. QED  BY <2>1, <2>7, <2>8, <2>9 DEF StepGoal
  <1>. QED  BY <1>1, <1>2, <1>3, <1>4, <1>5, <1>6, <1>7 DEF TaskStep, BuildStep, DeleteStep, TaskEvent

\* Every step keeps the invariant.
LEMMA OwnStep ==
    ASSUME OwnInv, Next
    PROVE  OwnInv'
  <1>1. TypeOK /\ RowsFormed /\ Numbered
    BY DEF OwnInv
  <1>2. /\ used'.setup = used.setup /\ used'.workers = used.workers
        /\ used'.lapses = 0 => used.lapses = 0
        /\ used'.crashes = 0 => used.crashes = 0
    BY <1>1, SetupStays
  <1>3. Actors' = Actors
    BY <1>2, SetsStay
  <1>4. StepGoal
    <2>1. ASSUME NEW r \in Resources, Change(r)  PROVE StepGoal
      <3>1. StepTyped /\ UNCHANGED <<seq, rows, regs, entries, tasks>>
        BY <1>1, <2>1, ChangeStep
      <3>2. seq' >= seq
        BY <3>1, <1>1, TypesBefore
      <3>. QED  BY <3>1, <3>2, <1>1, <1>3, QuietGoal, TasksSame
    <2>2. ASSUME NEW r \in Resources, RowEvent(r)  PROVE StepGoal
      <3>1. /\ StepTyped /\ UNCHANGED <<seq, regs, entries, tasks>>
            /\ \A x \in Resources : /\ rows'[x].owner = rows[x].owner /\ rows'[x].staleSeq = rows[x].staleSeq
                                    /\ rows'[x].live = rows[x].live \/ used'.lapses # 0 \/ ~Alive(x)
        BY <1>1, <2>2, TimeStep
      <3>2. seq' >= seq /\ SameWork
        BY <3>1, <1>1, TypesBefore, TasksSame
      <3>. QED  BY <3>1, <3>2, <1>1, <1>3, QuietGoal
    <2>3. CASE RegBegin \/ \E g \in regs : Register(g)
      BY <2>3, <1>1, <1>3, CallGoal
    <2>4. CASE \/ SweepList
               \/ \E e \in entries : Shed(e) \/ LoseEntry(e) \/ \E a \in Actors : Take(a, e) \/ TakeFails(a, e)
      BY <2>4, <1>1, <1>3, QueueGoal
    <2>5. CASE \E a \in Actors : TaskStep(a) \/ TaskEvent(a)
      BY <2>5, <1>1, <1>3, TaskGoal
    <2>6. CASE Rest
      <3>1. UNCHANGED vars
        BY <2>6 DEF Rest
      <3>2. StepTyped /\ seq' >= seq
        BY <3>1, <1>1, TypesBefore DEF vars, StepTyped, RowsFormed
      <3>. QED  BY <3>1, <3>2, <1>1, <1>3, QuietGoal, TasksSame DEF vars
    <2>. QED  BY <2>1, <2>2, <2>3, <2>4, <2>5, <2>6 DEF Next
  <1>5. TypeOK'
    BY <1>1, <1>4, TypesAfter DEF StepGoal
  <1>6. RowsFormed' /\ Numbered'
    BY <1>4 DEF StepGoal, StepTyped
  <1>7. used'.lapses = 0 => \A r \in Resources : HeldOnce(r)'
    BY <1>2, <1>4 DEF StepGoal, Keeps, OwnInv
  <1>8. used'.crashes = 0 => \A r \in Resources : Watched(r)'
    BY <1>2, <1>4 DEF StepGoal, Keeps, OwnInv
  <1>. QED  BY <1>5, <1>6, <1>7, <1>8 DEF OwnInv

\* The row of a resource that starts registered and built.
SettledRow(v, b, s) ==
    [BlankRow EXCEPT !.present = TRUE, !.version = v, !.buildIdx = b, !.staleSeq = s, !.changeSeq = s]

\* Such a row is well formed and unowned.
LEMMA SettledRowFormed ==
    ASSUME NEW v \in Nat, NEW b \in Nat, NEW s \in Nat
    PROVE  Formed(SettledRow(v, b, s)) /\ SettledRow(v, b, s).owner = 0 /\ SettledRow(v, b, s).staleSeq = s
  BY DEF SettledRow, BlankRow, Row, Formed

\* The invariant holds at first.
LEMMA OwnInit ==
    ASSUME Init
    PROVE  OwnInv
  <1>. DEFINE N == Cardinality(Settled)
              built(r) == N + Nth(Settled, r)
  <1>1. used.setup \in {Setups[i] : i \in DOMAIN Setups}
    BY DEF Init
  <1>2. /\ Settled \subseteq Resources /\ InitRefs \in [Resources -> SUBSET Settled]
        /\ MaxChanges \in Nat /\ MaxErrors \in Nat /\ MaxCrashes \in Nat /\ MaxLapses \in Nat
        /\ MaxSheds \in Nat /\ MaxForgets \in Nat
    BY <1>1, SetupFacts
  <1>3. N \in Nat /\ \A r \in Settled : Nth(Settled, r) \in 1 .. N /\ Nth(Settled, r) \in Nat /\ built(r) \in Nat
    <2>1. N \in Nat
      BY <1>2, CardFacts
    <2>2. \A r \in Settled : Nth(Settled, r) \in Nat /\ 1 <= Nth(Settled, r) /\ Nth(Settled, r) <= N
      BY <1>2, NumberFacts
    <2>. QED  BY <2>1, <2>2
  <1>4. seq = 2 * N /\ seq \in Nat /\ N <= seq
    <2>1. seq = 2 * N
      BY DEF Init
    <2>. HIDE DEF N
    <2>. QED  BY <2>1, <1>3
  <1>5. used \in Used
    <2>1. used \in [setup : {Setups[i] : i \in DOMAIN Setups}, workers : SUBSET Pool, changes : {0}, errors : {0},
                    crashes : {0}, lapses : {0}, sheds : {0}, forgets : {0}]
      BY DEF Init
    <2>2. \A n \in Nat : 0 \in 0 .. n
      OBVIOUS
    <2>. QED  BY <2>1, <2>2, <1>2 DEF Used
  <1>. HIDE DEF N
  <1>6. \A r \in Resources : /\ Formed(rows[r]) /\ rows[r].owner = 0
                             /\ rows[r].staleSeq \in 0 .. seq
    <2>. SUFFICES ASSUME NEW r \in Resources
                  PROVE  Formed(rows[r]) /\ rows[r].owner = 0 /\ rows[r].staleSeq \in 0 .. seq
      OBVIOUS
    <2>1. CASE r \in Settled
      <3>. DEFINE v == IF r \in Versioned THEN 1 ELSE 0
      <3>1. rows[r] = SettledRow(v, built(r), Nth(Settled, r))
        BY <2>1 DEF Init, N, SettledRow
      <3>2. v \in Nat /\ built(r) \in Nat /\ Nth(Settled, r) \in Nat
        BY <2>1, <1>3
      <3>. HIDE DEF v, built
      <3>3. Formed(rows[r]) /\ rows[r].owner = 0 /\ rows[r].staleSeq = Nth(Settled, r)
        BY <3>1, <3>2, SettledRowFormed
      <3>. QED  BY <3>3, <2>1, <1>3, <1>4
    <2>2. CASE r \notin Settled
      <3>1. rows[r] = BlankRow
        BY <2>2 DEF Init
      <3>. QED  BY <3>1, <1>4, BlankRowFormed
    <2>. QED  BY <2>1, <2>2
  <1>7. RowsFormed
    <2>1. rows = [r \in Resources |-> rows[r]]
      BY DEF Init
    <2>. QED  BY <2>1, <1>6 DEF RowsFormed, Formed
  <1>8. edges \in [Resources -> [Versions -> EdgeSet]]
    <2>1. edges = [r \in Resources |-> [v \in Versions |->
            IF r \in Settled THEN [stamp |-> built(r), kids |-> InitRefs[r]] ELSE NoEdges]]
      BY DEF Init, N
    <2>2. \A r \in Resources : (IF r \in Settled THEN [stamp |-> built(r), kids |-> InitRefs[r]] ELSE NoEdges) \in EdgeSet
      BY <1>2, <1>3 DEF EdgeSet, NoEdges
    <2>. QED  BY <2>1, <2>2
  <1>9. docs \in [Resources -> [Versions -> Doc]]
    <2>. DEFINE body(r) == [found |-> TRUE, n |-> 1, kids |-> InitRefs[r] \X {1}]
                doc(r) == IF r \in Settled THEN [ver |-> built(r), body |-> body(r)] ELSE [ver |-> 0, body |-> NoBody]
    <2>1. docs = [r \in Resources |-> [v \in Versions |-> doc(r)]]
      BY DEF Init, N
    <2>2. \A r \in Resources : InitRefs[r] \X {1} \subseteq Resources \X Nat
      BY <1>2
    <2>3. \A r \in Resources : body(r) \in Body
      BY <2>2 DEF Body
    <2>4. NoBody \in Body
      BY DEF NoBody, Body
    <2>. HIDE DEF body
    <2>5. \A r \in Resources : doc(r) \in Doc
      BY <2>3, <2>4, <1>3 DEF Doc
    <2>. HIDE DEF doc
    <2>. QED  BY <2>1, <2>5
  <1>10. src \in [Resources -> Source]
    <2>. DEFINE first(r) == IF r \in Settled THEN [n |-> 1, vs |-> Versions, refs |-> InitRefs[r], ups |-> {}]
                            ELSE NoSource
    <2>1. src = [r \in Resources |-> first(r)]
      BY DEF Init
    <2>2. \A r \in Resources : first(r) \in Source
      BY <1>2 DEF Source, NoSource
    <2>. HIDE DEF first
    <2>. QED  BY <2>1, <2>2
  <1>11. /\ msgs = {} /\ regs = {} /\ entries = {} /\ exposed = {}
         /\ tasks = [a \in Actors |-> Idle]
    BY DEF Init
  <1>12. TypeOK
    BY <1>4, <1>5, <1>7, <1>8, <1>9, <1>10, <1>11 DEF TypeOK, RowsFormed
  <1>13. Numbered
    <2>1. \A r \in Resources : Spent(rows[r].owner) /\ Spent(rows[r].staleSeq)
      BY <1>4, <1>6, <1>11 DEF Spent
    <2>. QED  BY <2>1, <1>11 DEF Numbered
  <1>14. \A r \in Resources : Holders(r) = {}
    <2>1. \A r, h : ~InQueue(r, h) /\ ~InCall(r, h) /\ ~InTask(r, h)
      BY <1>11 DEF InQueue, InCall, InTask
    <2>. QED  BY <2>1, HolderCases
  <1>15. \A r \in Resources : HeldOnce(r) /\ Watched(r)
    BY <1>6, <1>14 DEF HeldOnce, Watched
  <1>. QED  BY <1>7, <1>12, <1>13, <1>15 DEF OwnInv

\* The inductive invariant: rows are well formed, the numbers of marks,
\* owners and open registrations stay apart, and claimed work is held once
\* while no lease has lapsed and never forgotten while nothing has crashed.
THEOREM OwnInvariant == Spec => []OwnInv
  <1>1. OwnInv /\ UNCHANGED vars => OwnInv'
    <2>. SUFFICES ASSUME OwnInv, UNCHANGED vars  PROVE OwnInv'
      OBVIOUS
    <2>1. TypeOK'
      BY DEF OwnInv, TypeOK, vars, Versions, Actors, Workers, Source, Task, Used, MaxChanges, MaxErrors, MaxCrashes,
             MaxLapses, MaxSheds, MaxForgets
    <2>2. RowsFormed' /\ Numbered'
      BY DEF OwnInv, RowsFormed, Numbered, Spent, vars
    <2>3. \A r \in Resources : Holders(r)' = Holders(r)
      BY DEF Holders, vars, Actors, Workers
    <2>4. \A r \in Resources : (HeldOnce(r) => HeldOnce(r)') /\ (Watched(r) => Watched(r)')
      BY <2>3 DEF HeldOnce, Watched, Alive, vars
    <2>. QED  BY <2>1, <2>2, <2>4 DEF OwnInv, vars
  <1>2. OwnInv /\ [Next]_vars => OwnInv'
    BY <1>1, OwnStep
  <1>. QED  BY <1>2, OwnInit, PTL DEF Spec

\* Every variable keeps its type: in particular what is spent stays within
\* the bounds and every task and call is in one of its phases.
THEOREM TypeInvariant == Spec => []TypeOK
  <1>1. OwnInv => TypeOK
    BY DEF OwnInv
  <1>. QED  BY <1>1, OwnInvariant, PTL

\* While no lease lapsed under a working owner, a row's claimed work is in one
\* place, under the row's own token; while nothing crashed, it is in at least
\* one: no order of marks, claims, sweeps, takes, failures, refusals, finishes
\* and follow-ups hands a claim to two or leaves it to the lease.
THEOREM WorkIsOwnedOnce == Spec => []OwnedOnce
  <1>1. OwnInv => OwnedOnce
    <2>. SUFFICES ASSUME OwnInv, NEW r \in Resources
                  PROVE  /\ used.lapses = 0 => OneHolder(r)
                         /\ used.crashes = 0 /\ rows[r].owner # 0 => Alive(r)
      BY DEF OwnedOnce
    <2>1. used.crashes = 0 /\ rows[r].owner # 0 => Alive(r)
      BY DEF OwnInv, Watched
    <2>2. ASSUME used.lapses = 0  PROVE OneHolder(r)
      <3>1. HeldOnce(r)
        BY <2>2 DEF OwnInv
      <3>2. CASE Holders(r) = {}
        <4>1. Cardinality(Holders(r)) = 0
          BY <3>2, FS_EmptySet
        <4>. QED  BY <3>1, <4>1 DEF OneHolder, HeldOnce
      <3>3. CASE Holders(r) # {}
        <4>1. PICK h : Holders(r) = {h}
          BY <3>1, <3>3 DEF HeldOnce
        <4>2. Cardinality(Holders(r)) = 1
          BY <4>1, FS_Singleton
        <4>. QED  BY <3>1, <4>2 DEF OneHolder, HeldOnce
      <3>. QED  BY <3>2, <3>3
    <2>. QED  BY <2>1, <2>2
  <1>. QED  BY <1>1, OwnInvariant, PTL

-----------------------------------------------------------------------------
(* What a row without a mark promises of its documents *)

\* Where a build is between its BeginBuild and its finish.
Building == {"root", "related", "write", "nils", "edges", "parents", "drift", "remark", "finish"}

\* A document's body, and what the task t has fetched for v, from before the
\* change n.
OldBody(body, n) == body.found /\ body.n < n
Older(t, v, n) == OldBody(t.out[v], n) \/ (t.pc = "related" /\ t.seen.n < n)

\* The Schema Versions whose document a build has written.
DoneBy(t) ==
    IF t.pc \in {"edges", "parents", "drift", "remark", "finish"} THEN Versions
    ELSE IF t.pc = "nils" THEN Versions \ t.left ELSE {}

\* The tasks of r, and those of them that captured the mark its row has.
Works(a, r) == tasks[a] # Idle /\ tasks[a].entry.r = r
Serving(a, r) == Works(a, r) /\ tasks[a].pc \in Building /\ tasks[a].mark = rows[r].staleSeq

\* The task a would write what was there before the version of r's row.
Carries(a, r, v) == Works(a, r) /\ Older(tasks[a], v, rows[r].version)

\* The document is as new as the row, and no task can make it older.
Clear(r, v) ==
    /\ ~OldBody(docs[r][v].body, rows[r].version)
    /\ \A b \in Actors : Carries(b, r, v) => tasks[b].idx < docs[r][v].ver

\* What a build that captured the mark has fetched is as new as the row; all
\* older data, written or not, has a lower Build Sequence; and the documents
\* it has written stay clear.
ServedBy(a, r, v) ==
    /\ ~Carries(a, r, v)
    /\ OldBody(docs[r][v].body, rows[r].version) => docs[r][v].ver < tasks[a].idx
    /\ \A b \in Actors : Carries(b, r, v) => tasks[b].idx < tasks[a].idx
    /\ v \in DoneBy(tasks[a]) => Clear(r, v)

Serves(r) ==
    \A v \in Versions :
        /\ \A a \in Actors : Serving(a, r) => ServedBy(a, r, v)
        /\ ~rows[r].stale => Clear(r, v)

\* Nothing is registered that the source has not said.
Heard ==
    /\ \A r \in Resources : rows[r].version <= src[r].n /\ (~rows[r].present => rows[r].version = 0)
    /\ \A m \in msgs : m.n <= src[m.r].n
    /\ \A g \in regs : \A m \in g.items : m.n <= src[m.r].n

\* Build Sequences and captured marks have been drawn, and a task has data only
\* once it has its own.
DatedTask(t) ==
    /\ t.idx <= seq
    /\ t.pc \in Building => t.idx # 0 /\ Spent(t.mark)
    /\ t.pc \in {"begin", "begindelete"} => t.idx = 0
    /\ t.idx = 0 => \A v \in Versions : ~t.out[v].found

Dated ==
    /\ \A r \in Resources, v \in Versions : docs[r][v].ver <= seq
    /\ \A a \in Actors : tasks[a] # Idle => DatedTask(tasks[a])

ServeInv == OwnInv /\ Heard /\ Dated /\ \A r \in Resources : Serves(r)

-----------------------------------------------------------------------------
(* What a step does to a row, its documents and its tasks *)

\* The row keeps its version and its mark; it may be marked anew.
RowSame(r) ==
    /\ rows'[r].version = rows[r].version /\ rows'[r].staleSeq = rows[r].staleSeq
    /\ rows[r].stale => rows'[r].stale
    /\ rows[r].present => rows'[r].present

\* The row is marked at a number nobody has captured.
RowMarked(r) ==
    /\ rows'[r].present /\ rows'[r].stale /\ rows'[r].version <= src[r].n
    /\ ~Spent(rows'[r].staleSeq)

\* A task that has nothing to write, or deletes only.
Inert(u) ==
    /\ u.pc \notin Building /\ \A v \in Versions : ~u.out[v].found
    /\ u.idx <= seq' /\ (u.pc \in {"begin", "begindelete"} => u.idx = 0)

\* u is the task t after a step that wrote the documents of W, with nothing
\* fetched that is older than the change n.
Continues(t, u, n, W) ==
    /\ u.entry = t.entry /\ u.idx = t.idx /\ u.mark = t.mark
    /\ u.pc \in Building => t.pc \in Building
    /\ u.pc \in {"begin", "begindelete"} => t.pc = u.pc
    /\ t.pc \notin Building => u.out = t.out
    /\ \A v \in Versions, m \in 0 .. n : Older(u, v, m) => Older(t, v, m)
    /\ DoneBy(u) \subseteq DoneBy(t) \cup W

GoesOn(a, W) ==
    \/ tasks'[a] = Idle \/ Inert(tasks'[a])
    \/ tasks[a] # Idle /\ Continues(tasks[a], tasks'[a], src[tasks[a].entry.r].n, W)

\* The task is of another resource.
Elsewhere(a, r) == tasks'[a].entry.r # r

\* What is constant in a behaviour.
Fixed == Versions' = Versions /\ Actors' = Actors

\* Where the row keeps its version, no task has older data than before, and
\* the builds that serve its mark served it before.
LEMMA TasksGoOn ==
    ASSUME TypeOK, Heard, Fixed, NEW r \in Resources, RowSame(r), NEW a \in Actors, NEW W,
           GoesOn(a, W) \/ Elsewhere(a, r)
    PROVE  /\ \A v \in Versions : Carries(a, r, v)' => Carries(a, r, v) /\ tasks'[a].idx = tasks[a].idx
           /\ Serving(a, r)' => /\ Serving(a, r) /\ tasks'[a].idx = tasks[a].idx
                                /\ DoneBy(tasks[a])' \subseteq DoneBy(tasks[a]) \cup W
  <1>1. CASE tasks'[a] = Idle
    BY <1>1 DEF Carries, Serving, Works
  <1>2. CASE Inert(tasks'[a])
    BY <1>2 DEF Carries, Serving, Works, Inert, Older, OldBody, Building
  <1>3. CASE tasks[a] # Idle /\ Continues(tasks[a], tasks'[a], src[tasks[a].entry.r].n, W)
    <2>1. rows[r].version \in 0 .. src[r].n
      BY DEF Heard, TypeOK, Row, Source
    <2>2. Works(a, r)' => Works(a, r)
      BY <1>3 DEF Works, Continues
    <2>3. Works(a, r) => \A v \in Versions : Older(tasks'[a], v, rows[r].version) => Older(tasks[a], v, rows[r].version)
      BY <1>3, <2>1 DEF Continues, Works
    <2>4. \A v \in Versions : Carries(a, r, v)' => Carries(a, r, v)
      BY <2>2, <2>3 DEF Carries, RowSame, Older
    <2>5. Serving(a, r)' => Serving(a, r)
      BY <1>3, <2>2 DEF Serving, Continues, RowSame
    <2>6. DoneBy(tasks[a])' = DoneBy(tasks'[a])
      BY DEF DoneBy, Fixed
    <2>. QED  BY <1>3, <2>4, <2>5, <2>6 DEF Continues
  <1>4. CASE Elsewhere(a, r)
    BY <1>4 DEF Carries, Serving, Works, Elsewhere
  <1>. QED  BY <1>1, <1>2, <1>3, <1>4 DEF GoesOn

\* A step that writes no document of r.
LEMMA ServesKept ==
    ASSUME TypeOK, Heard, Fixed, NEW r \in Resources, RowSame(r), docs'[r] = docs[r],
           \A a \in Actors : GoesOn(a, {}) \/ Elsewhere(a, r), Serves(r)
    PROVE  Serves(r)'
  <1>1. ASSUME NEW a \in Actors
        PROVE  /\ \A v \in Versions : Carries(a, r, v)' => Carries(a, r, v) /\ tasks'[a].idx = tasks[a].idx
               /\ Serving(a, r)' => /\ Serving(a, r) /\ tasks'[a].idx = tasks[a].idx
                                    /\ DoneBy(tasks[a])' \subseteq DoneBy(tasks[a])
    BY TasksGoOn
  <1>. SUFFICES ASSUME NEW v \in Versions
                PROVE  /\ \A a \in Actors : Serving(a, r)' => ServedBy(a, r, v)'
                       /\ ~rows'[r].stale => Clear(r, v)'
    BY DEF Serves, Fixed
  <1>2. OldBody(docs[r][v].body, rows[r].version)' => OldBody(docs[r][v].body, rows[r].version)
    BY DEF OldBody, RowSame
  <1>3. Clear(r, v) => Clear(r, v)'
    BY <1>1, <1>2 DEF Clear, Fixed
  <1>4. ASSUME NEW a \in Actors, Serving(a, r)'  PROVE ServedBy(a, r, v)'
    <2>1. Serving(a, r) /\ tasks'[a].idx = tasks[a].idx /\ DoneBy(tasks[a])' \subseteq DoneBy(tasks[a])
      BY <1>1, <1>4
    <2>2. ServedBy(a, r, v)
      BY <2>1 DEF Serves
    <2>. QED  BY <1>1, <1>2, <1>3, <2>1, <2>2 DEF ServedBy, Fixed
  <1>. QED  BY <1>3, <1>4 DEF Serves, RowSame

\* A step that marks the row.
LEMMA ServesMarked ==
    ASSUME NEW r \in Resources, RowMarked(r), Dated, Fixed, \A a \in Actors : GoesOn(a, {})
    PROVE  Serves(r)'
  <1>1. ASSUME NEW a \in Actors, Serving(a, r)'  PROVE FALSE
    <2>1. tasks[a] # Idle /\ tasks[a].pc \in Building /\ tasks'[a].mark = tasks[a].mark
      BY <1>1 DEF Serving, Works, GoesOn, Inert, Continues, Building
    <2>2. Spent(tasks[a].mark)
      BY <2>1 DEF Dated, DatedTask
    <2>. QED  BY <1>1, <2>1, <2>2 DEF Serving, RowMarked
  <1>. QED  BY <1>1 DEF Serves, RowMarked, Fixed

\* A row without a version: nothing is older.
LEMMA ServesBlank ==
    ASSUME TypeOK', NEW r \in Resources, rows'[r].version = 0
    PROVE  Serves(r)'
  <1>1. \A body \in Body : ~OldBody(body, 0)
    BY DEF Body, OldBody
  <1>2. ASSUME NEW v \in Versions'  PROVE docs'[r][v].body \in Body
    BY <1>2 DEF TypeOK, Doc
  <1>3. ASSUME NEW a \in Actors', NEW v \in Versions'  PROVE ~Carries(a, r, v)'
    <2>1. CASE tasks'[a] = Idle
      BY <2>1 DEF Carries, Works
    <2>2. CASE tasks'[a] # Idle
      <3>1. tasks'[a] \in Task'
        BY <2>2, <1>3 DEF TypeOK
      <3>2. tasks'[a].out[v] \in Body /\ tasks'[a].seen.n \in Nat
        BY <3>1, <1>3 DEF Task, Source
      <3>3. ~Older(tasks'[a], v, 0)
        BY <1>1, <3>2 DEF Older
      <3>. QED  BY <3>3 DEF Carries, Older
    <2>. QED  BY <2>1, <2>2
  <1>4. \A v \in Versions' : ~OldBody(docs[r][v].body, rows[r].version)'
    BY <1>1, <1>2 DEF OldBody
  <1>. QED  BY <1>3, <1>4 DEF Serves, ServedBy, Clear

\* A task that does nothing goes on.
LEMMA SameGoesOn == ASSUME NEW a, tasks'[a] = tasks[a], NEW W  PROVE GoesOn(a, W)
  BY DEF GoesOn, Continues

\* The task a writes the documents of W, each with what it fetched or with
\* nothing.
Writes(a, r, W) ==
    /\ Works(a, r)
    /\ \A v \in Versions :
         IF v \in W
         THEN \E body \in {NoBody, tasks[a].out[v]} : docs'[r][v] = Written(docs[r][v], body, tasks[a].idx)
         ELSE docs'[r][v] = docs[r][v]

\* What a write leaves in a document, in the words of the invariant.
LEMMA WrittenFacts ==
    ASSUME TypeOK, NEW r \in Resources, NEW a \in Actors, NEW W, Writes(a, r, W), RowSame(r), NEW v \in Versions
    PROVE  LET doc == docs[r][v]
               new == docs'[r][v]
               idx == tasks[a].idx
           IN  /\ doc.ver \in Nat /\ new.ver \in Nat /\ idx \in Nat
               /\ \/ new = doc
                  \/ /\ v \in W /\ doc.ver <= idx /\ new.ver = idx
                     /\ OldBody(new.body, rows'[r].version) => Carries(a, r, v)
               /\ v \in W /\ new = doc => doc.ver >= idx
  <1>1. tasks[a] \in Task
    BY DEF TypeOK, Writes, Works
  <1>2. docs[r][v].ver \in Nat /\ tasks[a].idx \in Nat
    BY <1>1 DEF TypeOK, Doc, Task
  <1>3. CASE v \notin W
    BY <1>2, <1>3 DEF Writes
  <1>4. CASE v \in W
    <2>1. PICK body \in {NoBody, tasks[a].out[v]} : docs'[r][v] = Written(docs[r][v], body, tasks[a].idx)
      BY <1>4 DEF Writes
    <2>2. OldBody(body, rows'[r].version) => Carries(a, r, v)
      BY <2>1 DEF OldBody, NoBody, Carries, Older, Writes, RowSame
    <2>3. CASE docs[r][v].ver <= tasks[a].idx
      <3>1. docs'[r][v].ver = tasks[a].idx /\ docs'[r][v].body = body
        BY <2>1, <2>3 DEF Written
      <3>. QED  BY <3>1, <2>2, <2>3, <1>2, <1>4
    <2>4. CASE ~(docs[r][v].ver <= tasks[a].idx)
      <3>1. docs'[r][v] = docs[r][v]
        BY <2>1, <2>4 DEF Written
      <3>. QED  BY <3>1, <2>4, <1>2
    <2>. QED  BY <2>3, <2>4
  <1>. QED  BY <1>3, <1>4

\* A step that writes documents of r.
LEMMA ServesWritten ==
    ASSUME TypeOK, Heard, Fixed, NEW r \in Resources, RowSame(r), NEW a \in Actors, NEW W, Writes(a, r, W),
           GoesOn(a, W), \A b \in Actors \ {a} : tasks'[b] = tasks[b], Serves(r)
    PROVE  Serves(r)'
  <1>1. ASSUME NEW b \in Actors
        PROVE  /\ \A v \in Versions : Carries(b, r, v)' => Carries(b, r, v) /\ tasks'[b].idx = tasks[b].idx
               /\ Serving(b, r)' => /\ Serving(b, r) /\ tasks'[b].idx = tasks[b].idx
                                    /\ DoneBy(tasks[b])' \subseteq DoneBy(tasks[b]) \cup (IF b = a THEN W ELSE {})
    <2>1. CASE b = a
      BY <2>1, TasksGoOn
    <2>2. CASE b # a
      <3>1. GoesOn(b, {})
        BY <2>2, SameGoesOn
      <3>. QED  BY <2>2, <3>1, TasksGoOn
    <2>. QED  BY <2>1, <2>2
  <1>2. ASSUME NEW b \in Actors, NEW v \in Versions, Carries(b, r, v)  PROVE tasks[b].idx \in Nat
    <2>1. tasks[b] \in Task
      BY <1>2 DEF Carries, Works, TypeOK
    <2>. QED  BY <2>1 DEF Task
  <1>. SUFFICES ASSUME NEW v \in Versions
                PROVE  /\ \A c \in Actors : Serving(c, r)' => ServedBy(c, r, v)'
                       /\ ~rows'[r].stale => Clear(r, v)'
    BY DEF Serves, Fixed
  <1>. DEFINE doc == docs[r][v]
              new == docs'[r][v]
              idx == tasks[a].idx
              old(body) == OldBody(body, rows[r].version)
  <1>3. /\ doc.ver \in Nat /\ new.ver \in Nat /\ idx \in Nat
        /\ new = doc \/ (v \in W /\ doc.ver <= idx /\ new.ver = idx /\ (old(new.body) => Carries(a, r, v)))
        /\ v \in W /\ new = doc => doc.ver >= idx
    BY WrittenFacts DEF RowSame
  <1>4. OldBody(docs[r][v].body, rows[r].version)' <=> old(new.body)
    BY DEF OldBody, RowSame
  <1>5. Clear(r, v) => Clear(r, v)'
    <2>. SUFFICES ASSUME Clear(r, v)  PROVE Clear(r, v)'
      OBVIOUS
    <2>1. ~old(new.body)
      BY <1>3 DEF Clear
    <2>2. ASSUME NEW b \in Actors, Carries(b, r, v)'  PROVE tasks'[b].idx < new.ver
      BY <1>1, <1>2, <1>3, <2>2 DEF Clear
    <2>. QED  BY <1>4, <2>1, <2>2 DEF Clear, Fixed
  <1>6. ASSUME NEW c \in Actors, Serving(c, r)'  PROVE ServedBy(c, r, v)'
    <2>1. /\ Serving(c, r) /\ tasks'[c].idx = tasks[c].idx
          /\ DoneBy(tasks[c])' \subseteq DoneBy(tasks[c]) \cup (IF c = a THEN W ELSE {})
      BY <1>1, <1>6
    <2>2. ServedBy(c, r, v) /\ tasks[c].idx \in Nat
      BY <2>1 DEF Serves, Serving, Works, TypeOK, Task
    <2>3. ~Carries(c, r, v)'
      BY <1>1, <2>2 DEF ServedBy
    <2>4. old(new.body) => new.ver < tasks'[c].idx
      BY <1>3, <2>1, <2>2 DEF ServedBy
    <2>5. \A b \in Actors : Carries(b, r, v)' => tasks'[b].idx < tasks'[c].idx
      BY <1>1, <2>1, <2>2 DEF ServedBy
    <2>6. ASSUME v \in DoneBy(tasks[c])'  PROVE Clear(r, v)'
      <3>1. CASE v \in DoneBy(tasks[c])
        BY <3>1, <2>2, <1>5 DEF ServedBy
      <3>2. CASE c = a /\ v \in W
        <4>1. ~Carries(a, r, v) /\ (old(doc.body) => doc.ver < idx)
          BY <2>2, <3>2 DEF ServedBy
        <4>2. new.ver >= idx /\ ~old(new.body)
          BY <4>1, <1>3, <3>2
        <4>3. ASSUME NEW b \in Actors, Carries(b, r, v)'  PROVE tasks'[b].idx < new.ver
          <5>1. Carries(b, r, v) /\ tasks'[b].idx = tasks[b].idx /\ tasks[b].idx \in Nat
            BY <1>1, <1>2, <4>3
          <5>2. tasks[b].idx < idx
            BY <5>1, <2>2, <3>2 DEF ServedBy
          <5>. QED  BY <5>1, <5>2, <4>2, <1>3
        <4>. QED  BY <1>4, <4>2, <4>3 DEF Clear, Fixed
      <3>. QED  BY <3>1, <3>2, <2>1, <2>6
    <2>. QED  BY <1>4, <2>3, <2>4, <2>5, <2>6 DEF ServedBy, Fixed
  <1>. QED  BY <1>5, <1>6 DEF Serves, RowSame

\* A build begins: it captures the row's mark under a Build Sequence above all
\* there are.
LEMMA ServesBegun ==
    ASSUME TypeOK, Dated, Heard, Fixed, NEW r \in Resources, RowSame(r), docs'[r] = docs[r], NEW a \in Actors,
           \A b \in Actors \ {a} : tasks'[b] = tasks[b],
           tasks'[a].idx = seq + 1, tasks'[a].pc = "root", \A v \in Versions : ~tasks'[a].out[v].found, Serves(r)
    PROVE  Serves(r)'
  <1>1. ASSUME NEW b \in Actors \ {a}
        PROVE  /\ \A v \in Versions : Carries(b, r, v)' => Carries(b, r, v) /\ tasks'[b].idx = tasks[b].idx
               /\ Serving(b, r)' => /\ Serving(b, r) /\ tasks'[b].idx = tasks[b].idx
                                    /\ DoneBy(tasks[b])' \subseteq DoneBy(tasks[b])
    <2>1. GoesOn(b, {})
      BY SameGoesOn
    <2>. QED  BY <2>1, TasksGoOn
  <1>2. \A v \in Versions : ~Carries(a, r, v)'
    BY DEF Carries, Older, OldBody
  <1>3. ASSUME NEW b \in Actors \ {a}, NEW v \in Versions, Carries(b, r, v)'  PROVE tasks'[b].idx < seq + 1
    <2>1. Carries(b, r, v) /\ tasks'[b].idx = tasks[b].idx
      BY <1>1, <1>3
    <2>2. tasks[b] \in Task /\ tasks[b].idx <= seq
      BY <2>1 DEF Carries, Works, TypeOK, Dated, DatedTask
    <2>. QED  BY <2>1, <2>2 DEF Task, TypeOK
  <1>. SUFFICES ASSUME NEW v \in Versions
                PROVE  /\ \A c \in Actors : Serving(c, r)' => ServedBy(c, r, v)'
                       /\ ~rows'[r].stale => Clear(r, v)'
    BY DEF Serves, Fixed
  <1>4. OldBody(docs[r][v].body, rows[r].version)' => OldBody(docs[r][v].body, rows[r].version)
    BY DEF OldBody, RowSame
  <1>5. Clear(r, v) => Clear(r, v)'
    BY <1>1, <1>2, <1>4 DEF Clear, Fixed
  <1>6. ASSUME NEW c \in Actors \ {a}, Serving(c, r)'  PROVE ServedBy(c, r, v)'
    <2>1. Serving(c, r) /\ tasks'[c].idx = tasks[c].idx /\ DoneBy(tasks[c])' \subseteq DoneBy(tasks[c])
      BY <1>1, <1>6
    <2>2. ServedBy(c, r, v)
      BY <2>1 DEF Serves
    <2>. QED  BY <1>1, <1>2, <1>4, <1>5, <2>1, <2>2 DEF ServedBy, Fixed
  <1>7. ServedBy(a, r, v)'
    <2>1. docs'[r][v].ver < tasks'[a].idx
      BY DEF TypeOK, Doc, Dated
    <2>2. DoneBy(tasks[a])' = {}
      BY DEF DoneBy
    <2>3. \A b \in Actors : Carries(b, r, v)' => tasks'[b].idx < tasks'[a].idx
      BY <1>2, <1>3
    <2>. QED  BY <1>2, <2>1, <2>2, <2>3 DEF ServedBy, Fixed
  <1>. QED  BY <1>5, <1>6, <1>7 DEF Serves, RowSame

\* Elasticsearch forgets a delete, when nobody below it is left to write.
LEMMA ServesForgotten ==
    ASSUME TypeOK, Dated, Fixed, NEW r \in Resources, rows' = rows, tasks' = tasks, NEW w \in Versions,
           \A v \in Versions \ {w} : docs'[r][v] = docs[r][v],
           docs'[r][w].body = docs[r][w].body, ~docs[r][w].body.found,
           \A a \in Actors : tasks[a] # Idle /\ Id(a) = r => tasks[a].idx = 0 \/ tasks[a].idx >= docs[r][w].ver,
           Serves(r)
    PROVE  Serves(r)'
  <1>1. \A a, v : (Carries(a, r, v)' <=> Carries(a, r, v)) /\ (Serving(a, r)' <=> Serving(a, r))
    BY DEF Carries, Works, Older, OldBody, Serving
  <1>2. \A a : DoneBy(tasks[a])' = DoneBy(tasks[a])
    BY DEF DoneBy, Fixed
  <1>3. ASSUME NEW b \in Actors, Carries(b, r, w), tasks[b].idx < docs[r][w].ver  PROVE FALSE
    <2>1. tasks[b] \in Task /\ tasks[b] # Idle /\ Id(b) = r
      BY <1>3 DEF Carries, Works, TypeOK, Id
    <2>2. tasks[b].idx # 0
      BY <1>3, <2>1 DEF Carries, Older, OldBody, Dated, DatedTask, Building
    <2>3. tasks[b].idx >= docs[r][w].ver
      BY <2>1, <2>2
    <2>. QED  BY <1>3, <2>1, <2>3 DEF Task, TypeOK, Doc
  <1>. SUFFICES ASSUME NEW v \in Versions
                PROVE  /\ \A c \in Actors : Serving(c, r)' => ServedBy(c, r, v)'
                       /\ ~rows'[r].stale => Clear(r, v)'
    BY DEF Serves, Fixed
  <1>4. OldBody(docs[r][v].body, rows[r].version)' => OldBody(docs[r][v].body, rows[r].version) /\ docs'[r][v] = docs[r][v]
    BY DEF OldBody
  <1>5. Clear(r, v) => Clear(r, v)'
    <2>1. CASE v = w
      <3>1. Clear(r, v) => \A b \in Actors : ~Carries(b, r, v)
        BY <2>1, <1>3 DEF Clear
      <3>. QED  BY <3>1, <1>1, <1>4 DEF Clear, Fixed
    <2>2. CASE v # w
      BY <2>2, <1>1, <1>4 DEF Clear, Fixed
    <2>. QED  BY <2>1, <2>2
  <1>6. \A c \in Actors : ServedBy(c, r, v) => ServedBy(c, r, v)'
    BY <1>1, <1>2, <1>4, <1>5 DEF ServedBy, Fixed
  <1>. QED  BY <1>1, <1>5, <1>6 DEF Serves

\* A build finishes under the mark it captured: every document is clear.
LEMMA ServesFinished ==
    ASSUME TypeOK, Fixed, NEW r \in Resources, NEW a \in Actors, Serving(a, r), tasks[a].pc = "finish",
           rows'[r].version = rows[r].version, rows'[r].staleSeq = rows[r].staleSeq, docs'[r] = docs[r],
           tasks' = [tasks EXCEPT ![a] = Idle], Serves(r)
    PROVE  Serves(r)'
  <1>1. \A b \in Actors : tasks'[b] = IF b = a THEN Idle ELSE tasks[b]
    BY DEF TypeOK
  <1>2. ASSUME NEW b \in Actors
        PROVE  /\ \A v \in Versions : Carries(b, r, v)' => Carries(b, r, v) /\ tasks'[b].idx = tasks[b].idx
               /\ Serving(b, r)' => /\ Serving(b, r) /\ tasks'[b] = tasks[b]
    BY <1>1 DEF Carries, Serving, Works, Older, OldBody
  <1>. SUFFICES ASSUME NEW v \in Versions
                PROVE  /\ \A c \in Actors : Serving(c, r)' => ServedBy(c, r, v)'
                       /\ Clear(r, v)'
    BY DEF Serves, Fixed
  <1>3. OldBody(docs[r][v].body, rows[r].version)' => OldBody(docs[r][v].body, rows[r].version)
    BY DEF OldBody
  <1>4. v \in DoneBy(tasks[a])
    BY DEF DoneBy
  <1>5. Clear(r, v)
    BY <1>4 DEF Serves, ServedBy
  <1>6. Clear(r, v)'
    BY <1>2, <1>3, <1>5 DEF Clear, Fixed
  <1>7. ASSUME NEW c \in Actors, Serving(c, r)'  PROVE ServedBy(c, r, v)'
    <2>1. Serving(c, r) /\ tasks'[c] = tasks[c] /\ ServedBy(c, r, v)
      BY <1>2, <1>7 DEF Serves
    <2>. QED  BY <1>2, <1>3, <1>6, <2>1 DEF ServedBy, Fixed
  <1>. QED  BY <1>6, <1>7

-----------------------------------------------------------------------------
(* Numbers and news *)

\* Numbers grow, a call that opens takes its numbers past the last one, and
\* nothing is notified or registered that the source has not said.
Grows ==
    /\ seq <= seq'
    /\ \A g \in regs' : g.phase = "open" => g \in regs \/ g.draw = seq
    /\ \A r \in Resources : src[r].n <= src'[r].n
    /\ \A m \in msgs' : m \in msgs \/ (\E g \in regs : m \in g.items) \/ m.n <= src'[m.r].n
    /\ \A h \in regs' : \A m \in h.items : m \in msgs \/ \E g \in regs : m \in g.items

\* A step that leaves the source and the calls alone.
LEMMA GrowsQuietly == ASSUME TypeOK, seq <= seq', UNCHANGED <<src, msgs, regs>>  PROVE Grows
  <1>1. \A r \in Resources : src[r].n \in Nat
    BY DEF TypeOK, Source
  <1>. QED  BY <1>1 DEF Grows

\* A step of the source.
LEMMA ChangeGrows ==
    ASSUME TypeOK, NEW r \in Resources, Change(r)
    PROVE  Grows
  <1>1. PICK vs \in Existences[r], refs \in RefChoices[r], ups \in UpChoices[r] :
           /\ src' = [src EXCEPT ![r] = [n |-> @.n + 1, vs |-> vs, refs |-> refs, ups |-> ups]]
           /\ msgs' = msgs \cup {[r |-> r, n |-> src[r].n + 1, deleted |-> vs = {}]}
           /\ seq' = seq /\ regs' = regs
    BY DEF Change
  <1>2. seq \in Nat /\ \A x \in Resources : src[x].n \in Nat
    BY DEF TypeOK, Source
  <1>. PICK n \in Nat : n = src[r].n + 1
    BY <1>2
  <1>3. src'[r].n = n /\ \A x \in Resources \ {r} : src'[x] = src[x]
    BY <1>1 DEF TypeOK
  <1>4. \A x \in Resources : src[x].n <= src'[x].n
    BY <1>2, <1>3
  <1>5. \A m \in msgs' : m \in msgs \/ (m.r = r /\ m.n = n)
    BY <1>1
  <1>. QED  BY <1>1, <1>2, <1>3, <1>4, <1>5 DEF Grows

\* A call begins.
LEMMA BeginGrows ==
    ASSUME TypeOK, RowsFormed, RegBegin
    PROVE  Grows
  <1>. DEFINE Call(M, g) == /\ M \subseteq msgs /\ msgs' = msgs \ M /\ regs' = regs \cup {g} /\ g.draw = seq
                            /\ g.items = M
  <1>1. \E M, g : Call(M, g)
    <2>. DEFINE call(M, L, P) == [phase |-> "open", items |-> M, draw |-> seq, locks |-> L,
                                  parents |-> P, accepted |-> {}, marked |-> {}, claims |-> {}, missed |-> {}]
    <2>1. PICK M, L, P : /\ M \in SUBSET {m \in msgs : Deliverable(m)} /\ msgs' = msgs \ M
                         /\ regs' = regs \cup {call(M, L, P)}
      BY DEF RegBegin
    <2>2. call(M, L, P).draw = seq /\ call(M, L, P).items = M
      OBVIOUS
    <2>. HIDE DEF call
    <2>3. Call(M, call(M, L, P))
      BY <2>1, <2>2
    <2>. QED  BY <2>3
  <1>2. PICK M, g : Call(M, g)
    BY <1>1
  <1>3. src' = src /\ \E n \in Nat : seq' = seq + n
    BY BeginCallStep DEF RegBegin
  <1>4. seq <= seq' /\ \A x \in Resources : src[x].n <= src'[x].n
    BY <1>3 DEF TypeOK, Source
  <1>. QED  BY <1>2, <1>4 DEF Grows

\* Whether a call commits, fails, goes on or ends.
LEMMA CallGrows ==
    ASSUME TypeOK, RowsFormed, Numbered, NEW g \in regs, Register(g)
    PROVE  Grows
  <1>1. src' = src /\ \A x \in Resources : src[x].n <= src'[x].n
    <2>1. src' = src
      BY DEF Register, RegCommit, RegAbort, RegFanout, RegMark, RegFanoutFails, RegCrash
    <2>. QED  BY <2>1 DEF TypeOK, Source
  <1>2. msgs' = msgs \/ msgs' = msgs \cup g.items
    BY DEF Register, RegCommit, RegAbort, RegFanout, RegMark, RegFanoutFails, RegCrash
  <1>3. seq <= seq'
    <2>1. CASE RegCommit(g)
      BY <2>1, CommitStep DEF TypeOK
    <2>2. CASE RegMark(g)
      BY <2>2, SubmitStep DEF TypeOK
    <2>3. CASE RegAbort(g) \/ RegFanout(g) \/ RegFanoutFails(g) \/ RegCrash(g)
      BY <2>3 DEF RegAbort, RegFanout, RegFanoutFails, RegCrash, TypeOK
    <2>. QED  BY <2>1, <2>2, <2>3 DEF Register
  <1>4. \E k : /\ regs' \subseteq (regs \ {g}) \cup {k} /\ k.phase # "open" /\ k.items = g.items
    <2>1. g \in Reg
      BY DEF TypeOK
    <2>. DEFINE done(A, P, C) == [g EXCEPT !.phase = "fanout", !.locks = {}, !.accepted = A, !.marked = P,
                                           !.claims = C]
                found(M) == [g EXCEPT !.phase = "mark", !.missed = M]
    <2>2. \A A, P, C : done(A, P, C).phase # "open" /\ done(A, P, C).items = g.items
      BY <2>1 DEF Reg
    <2>3. \A M : found(M).phase # "open" /\ found(M).items = g.items
      BY <2>1 DEF Reg
    <2>4. CASE RegCommit(g)
      <3>1. \E A, P, C : regs' = (regs \ {g}) \cup (IF A = {} THEN {} ELSE {done(A, P, C)})
        BY <2>4 DEF RegCommit
      <3>. HIDE DEF done
      <3>2. PICK A, P, C : regs' = (regs \ {g}) \cup (IF A = {} THEN {} ELSE {done(A, P, C)})
        BY <3>1
      <3>. QED  BY <3>2, <2>2
    <2>5. CASE RegFanout(g)
      <3>1. \E M : regs' = regs \ {g} \/ regs' = (regs \ {g}) \cup {found(M)}
        BY <2>5 DEF RegFanout
      <3>. HIDE DEF found
      <3>. QED  BY <3>1, <2>3
    <2>6. CASE RegAbort(g) \/ RegMark(g) \/ RegFanoutFails(g) \/ RegCrash(g)
      <3>1. regs' = regs \ {g}
        BY <2>6 DEF RegAbort, RegMark, RegFanoutFails, RegCrash
      <3>. QED  BY <3>1, <2>3
    <2>. QED  BY <2>4, <2>5, <2>6 DEF Register
  <1>. QED  BY <1>1, <1>2, <1>3, <1>4 DEF Grows

\* A number that has been used stays so.
LEMMA SpentKept ==
    ASSUME seq \in Nat, seq' \in Nat, Grows, NEW s, Spent(s)
    PROVE  Spent(s)'
  <1>1. s \in 0 .. seq'
    BY DEF Spent, Grows
  <1>2. ASSUME NEW g \in regs', g.phase = "open"  PROVE s \notin Drawn(g)
    <2>1. CASE g \in regs
      BY <2>1, <1>2 DEF Spent
    <2>2. CASE g.draw = seq
      BY <2>2 DEF Spent, Drawn
    <2>. QED  BY <2>1, <2>2, <1>2 DEF Grows
  <1>3. \A g : Drawn(g)' = Drawn(g)
    BY DEF Drawn, Touched
  <1>. QED  BY <1>1, <1>2, <1>3 DEF Spent

-----------------------------------------------------------------------------
(* Steps of the three parts of the invariant *)

\* The row keeps its version, is marked, or is gone.
RowGoes(r) == RowSame(r) \/ RowMarked(r) \/ rows'[r].version = 0

\* What has been registered is still no more than the source has said.
LEMMA HeardKept ==
    ASSUME TypeOK, TypeOK', Heard, Grows, \A r \in Resources : RowGoes(r) \/ (rows'[r].present /\ rows'[r].version = rows[r].version)
    PROVE  Heard'
  <1>1. ASSUME NEW r \in Resources
        PROVE  rows'[r].version <= src'[r].n /\ (~rows'[r].present => rows'[r].version = 0)
    <2>1. rows[r].version \in Nat /\ rows'[r].version \in Nat /\ src[r].n \in Nat /\ src'[r].n \in Nat
      BY DEF TypeOK, Row, Source
    <2>2. src[r].n <= src'[r].n
      BY DEF Grows
    <2>. QED  BY <2>1, <2>2 DEF Heard, RowGoes, RowSame, RowMarked
  <1>2. \A m \in Msg : src[m.r].n \in Nat /\ src'[m.r].n \in Nat /\ src[m.r].n <= src'[m.r].n /\ m.n \in Nat
    BY DEF TypeOK, Msg, Source, Grows
  <1>3. ASSUME NEW m \in Msg, m \in msgs \/ \E g \in regs : m \in g.items  PROVE m.n <= src'[m.r].n
    BY <1>2, <1>3 DEF Heard
  <1>4. \A m \in msgs' : m.n <= src'[m.r].n
    <2>1. msgs' \subseteq Msg
      BY DEF TypeOK
    <2>. QED  BY <2>1, <1>3 DEF Grows
  <1>5. \A h \in regs' : \A m \in h.items : m.n <= src'[m.r].n
    <2>1. \A h \in regs' : h.items \subseteq Msg
      BY DEF TypeOK, Reg
    <2>. QED  BY <2>1, <1>3 DEF Grows
  <1>. QED  BY <1>1, <1>4, <1>5 DEF Heard

\* Documents get the numbers of tasks, and tasks keep theirs.
LEMMA DatedKept ==
    ASSUME TypeOK, TypeOK', Dated, Grows, Fixed, NEW a \in Actors, NEW W,
           \A r \in Resources, v \in Versions :
               docs'[r][v].ver \in {0, docs[r][v].ver} \/ (tasks[a] # Idle /\ docs'[r][v].ver = tasks[a].idx),
           \A b \in Actors : GoesOn(b, W) \/ (tasks'[b] # Idle => DatedTask(tasks[b])')
    PROVE  Dated'
  <1>1. seq \in Nat /\ seq' \in Nat /\ seq <= seq'
    BY DEF TypeOK, Grows
  <1>2. ASSUME NEW r \in Resources, NEW v \in Versions  PROVE docs'[r][v].ver <= seq'
    <2>1. docs[r][v].ver \in Nat /\ docs[r][v].ver <= seq
      BY DEF TypeOK, Doc, Dated
    <2>2. tasks[a] # Idle => tasks[a].idx \in Nat /\ tasks[a].idx <= seq
      BY DEF TypeOK, Task, Dated, DatedTask
    <2>. QED  BY <1>1, <2>1, <2>2
  <1>3. ASSUME NEW b \in Actors, tasks'[b] # Idle, GoesOn(b, W)  PROVE DatedTask(tasks[b])'
    <2>1. CASE Inert(tasks'[b])
      BY <2>1, <1>1 DEF Inert, DatedTask, Building, Fixed
    <2>2. CASE tasks[b] # Idle /\ Continues(tasks[b], tasks'[b], src[tasks[b].entry.r].n, W)
      <3>1. DatedTask(tasks[b]) /\ tasks[b].idx \in Nat
        BY <2>2 DEF Dated, TypeOK, Task
      <3>2. tasks'[b].idx <= seq' /\ (tasks'[b].pc \in Building => tasks'[b].idx # 0)
        BY <3>1, <2>2, <1>1 DEF DatedTask, Continues
      <3>3. tasks'[b].pc \in Building => Spent(tasks[b].mark) /\ tasks'[b].mark = tasks[b].mark
        BY <3>1, <2>2 DEF DatedTask, Continues
      <3>4. PICK s : s = tasks[b].mark
        OBVIOUS
      <3>5. Spent(s) => Spent(s)'
        BY <1>1, SpentKept
      <3>6. tasks'[b].pc \in Building => Spent(tasks[b].mark)'
        BY <3>3, <3>4, <3>5 DEF Spent
      <3>7. tasks'[b].pc \in {"begin", "begindelete"} => tasks'[b].idx = 0
        BY <3>1, <2>2 DEF DatedTask, Continues
      <3>8. tasks'[b].idx = 0 => \A v \in Versions : ~tasks'[b].out[v].found
        BY <3>1, <2>2 DEF DatedTask, Continues
      <3>. QED  BY <3>2, <3>6, <3>7, <3>8 DEF DatedTask, Fixed
    <2>. QED  BY <2>1, <2>2, <1>3 DEF GoesOn
  <1>4. \A b \in Actors : tasks'[b] # Idle => DatedTask(tasks[b])'
    BY <1>3
  <1>. QED  BY <1>2, <1>4 DEF Dated, Fixed

\* What a step is to do to the invariant, given OwnInv after it.
ServeGoal == Heard' /\ Dated' /\ \A r \in Resources : Serves(r)'

\* A step that writes no document and begins and finishes no build.
LEMMA PlainGoal ==
    ASSUME ServeInv, TypeOK', Fixed, Grows, docs' = docs, \A a \in Actors : GoesOn(a, {}),
           \A r \in Resources : RowGoes(r)
    PROVE  ServeGoal
  <1>1. TypeOK /\ Heard /\ Dated /\ \A r \in Resources : Serves(r)
    BY DEF ServeInv, OwnInv
  <1>2. Heard'
    BY <1>1, HeardKept
  <1>3. Dated'
    <2>1. Sweeper \in Actors
      BY DEF Actors
    <2>. QED  BY <1>1, <2>1, DatedKept
  <1>4. ASSUME NEW r \in Resources  PROVE Serves(r)'
    <2>1. CASE RowSame(r)
      BY <2>1, <1>1, ServesKept
    <2>2. CASE RowMarked(r)
      BY <2>2, <1>1, ServesMarked
    <2>3. CASE rows'[r].version = 0
      BY <2>3, ServesBlank
    <2>. QED  BY <2>1, <2>2, <2>3 DEF RowGoes
  <1>. QED  BY <1>2, <1>3, <1>4 DEF ServeGoal

-----------------------------------------------------------------------------
(* What the statements do to a row's version and mark *)

RowKept(row, new) ==
    /\ new.version = row.version /\ new.staleSeq = row.staleSeq /\ new.stale = row.stale
    /\ row.present => new.present

\* The statements of an owner and of the sweep, and time, leave both alone.
LEMMA OwnerStatements ==
    ASSUME NEW row \in Row, NEW token, NEW idx
    PROVE  /\ RowKept(row, row)
           /\ RowKept(row, Renew(row, token)) /\ RowKept(row, Release(row, token))
           /\ RowKept(row, ReleaseFailed(row, token)) /\ RowKept(row, SweepClaim(row))
           /\ RowKept(row, BeginBuildRow(row, idx, token)) /\ RowKept(row, BeginDeleteRow(row, idx, token))
           /\ RowKept(row, Reclaimed(row))
           /\ RowKept(row, [row EXCEPT !.live = FALSE]) /\ RowKept(row, [row EXCEPT !.waiting = FALSE])
  <1>1. RowKept(row, Renew(row, token)) /\ RowKept(row, SweepClaim(row)) /\ RowKept(row, Reclaimed(row))
    BY DEF RowKept, Row, Renew, SweepClaim, Reclaimed
  <1>2. RowKept(row, Release(row, token)) /\ RowKept(row, ReleaseFailed(row, token))
    BY DEF RowKept, Row, Release, ReleaseFailed, Disowned
  <1>3. RowKept(row, BeginBuildRow(row, idx, token)) /\ RowKept(row, BeginDeleteRow(row, idx, token))
    BY DEF RowKept, Row, BeginBuildRow, BeginDeleteRow, Renew
  <1>4. RowKept(row, [row EXCEPT !.live = FALSE]) /\ RowKept(row, [row EXCEPT !.waiting = FALSE])
    BY DEF RowKept, Row
  <1>5. RowKept(row, row)
    BY DEF RowKept
  <1>. QED  BY <1>1, <1>2, <1>3, <1>4, <1>5

\* A finish clears the mark it captured or leaves it.
LEMMA FinishStatement ==
    ASSUME NEW row \in Row, NEW mark, NEW token, NEW new, new = FinishOwned(row, mark, token)
    PROVE  \/ RowKept(row, new)
           \/ /\ row.present /\ row.staleSeq = mark
              /\ new.present /\ new.version = row.version /\ new.staleSeq = row.staleSeq
  <1>1. CASE ~row.present
    BY <1>1 DEF FinishOwned, RowKept
  <1>2. CASE row.present /\ row.staleSeq = mark
    BY <1>2 DEF FinishOwned, Cleared, Disowned, Row
  <1>3. CASE row.present /\ row.staleSeq # mark
    BY <1>3, OwnerStatements DEF FinishOwned
  <1>. QED  BY <1>1, <1>2, <1>3

\* A delete's last statement removes the row or leaves its mark.
LEMMA DropStatement ==
    ASSUME NEW row \in Row, NEW mark, NEW token, NEW new, new = DeleteRowIfSeq(row, mark, token)
    PROVE  RowKept(row, new) \/ new.version = 0
  <1>1. CASE ~row.present \/ row.staleSeq = mark
    BY <1>1 DEF DeleteRowIfSeq, BlankRow
  <1>2. CASE ~(~row.present \/ row.staleSeq = mark)
    BY <1>2, OwnerStatements DEF DeleteRowIfSeq
  <1>. QED  BY <1>1, <1>2

\* One row is replaced by one with the same version and mark.
LEMMA OneRowKept ==
    ASSUME TypeOK, NEW x \in Resources, NEW new, RowKept(rows[x], new), rows' = [rows EXCEPT ![x] = new]
    PROVE  \A r \in Resources : RowSame(r)
  <1>1. rows'[x] = new /\ \A r \in Resources \ {x} : rows'[r] = rows[r]
    BY DEF TypeOK
  <1>. QED  BY <1>1 DEF RowSame, RowKept

\* MarkStale puts a number on each row that nobody has seen.
LEMMA MarkAllMarks ==
    ASSUME TypeOK, Heard, NEW S \in SUBSET Resources, rows' = MarkAll(S)
    PROVE  \A r \in Resources : RowGoes(r)
  <1>. SUFFICES ASSUME NEW r \in Resources  PROVE RowGoes(r)
    OBVIOUS
  <1>1. CASE r \in S
    <2>1. Nth(S, r) \in Nat /\ 1 <= Nth(S, r)
      BY <1>1, NumberFacts
    <2>2. seq \in Nat /\ rows[r] \in Row
      BY DEF TypeOK
    <2>. PICK s \in Nat : s = seq + Nth(S, r)
      BY <2>1, <2>2
    <2>3. rows'[r] = MarkRow(rows[r], s)
      BY <1>1 DEF MarkAll
    <2>4. /\ rows'[r].present /\ rows'[r].stale /\ rows'[r].version = rows[r].version /\ rows'[r].staleSeq = s
      BY <2>2, <2>3 DEF MarkRow, ClaimAt, Row
    <2>5. ~Spent(s)
      BY <2>1, <2>2 DEF Spent
    <2>. QED  BY <2>4, <2>5 DEF RowGoes, RowMarked, Heard
  <1>2. CASE r \notin S
    BY <1>2 DEF MarkAll, RowGoes, RowSame
  <1>. QED  BY <1>1, <1>2

\* So does the commit of a registration, which raises the version no further
\* than the source's.
LEMMA CommitMarks ==
    ASSUME TypeOK, Heard, NEW g \in regs, RegCommit(g)
    PROVE  \A r \in Resources : RowGoes(r)
  <1>1. PICK A : A = {m.r : m \in AcceptedItems(g)}
    OBVIOUS
  <1>2. PICK P : P = StatementParents(g, A)
    OBVIOUS
  <1>3. g.phase = "open" /\ rows' = RegisteredRows(g, A, P)
    BY <1>1, <1>2 DEF RegCommit
  <1>4. /\ g.items \subseteq Msg /\ g.draw \in Nat /\ Touched(g) \subseteq Resources
        /\ g.parents \in [Resources -> SUBSET Resources]
    BY RegFacts
  <1>5. A \subseteq Touched(g) /\ P \subseteq Resources
    BY <1>1, <1>2, <1>4 DEF AcceptedItems, Touched, StatementParents
  <1>. SUFFICES ASSUME NEW r \in Resources  PROVE RowGoes(r)
    OBVIOUS
  <1>6. seq \in Nat /\ rows[r] \in Row
    BY DEF TypeOK
  <1>7. CASE r \in A
    <2>1. Nth(Touched(g), r) \in Nat /\ 1 <= Nth(Touched(g), r) /\ Nth(Touched(g), r) <= Cardinality(Touched(g))
          /\ Cardinality(Touched(g)) \in Nat
      BY <1>4, <1>5, <1>7, NumberFacts
    <2>. PICK s \in Nat : s = Number(g, r)
      BY <2>1, <1>4 DEF Number
    <2>2. s \in Drawn(g)
      BY <2>1, <1>4 DEF Number, Drawn
    <2>3. ~Spent(s)
      BY <2>2, <1>3 DEF Spent
    <2>4. PICK m \in g.items : m = ItemOf(g, r) /\ m.r = r
      <3>1. \E m \in g.items : m.r = r
        BY <1>5, <1>7 DEF Touched
      <3>. QED  BY <3>1 DEF ItemOf
    <2>5. Item(m).version = 0 \/ Item(m).version = m.n
      BY DEF Item
    <2>6. Item(m).version <= src[r].n /\ Item(m).version \in Nat
      <3>1. m.n \in Nat /\ m.n <= src[r].n /\ src[r].n \in Nat
        BY <2>4, <1>4 DEF Heard, Msg, TypeOK, Source
      <3>. QED  BY <3>1, <2>5
    <2>. PICK i : i = Item(m)
      OBVIOUS
    <2>7. rows'[r] = RegisterItem(rows[r], i, s)
      BY <1>3, <1>7, <2>4 DEF RegisteredRows
    <2>8. /\ rows'[r].present /\ rows'[r].stale /\ rows'[r].staleSeq = s
          /\ rows'[r].version \in {0, rows[r].version, i.version}
      BY <1>6, <2>7 DEF RegisterItem, ClaimAt, Row
    <2>9. rows[r].version <= src[r].n /\ 0 <= src[r].n
      BY DEF Heard, TypeOK, Source
    <2>. QED  BY <2>3, <2>6, <2>8, <2>9 DEF RowGoes, RowMarked
  <1>8. CASE r \in P /\ r \notin A
    <2>1. Nth(P, r) \in Nat /\ 1 <= Nth(P, r)
      BY <1>5, <1>8, NumberFacts
    <2>. PICK s \in Nat : s = seq + Nth(P, r)
      BY <2>1, <1>6
    <2>2. rows'[r] = MarkRow(rows[r], s)
      BY <1>3, <1>8 DEF RegisteredRows
    <2>3. rows'[r].present /\ rows'[r].stale /\ rows'[r].version = rows[r].version /\ rows'[r].staleSeq = s
      BY <1>6, <2>2 DEF MarkRow, ClaimAt, Row
    <2>4. ~Spent(s)
      BY <2>1, <1>6 DEF Spent
    <2>. QED  BY <2>3, <2>4 DEF RowGoes, RowMarked, Heard
  <1>9. CASE r \notin A \cup P
    BY <1>3, <1>9 DEF RegisteredRows, RowGoes, RowSame
  <1>. QED  BY <1>7, <1>8, <1>9

-----------------------------------------------------------------------------
(* One step after the other *)

\* A step that writes no row and no document and leaves the tasks alone.
LEMMA StillGoal ==
    ASSUME ServeInv, TypeOK', Fixed, Grows, UNCHANGED <<rows, docs, tasks>>
    PROVE  ServeGoal
  <1>1. \A a \in Actors : GoesOn(a, {})
    BY SameGoesOn
  <1>2. \A r \in Resources : RowGoes(r)
    BY DEF RowGoes, RowSame
  <1>. QED  BY <1>1, <1>2, PlainGoal

\* The source changes, or a call begins, commits, fails, goes on or ends.
LEMMA CallServes ==
    ASSUME ServeInv, TypeOK', Fixed, (\E r \in Resources : Change(r)) \/ RegBegin \/ \E g \in regs : Register(g)
    PROVE  ServeGoal
  <1>1. TypeOK /\ RowsFormed /\ Numbered /\ Heard
    BY DEF ServeInv, OwnInv
  <1>2. CASE \E r \in Resources : Change(r)
    <2>1. UNCHANGED <<rows, docs, tasks>>
      BY <1>2 DEF Change
    <2>2. Grows
      BY <1>1, <1>2, ChangeGrows
    <2>. QED  BY <2>1, <2>2, StillGoal
  <1>3. CASE RegBegin
    <2>1. UNCHANGED <<rows, docs, tasks>>
      BY <1>3 DEF RegBegin
    <2>2. Grows
      BY <1>1, <1>3, BeginGrows
    <2>. QED  BY <2>1, <2>2, StillGoal
  <1>4. ASSUME NEW g \in regs, Register(g)  PROVE ServeGoal
    <2>1. Grows
      BY <1>1, <1>4, CallGrows
    <2>2. UNCHANGED <<docs, tasks>>
      BY <1>4 DEF Register, RegCommit, RegAbort, RegFanout, RegMark, RegFanoutFails, RegCrash
    <2>3. \A a \in Actors : GoesOn(a, {})
      BY <2>2, SameGoesOn
    <2>4. CASE RegCommit(g)
      <3>1. \A r \in Resources : RowGoes(r)
        BY <2>4, <1>1, CommitMarks
      <3>. QED  BY <2>1, <2>2, <2>3, <3>1, PlainGoal
    <2>5. CASE RegMark(g)
      <3>1. rows' = MarkAll(g.missed) /\ g.missed \in SUBSET Resources
        BY <2>5, <1>1, RegFacts DEF RegMark
      <3>2. \A r \in Resources : RowGoes(r)
        BY <3>1, <1>1, MarkAllMarks
      <3>. QED  BY <2>1, <2>2, <2>3, <3>2, PlainGoal
    <2>6. CASE RegAbort(g) \/ RegFanout(g) \/ RegFanoutFails(g) \/ RegCrash(g)
      <3>1. rows' = rows
        BY <2>6 DEF RegAbort, RegFanout, RegFanoutFails, RegCrash
      <3>. QED  BY <3>1, <2>1, <2>2, StillGoal
    <2>. QED  BY <1>4, <2>4, <2>5, <2>6 DEF Register
  <1>. QED  BY <1>2, <1>3, <1>4

\* The queue, the sweep's listing and the renewal at a dequeue.
LEMMA QueueServes ==
    ASSUME ServeInv, TypeOK', Fixed,
           \/ SweepList
           \/ \E e \in entries : Shed(e) \/ LoseEntry(e) \/ \E a \in Actors : Take(a, e) \/ TakeFails(a, e)
    PROVE  ServeGoal
  <1>1. TypeOK /\ seq \in Nat
    BY DEF ServeInv, OwnInv, TypeOK
  <1>2. UNCHANGED <<seq, docs, src, msgs, regs>>
    BY DEF SweepList, Shed, LoseEntry, Take, TakeFails
  <1>3. Grows
    BY <1>1, <1>2, GrowsQuietly
  <1>4. CASE SweepList
    <2>1. tasks' = tasks
      BY <1>4 DEF SweepList
    <2>2. ASSUME NEW r \in Resources  PROVE RowGoes(r)
      <3>1. rows'[r] = SweepClaim(rows[r]) \/ rows'[r] = rows[r]
        BY <1>4 DEF SweepList
      <3>2. rows[r] \in Row
        BY <1>1 DEF TypeOK
      <3>. QED  BY <3>1, <3>2, OwnerStatements DEF RowKept, RowGoes, RowSame
    <2>. QED  BY <2>1, <2>2, <1>2, <1>3, SameGoesOn, PlainGoal
  <1>5. ASSUME NEW e \in entries, Shed(e) \/ LoseEntry(e) \/ \E a \in Actors : TakeFails(a, e)  PROVE ServeGoal
    <2>1. tasks' = tasks /\ (rows' = rows \/ rows' = [rows EXCEPT ![e.r] = Release(rows[e.r], e.token)])
      BY <1>5 DEF Shed, LoseEntry, TakeFails
    <2>2. e.r \in Resources /\ rows[e.r] \in Row
      BY <1>1 DEF TypeOK, Entry
    <2>3. RowKept(rows[e.r], Release(rows[e.r], e.token))
      BY <2>2, OwnerStatements
    <2>4. rows' # rows => \A r \in Resources : RowSame(r)
      BY <2>1, <2>2, <2>3, <1>1, OneRowKept
    <2>5. \A r \in Resources : RowGoes(r)
      BY <2>4 DEF RowGoes, RowSame
    <2>. QED  BY <2>1, <2>5, <1>2, <1>3, SameGoesOn, PlainGoal
  <1>6. ASSUME NEW e \in entries, NEW a \in Actors, Take(a, e)  PROVE ServeGoal
    <2>1. /\ rows' = [rows EXCEPT ![e.r] = Renew(rows[e.r], e.token)]
          /\ tasks' = tasks \/ tasks' = [tasks EXCEPT ![a] = Started(e)]
      BY <1>6 DEF Take
    <2>2. e.r \in Resources /\ rows[e.r] \in Row
      BY <1>1 DEF TypeOK, Entry
    <2>3. RowKept(rows[e.r], Renew(rows[e.r], e.token))
      BY <2>2, OwnerStatements
    <2>4. \A r \in Resources : RowGoes(r)
      BY <2>1, <2>2, <2>3, <1>1, OneRowKept DEF RowGoes
    <2>5. Inert(Started(e))
      <3>1. Started(e).idx = 0 /\ Started(e).pc \in {"begin", "begindelete"}
            /\ Started(e).out = [v \in Versions |-> NoBody]
        BY DEF Started
      <3>. QED  BY <3>1, <1>1, <1>2 DEF Inert, Building, NoBody
    <2>6. \A b \in Actors : tasks'[b] = tasks[b] \/ tasks'[b] = Started(e)
      BY <2>1, <1>1 DEF TypeOK
    <2>7. \A b \in Actors : GoesOn(b, {})
      <3>1. ASSUME NEW b \in Actors, tasks'[b] = Started(e)  PROVE GoesOn(b, {})
        BY <3>1, <2>5 DEF GoesOn
      <3>. QED  BY <3>1, <2>6, SameGoesOn
    <2>. QED  BY <2>4, <2>7, <1>2, <1>3, PlainGoal
  <1>. QED  BY <1>4, <1>5, <1>6

\* Time.
LEMMA TimeServes ==
    ASSUME ServeInv, TypeOK', Fixed, NEW x \in Resources, RowEvent(x)
    PROVE  ServeGoal
  <1>1. TypeOK /\ seq \in Nat /\ rows[x] \in Row /\ Heard /\ Dated
    BY DEF ServeInv, OwnInv, TypeOK
  <1>2. UNCHANGED <<seq, src, msgs, regs, tasks>>
    BY DEF RowEvent, LeaseLapses, DeadLeaseExpires, BackoffElapses, ForgetDelete
  <1>3. Grows
    BY <1>1, <1>2, GrowsQuietly
  <1>4. CASE LeaseLapses(x) \/ DeadLeaseExpires(x) \/ BackoffElapses(x)
    <2>1. /\ docs' = docs
          /\ \/ rows' = [rows EXCEPT ![x] = [rows[x] EXCEPT !.live = FALSE]]
             \/ rows' = [rows EXCEPT ![x] = [rows[x] EXCEPT !.waiting = FALSE]]
      BY <1>4 DEF LeaseLapses, DeadLeaseExpires, BackoffElapses, Expire
    <2>2. \A r \in Resources : RowSame(r)
      BY <2>1, <1>1, OwnerStatements, OneRowKept
    <2>. QED  BY <2>1, <2>2, <1>2, <1>3, SameGoesOn, PlainGoal DEF RowGoes
  <1>5. ASSUME NEW w \in Versions, ForgetDelete(x, w)  PROVE ServeGoal
    <2>1. /\ rows' = rows /\ docs' = [docs EXCEPT ![x][w].ver = 0] /\ ~docs[x][w].body.found
          /\ \A a \in Actors : tasks[a] # Idle /\ Id(a) = x => tasks[a].idx = 0 \/ tasks[a].idx >= docs[x][w].ver
      BY <1>5 DEF ForgetDelete
    <2>2. docs[x][w] \in Doc /\ docs \in [Resources -> [Versions -> Doc]]
      BY <1>1 DEF TypeOK
    <2>3. /\ docs'[x][w].ver = 0 /\ docs'[x][w].body = docs[x][w].body
          /\ \A v \in Versions \ {w} : docs'[x][v] = docs[x][v]
          /\ \A r \in Resources \ {x} : docs'[r] = docs[r]
      BY <2>1, <2>2 DEF Doc
    <2>4. \A r \in Resources : RowSame(r)
      BY <2>1 DEF RowSame
    <2>5. \A b \in Actors : GoesOn(b, {})
      BY <1>2, SameGoesOn
    <2>6. Heard'
      BY <2>4, <1>1, <1>3, HeardKept DEF RowGoes
    <2>7. Dated'
      <3>1. Sweeper \in Actors
        BY DEF Actors
      <3>2. \A r \in Resources, v \in Versions : docs'[r][v].ver \in {0, docs[r][v].ver}
        BY <2>3
      <3>. QED  BY <3>1, <3>2, <2>5, <1>1, <1>3, DatedKept
    <2>8. Serves(x)'
      BY <2>1, <2>3, <1>1, <1>2, ServesForgotten DEF ServeInv
    <2>9. \A r \in Resources \ {x} : Serves(r)'
      BY <2>3, <2>4, <2>5, <1>1, ServesKept DEF ServeInv
    <2>. QED  BY <2>6, <2>7, <2>8, <2>9 DEF ServeGoal
  <1>. QED  BY <1>4, <1>5 DEF RowEvent

\* A task comes to another place, past what it has written.
LEMMA PlaceMoves ==
    ASSUME TypeOK, NEW a \in Actors, tasks[a] # Idle, NEW p, tasks' = [tasks EXCEPT ![a].pc = p],
           \/ tasks[a].pc \in {"edges", "parents", "drift", "remark"} /\ p \in {"parents", "drift", "remark", "finish"}
           \/ tasks[a].pc \in {"unlink", "begindelete"} /\ p = "drop"
    PROVE  \A b \in Actors : GoesOn(b, {})
  <1>. DEFINE t == tasks[a]
              u == [t EXCEPT !.pc = p]
  <1>1. t \in Task
    BY DEF TypeOK
  <1>2. /\ u.pc = p /\ u.entry = t.entry /\ u.idx = t.idx /\ u.mark = t.mark /\ u.out = t.out /\ u.seen = t.seen
        /\ u.left = t.left
    BY <1>1 DEF Task
  <1>3. tasks'[a] = u /\ \A b \in Actors \ {a} : tasks'[b] = tasks[b]
    BY <1>1 DEF TypeOK
  <1>. HIDE DEF u
  <1>4. DoneBy(u) \subseteq DoneBy(t)
    BY <1>2 DEF DoneBy
  <1>5. \A v, m : Older(u, v, m) => Older(t, v, m)
    BY <1>2 DEF Older
  <1>6. \A n : Continues(t, u, n, {})
    BY <1>2, <1>4, <1>5 DEF Continues, Building
  <1>. QED  BY <1>3, <1>6, SameGoesOn DEF GoesOn

\* A task reads its root: what it has read is as new as the source.
LEMMA RootMoves ==
    ASSUME TypeOK, NEW a \in Actors, FetchRoot(a)
    PROVE  \A b \in Actors : GoesOn(b, {})
  <1>. DEFINE t == tasks[a]
              r == t.entry.r
              u == [t EXCEPT !.pc = "related", !.seen = src[r]]
  <1>1. t.pc = "root" /\ tasks' = [tasks EXCEPT ![a] = u]
    BY DEF FetchRoot, At, Id
  <1>2. t \in Task /\ t # Idle /\ r \in Resources
    BY <1>1, TaskFacts DEF Id
  <1>3. /\ u.pc = "related" /\ u.entry = t.entry /\ u.idx = t.idx /\ u.mark = t.mark /\ u.out = t.out
        /\ u.seen = src[r]
    BY <1>2 DEF Task
  <1>4. tasks'[a] = u /\ \A b \in Actors \ {a} : tasks'[b] = tasks[b]
    BY <1>1 DEF TypeOK
  <1>5. src[r].n \in Nat
    BY <1>2 DEF TypeOK, Source
  <1>. HIDE DEF u
  <1>6. \A v \in Versions, m \in 0 .. src[r].n : Older(u, v, m) => Older(t, v, m)
    BY <1>3, <1>5 DEF Older
  <1>7. DoneBy(u) = {}
    BY <1>3 DEF DoneBy
  <1>8. Continues(t, u, src[r].n, {})
    BY <1>1, <1>3, <1>6, <1>7 DEF Continues, Building
  <1>. QED  BY <1>2, <1>4, <1>8, SameGoesOn DEF GoesOn

\* It reads what the root relates to, and has the body of one more version.
LEMMA RelatedMoves ==
    ASSUME TypeOK, NEW a \in Actors, FetchRelated(a)
    PROVE  \A b \in Actors : GoesOn(b, {})
  <1>. DEFINE t == tasks[a]
              w == LeastOf(t.left)
              body == Fetched(t.entry.r, w, t.seen)
              out == [t.out EXCEPT ![w] = body]
  <1>1. PICK p, left, ups :
           /\ p \in {"root", "esdelete", "write"} /\ t.pc = "related"
           /\ tasks' = [tasks EXCEPT ![a] = [t EXCEPT !.pc = p, !.out = out, !.left = left, !.ups = ups]]
    BY DEF FetchRelated, At, Id
  <1>2. t \in Task /\ t # Idle /\ t.out \in [Versions -> Body]
    BY <1>1, TaskFacts
  <1>3. body.found => body.n = t.seen.n
    BY DEF Fetched, NoBody
  <1>4. \A v \in Versions : out[v] = body \/ out[v] = t.out[v]
    BY <1>2
  <1>. HIDE DEF body, out
  <1>. DEFINE u == [t EXCEPT !.pc = p, !.out = out, !.left = left, !.ups = ups]
  <1>5. u.pc = p /\ u.entry = t.entry /\ u.idx = t.idx /\ u.mark = t.mark /\ u.out = out
    BY <1>2 DEF Task
  <1>6. tasks'[a] = u /\ \A b \in Actors \ {a} : tasks'[b] = tasks[b]
    BY <1>1 DEF TypeOK
  <1>. HIDE DEF u
  <1>7. \A v \in Versions : \A m : Older(u, v, m) => Older(t, v, m)
    BY <1>1, <1>3, <1>4, <1>5 DEF Older, OldBody
  <1>8. DoneBy(u) = {}
    BY <1>1, <1>5 DEF DoneBy
  <1>9. \A n : Continues(t, u, n, {})
    BY <1>1, <1>5, <1>7, <1>8 DEF Continues, Building
  <1>. QED  BY <1>2, <1>6, <1>9, SameGoesOn DEF GoesOn

\* The steps of a task that write no document.
LEMMA TaskServes ==
    ASSUME ServeInv, TypeOK', Fixed, NEW a \in Actors,
           \/ FetchRoot(a) \/ FetchRelated(a) \/ ReplaceEdges(a) \/ CheckDrift(a) \/ RemoveResource(a)
           \/ ScheduleParents(a) \/ Remark(a)
    PROVE  ServeGoal
  <1>1. TypeOK /\ RowsFormed /\ Numbered /\ Heard /\ seq \in Nat
    BY DEF ServeInv, OwnInv, TypeOK
  <1>2. UNCHANGED <<docs, src, msgs, regs>>
    BY DEF FetchRoot, FetchRelated, ReplaceEdges, CheckDrift, RemoveResource, ScheduleParents, Remark
  <1>3. tasks[a].pc # "idle"
    BY DEF FetchRoot, FetchRelated, ReplaceEdges, CheckDrift, RemoveResource, ScheduleParents, Remark, At
  <1>4. tasks[a] # Idle /\ tasks[a].ups \subseteq Resources /\ Id(a) \in Resources
    BY <1>1, <1>3, TaskFacts
  <1>5. \A b \in Actors : GoesOn(b, {})
    <2>1. CASE FetchRoot(a)
      BY <2>1, <1>1, RootMoves
    <2>2. CASE FetchRelated(a)
      BY <2>2, <1>1, RelatedMoves
    <2>3. CASE ReplaceEdges(a) \/ CheckDrift(a) \/ RemoveResource(a) \/ ScheduleParents(a) \/ Remark(a)
      <3>1. PICK p : /\ tasks' = [tasks EXCEPT ![a].pc = p]
                     /\ \/ /\ tasks[a].pc \in {"edges", "parents", "drift", "remark"}
                           /\ p \in {"parents", "drift", "remark", "finish"}
                        \/ tasks[a].pc = "unlink" /\ p = "drop"
        BY <2>3 DEF ReplaceEdges, CheckDrift, RemoveResource, ScheduleParents, Remark, AfterParents, At
      <3>. QED  BY <3>1, <1>1, <1>4, PlaceMoves
    <2>. QED  BY <2>1, <2>2, <2>3
  <1>6. CASE ScheduleParents(a) \/ Remark(a)
    <2>1. PICK S \in SUBSET Resources : ScheduleBuild(S)
      BY <1>4, <1>6 DEF ScheduleParents, Remark
    <2>2. rows' = MarkAll(S)
      BY <2>1 DEF ScheduleBuild
    <2>3. \A r \in Resources : RowGoes(r)
      BY <2>2, <1>1, MarkAllMarks
    <2>4. seq' >= seq /\ seq' \in Nat
      BY <1>1, <1>6, ScheduleStep DEF StepTyped
    <2>5. seq <= seq'
      BY <2>4, <1>1
    <2>6. Grows
      BY <2>5, <1>1, <1>2, GrowsQuietly
    <2>. QED  BY <2>3, <2>6, <1>2, <1>5, PlainGoal
  <1>7. CASE FetchRoot(a) \/ FetchRelated(a) \/ ReplaceEdges(a) \/ CheckDrift(a) \/ RemoveResource(a)
    <2>1. UNCHANGED <<seq, rows>>
      BY <1>7 DEF FetchRoot, FetchRelated, ReplaceEdges, CheckDrift, RemoveResource
    <2>2. Grows /\ \A r \in Resources : RowGoes(r)
      BY <2>1, <1>1, <1>2, GrowsQuietly DEF RowGoes, RowSame
    <2>. QED  BY <2>2, <1>2, <1>5, PlainGoal
  <1>. QED  BY <1>6, <1>7

\* A task writes documents.
LEMMA WriteGoal ==
    ASSUME ServeInv, TypeOK', Fixed, Grows, NEW a \in Actors, NEW r \in Resources, NEW W, Writes(a, r, W),
           GoesOn(a, W), \A b \in Actors \ {a} : tasks'[b] = tasks[b],
           \A x \in Resources \ {r} : docs'[x] = docs[x], \A x \in Resources : RowSame(x)
    PROVE  ServeGoal
  <1>1. TypeOK /\ Heard /\ Dated /\ \A x \in Resources : Serves(x)
    BY DEF ServeInv, OwnInv
  <1>2. Heard'
    BY <1>1, HeardKept DEF RowGoes
  <1>3. Dated'
    <2>1. ASSUME NEW x \in Resources, NEW v \in Versions
          PROVE  docs'[x][v].ver \in {0, docs[x][v].ver} \/ (tasks[a] # Idle /\ docs'[x][v].ver = tasks[a].idx)
      <3>1. CASE x = r
        <4>1. docs'[r][v] = docs[r][v] \/ docs'[r][v].ver = tasks[a].idx
          BY <1>1, WrittenFacts
        <4>. QED  BY <4>1, <3>1 DEF Writes, Works
      <3>. QED  BY <3>1
    <2>2. \A b \in Actors : GoesOn(b, W)
      BY SameGoesOn
    <2>. QED  BY <2>1, <2>2, <1>1, DatedKept
  <1>4. Serves(r)'
    BY <1>1, ServesWritten
  <1>5. ASSUME NEW x \in Resources \ {r}  PROVE Serves(x)'
    <2>1. GoesOn(a, {}) \/ Elsewhere(a, x)
      BY DEF GoesOn, Elsewhere, Continues, Writes, Works
    <2>2. \A b \in Actors : GoesOn(b, {}) \/ Elsewhere(b, x)
      BY <2>1, SameGoesOn
    <2>. QED  BY <2>2, <1>1, ServesKept
  <1>. QED  BY <1>2, <1>3, <1>4, <1>5 DEF ServeGoal

\* The bulk write, whole or in part: the failed one ends the task.
LEMMA BulkServes ==
    ASSUME ServeInv, TypeOK', Fixed, NEW a \in Actors, BulkUpsert(a) \/ FailBulk(a)
    PROVE  ServeGoal
  <1>. DEFINE t == tasks[a]
              r == t.entry.r
  <1>1. TypeOK /\ seq \in Nat
    BY DEF ServeInv, OwnInv, TypeOK
  <1>2. t.pc = "write" /\ UNCHANGED <<seq, src, msgs, regs>>
    BY DEF BulkUpsert, FailBulk, At
  <1>3. Grows
    BY <1>1, <1>2, GrowsQuietly
  <1>4. t \in Task /\ t # Idle /\ r \in Resources
    BY <1>1, <1>2, TaskFacts DEF Id
  <1>5. ASSUME NEW S, docs' = WrittenDocs(r, S, t)
        PROVE  Writes(a, r, S) /\ \A x \in Resources \ {r} : docs'[x] = docs[x]
    <2>1. docs \in [Resources -> [Versions -> Doc]]
      BY <1>1 DEF TypeOK
    <2>2. /\ \A v \in Versions : docs'[r][v] = IF v \in S THEN Written(docs[r][v], t.out[v], t.idx) ELSE docs[r][v]
          /\ \A x \in Resources \ {r} : docs'[x] = docs[x]
      BY <1>4, <1>5, <2>1 DEF WrittenDocs
    <2>. QED  BY <2>2, <1>4 DEF Writes, Works
  <1>6. CASE BulkUpsert(a)
    <2>. DEFINE W == FoundIn(t.out)
                nils == Versions \ W
    <2>1. PICK p : /\ p = (IF nils = {} THEN "edges" ELSE "nils")
                   /\ tasks' = [tasks EXCEPT ![a] = [t EXCEPT !.pc = p, !.left = nils]]
      BY <1>6 DEF BulkUpsert
    <2>2. docs' = WrittenDocs(r, W, t) /\ rows' = rows
      BY <1>6 DEF BulkUpsert, Id
    <2>. DEFINE u == [t EXCEPT !.pc = p, !.left = nils]
    <2>3. /\ u.pc = p /\ u.entry = t.entry /\ u.idx = t.idx /\ u.mark = t.mark /\ u.out = t.out /\ u.left = nils
      BY <1>4 DEF Task
    <2>4. tasks'[a] = u /\ \A b \in Actors \ {a} : tasks'[b] = tasks[b]
      BY <2>1, <1>1 DEF TypeOK
    <2>. HIDE DEF u
    <2>5. DoneBy(u) \subseteq W
      BY <2>1, <2>3 DEF DoneBy
    <2>. HIDE DEF W
    <2>6. \A v, m : Older(u, v, m) => Older(t, v, m)
      BY <2>1, <2>3 DEF Older
    <2>7. \A n : Continues(t, u, n, W)
      BY <1>2, <2>1, <2>3, <2>5, <2>6 DEF Continues, Building
    <2>8. GoesOn(a, W)
      BY <1>4, <2>4, <2>7 DEF GoesOn
    <2>9. \A x \in Resources : RowSame(x)
      BY <2>2 DEF RowSame
    <2>. QED  BY <1>3, <1>4, <1>5, <2>2, <2>4, <2>8, <2>9, WriteGoal
  <1>7. CASE FailBulk(a)
    <2>1. PICK S : docs' = WrittenDocs(r, S, t)
      BY <1>7 DEF FailBulk, Id
    <2>2. /\ tasks' = [tasks EXCEPT ![a] = Idle]
          /\ \/ rows' = [rows EXCEPT ![r] = ReleaseFailed(rows[r], Token(a))]
             \/ rows' = [rows EXCEPT ![r] = Release(rows[r], Token(a))]
      BY <1>7 DEF FailBulk, Released, Ended, Id
    <2>3. rows[r] \in Row
      BY <1>1, <1>4 DEF TypeOK
    <2>4. \A x \in Resources : RowSame(x)
      <3>1. RowKept(rows[r], ReleaseFailed(rows[r], Token(a))) /\ RowKept(rows[r], Release(rows[r], Token(a)))
        BY <2>3, OwnerStatements
      <3>. QED  BY <1>1, <1>4, <2>2, <3>1, OneRowKept
    <2>5. tasks'[a] = Idle /\ \A b \in Actors \ {a} : tasks'[b] = tasks[b]
      BY <2>2, <1>1 DEF TypeOK
    <2>6. GoesOn(a, S)
      BY <2>5 DEF GoesOn
    <2>. QED  BY <1>3, <1>4, <1>5, <2>1, <2>4, <2>5, <2>6, WriteGoal
  <1>. QED  BY <1>6, <1>7

\* The deletes of documents, one Schema Version after the other.
LEMMA DeleteServes ==
    ASSUME ServeInv, TypeOK', Fixed, NEW a \in Actors, DeleteNil(a) \/ DeleteEach(a)
    PROVE  ServeGoal
  <1>. DEFINE t == tasks[a]
              r == t.entry.r
              w == LeastOf(t.left)
              left == t.left \ {w}
  <1>1. TypeOK /\ seq \in Nat
    BY DEF ServeInv, OwnInv, TypeOK
  <1>2. PICK after : /\ (t.pc = "nils" /\ after = "edges") \/ (t.pc = "esdelete" /\ after = "unlink")
                     /\ DeleteDoc(a, after)
    BY DEF DeleteNil, DeleteEach, At
  <1>3. UNCHANGED <<seq, rows, src, msgs, regs>>
    BY <1>2 DEF DeleteDoc
  <1>4. Grows
    BY <1>1, <1>3, GrowsQuietly
  <1>5. t \in Task /\ t # Idle /\ r \in Resources /\ t.out \in [Versions -> Body]
    BY <1>1, <1>2, TaskFacts DEF Id
  <1>6. PICK p : /\ p = (IF left = {} THEN after ELSE t.pc)
                 /\ tasks' = [tasks EXCEPT ![a] = [t EXCEPT !.pc = p, !.left = left]]
    BY <1>2 DEF DeleteDoc
  <1>7. Writes(a, r, {w}) /\ \A x \in Resources \ {r} : docs'[x] = docs[x]
    <2>. DEFINE d == [t EXCEPT !.out[w] = NoBody]
    <2>1. d.idx = t.idx /\ \A v \in Versions : v = w => d.out[v] = NoBody
      BY <1>5 DEF Task
    <2>2. docs' = WrittenDocs(r, {w}, d)
      BY <1>2 DEF DeleteDoc, Id
    <2>3. docs \in [Resources -> [Versions -> Doc]]
      BY <1>1 DEF TypeOK
    <2>. HIDE DEF d, w
    <2>4. /\ \A v \in Versions : docs'[r][v] = IF v \in {w} THEN Written(docs[r][v], d.out[v], d.idx) ELSE docs[r][v]
          /\ \A x \in Resources \ {r} : docs'[x] = docs[x]
      BY <1>5, <2>2, <2>3 DEF WrittenDocs
    <2>5. \A v \in Versions : v \in {w} => docs'[r][v] = Written(docs[r][v], NoBody, t.idx)
      BY <2>1, <2>4
    <2>. QED  BY <2>4, <2>5, <1>5 DEF Writes, Works
  <1>. DEFINE u == [t EXCEPT !.pc = p, !.left = left]
  <1>8. u.pc = p /\ u.entry = t.entry /\ u.idx = t.idx /\ u.mark = t.mark /\ u.out = t.out /\ u.left = left
    BY <1>5 DEF Task
  <1>9. tasks'[a] = u /\ \A b \in Actors \ {a} : tasks'[b] = tasks[b]
    BY <1>6, <1>1 DEF TypeOK
  <1>. HIDE DEF u, w
  <1>10. DoneBy(u) \subseteq DoneBy(t) \cup {w}
    BY <1>2, <1>6, <1>8 DEF DoneBy
  <1>11. \A v, m : Older(u, v, m) => Older(t, v, m)
    BY <1>2, <1>6, <1>8 DEF Older
  <1>12. \A n : Continues(t, u, n, {w})
    BY <1>2, <1>6, <1>8, <1>10, <1>11 DEF Continues, Building
  <1>13. GoesOn(a, {w})
    BY <1>5, <1>9, <1>12 DEF GoesOn
  <1>14. \A x \in Resources : RowSame(x)
    BY <1>3 DEF RowSame
  <1>. QED  BY <1>4, <1>5, <1>7, <1>9, <1>13, <1>14, WriteGoal

\* A build begins.
LEMMA BeginServes ==
    ASSUME ServeInv, TypeOK', Fixed, NEW a \in Actors, BeginBuild(a)
    PROVE  ServeGoal
  <1>. DEFINE t == tasks[a]
  <1>1. TypeOK /\ Numbered /\ Heard /\ Dated /\ seq \in Nat /\ (\A x \in Resources : Serves(x))
    BY DEF ServeInv, OwnInv, TypeOK
  <1>2. /\ t.pc = "begin" /\ seq' = seq + 1 /\ UNCHANGED <<docs, src, msgs, regs>>
        /\ rows' = [rows EXCEPT ![Id(a)] = BeginBuildRow(rows[Id(a)], seq + 1, Token(a))]
        /\ tasks' = [tasks EXCEPT ![a] = [t EXCEPT !.pc = "root", !.idx = seq + 1, !.mark = rows[Id(a)].staleSeq]]
    BY DEF BeginBuild, At
  <1>. PICK r \in Resources : r = Id(a)
    BY <1>1, <1>2, TaskFacts
  <1>3. t \in Task /\ t # Idle /\ r = t.entry.r /\ rows[r] \in Row
    BY <1>1, <1>2, TaskFacts DEF Id, TypeOK
  <1>4. Grows
    BY <1>1, <1>2, GrowsQuietly
  <1>5. PICK n \in Nat : n = seq + 1
    BY <1>1
  <1>6. PICK s : s = rows[r].staleSeq /\ Spent(s)
    BY <1>1, <1>3 DEF Numbered
  <1>. DEFINE u == [t EXCEPT !.pc = "root", !.idx = n, !.mark = s]
  <1>7. tasks'[a] = u /\ \A b \in Actors \ {a} : tasks'[b] = tasks[b]
    BY <1>1, <1>2, <1>5, <1>6 DEF TypeOK
  <1>8. u.pc = "root" /\ u.idx = n /\ u.mark = s /\ u.out = t.out /\ u.entry = t.entry
    BY <1>3 DEF Task
  <1>. HIDE DEF u
  <1>9. \A v \in Versions : ~u.out[v].found
    BY <1>1, <1>2, <1>3, <1>8 DEF Dated, DatedTask
  <1>10. \A x \in Resources : RowSame(x)
    <2>1. RowKept(rows[r], BeginBuildRow(rows[r], seq + 1, Token(a)))
      BY <1>3, OwnerStatements
    <2>. QED  BY <1>1, <1>2, <1>3, <2>1, OneRowKept
  <1>11. Heard'
    BY <1>1, <1>4, <1>10, HeardKept DEF RowGoes
  <1>12. Dated'
    <2>1. Spent(s)'
      <3>1. seq' \in Nat
        BY <1>1, <1>2
      <3>. QED  BY <1>1, <1>4, <1>6, <3>1, SpentKept
    <2>2. Spent(tasks[a].mark)'
      BY <2>1, <1>7, <1>8 DEF Spent
    <2>3. tasks'[a].idx <= seq' /\ tasks'[a].idx # 0
      BY <1>1, <1>2, <1>5, <1>7, <1>8
    <2>4. DatedTask(tasks[a])'
      BY <2>2, <2>3, <1>7, <1>8, <1>9 DEF DatedTask, Fixed
    <2>5. \A b \in Actors : GoesOn(b, {}) \/ (tasks'[b] # Idle => DatedTask(tasks[b])')
      BY <2>4, <1>7, SameGoesOn
    <2>6. \A x \in Resources, v \in Versions : docs'[x][v].ver \in {0, docs[x][v].ver}
      BY <1>2
    <2>. QED  BY <2>5, <2>6, <1>1, <1>4, DatedKept
  <1>13. Serves(r)'
    BY <1>1, <1>2, <1>3, <1>5, <1>7, <1>8, <1>9, <1>10, ServesBegun
  <1>14. ASSUME NEW x \in Resources \ {r}  PROVE Serves(x)'
    <2>1. \A b \in Actors : GoesOn(b, {}) \/ Elsewhere(b, x)
      BY <1>3, <1>7, <1>8, SameGoesOn DEF Elsewhere
    <2>. QED  BY <2>1, <1>1, <1>2, <1>10, ServesKept
  <1>. QED  BY <1>11, <1>12, <1>13, <1>14 DEF ServeGoal

\* The rows after one of them was written.
LEMMA OneRowGoes ==
    ASSUME TypeOK, NEW x \in Resources, NEW new, RowKept(rows[x], new) \/ new.version = 0,
           rows' = [rows EXCEPT ![x] = new]
    PROVE  \A r \in Resources : RowGoes(r)
  <1>1. rows'[x] = new /\ \A r \in Resources \ {x} : rows'[r] = rows[r]
    BY DEF TypeOK
  <1>. QED  BY <1>1 DEF RowGoes, RowSame, RowKept

\* A delete begins, or finds its row recreated or gone.
LEMMA BeginDeleteServes ==
    ASSUME ServeInv, TypeOK', Fixed, NEW a \in Actors, BeginDelete(a)
    PROVE  ServeGoal
  <1>. DEFINE t == tasks[a]
  <1>1. TypeOK /\ Dated /\ seq \in Nat
    BY DEF ServeInv, OwnInv, TypeOK
  <1>2. t.pc = "begindelete" /\ UNCHANGED <<docs, src, msgs, regs>>
    BY DEF BeginDelete, At
  <1>3. t \in Task /\ t # Idle /\ Id(a) \in Resources /\ rows[Id(a)] \in Row
    BY <1>1, <1>2, TaskFacts DEF TypeOK
  <1>4. CASE /\ seq' = seq + 1
             /\ rows' = [rows EXCEPT ![Id(a)] = BeginDeleteRow(rows[Id(a)], seq + 1, Token(a))]
             /\ tasks' = [tasks EXCEPT ![a] = [t EXCEPT !.pc = "esdelete", !.idx = seq + 1]]
    <2>1. Grows
      BY <1>1, <1>2, <1>4, GrowsQuietly
    <2>2. RowKept(rows[Id(a)], BeginDeleteRow(rows[Id(a)], seq + 1, Token(a)))
      BY <1>3, OwnerStatements
    <2>3. \A r \in Resources : RowGoes(r)
      BY <1>1, <1>3, <1>4, <2>2, OneRowGoes
    <2>4. PICK n \in Nat : n = seq + 1
      BY <1>1
    <2>. DEFINE u == [t EXCEPT !.pc = "esdelete", !.idx = n]
    <2>5. tasks'[a] = u /\ \A b \in Actors \ {a} : tasks'[b] = tasks[b]
      BY <1>1, <1>4, <2>4 DEF TypeOK
    <2>6. u.pc = "esdelete" /\ u.idx = n /\ u.out = t.out
      BY <1>3 DEF Task
    <2>. HIDE DEF u
    <2>7. \A v \in Versions : ~u.out[v].found
      BY <1>1, <1>2, <1>3, <2>6 DEF Dated, DatedTask
    <2>8. u.idx <= seq'
      BY <1>1, <1>4, <2>4, <2>6
    <2>9. Inert(tasks'[a])
      BY <2>5, <2>6, <2>7, <2>8 DEF Inert, Building
    <2>10. \A b \in Actors : GoesOn(b, {})
      BY <2>5, <2>9, SameGoesOn DEF GoesOn
    <2>. QED  BY <1>2, <2>1, <2>3, <2>10, PlainGoal
  <1>5. CASE UNCHANGED <<seq, rows>> /\ tasks' = [tasks EXCEPT ![a].pc = "drop"]
    <2>1. Grows
      BY <1>1, <1>2, <1>5, GrowsQuietly
    <2>2. \A r \in Resources : RowGoes(r)
      BY <1>5 DEF RowGoes, RowSame
    <2>3. \A b \in Actors : GoesOn(b, {})
      BY <1>1, <1>2, <1>3, <1>5, PlaceMoves
    <2>. QED  BY <1>2, <2>1, <2>2, <2>3, PlainGoal
  <1>. QED  BY <1>4, <1>5 DEF BeginDelete

\* A task ends without a finish, removes its row, or renews its lease.
LEMMA EndServes ==
    ASSUME ServeInv, TypeOK', Fixed, NEW a \in Actors, DropRow(a) \/ FailTask(a) \/ CrashTask(a) \/ RenewTick(a)
    PROVE  ServeGoal
  <1>1. TypeOK /\ seq \in Nat
    BY DEF ServeInv, OwnInv, TypeOK
  <1>2. UNCHANGED <<seq, docs, src, msgs, regs>> /\ (tasks' = tasks \/ tasks' = [tasks EXCEPT ![a] = Idle])
    BY DEF DropRow, FailTask, CrashTask, RenewTick, Released, Ended
  <1>3. tasks[a] # Idle \/ tasks[a].pc # "idle"
    BY DEF DropRow, FailTask, CrashTask, RenewTick, At
  <1>4. Id(a) \in Resources /\ rows[Id(a)] \in Row
    BY <1>1, <1>3, TaskFacts DEF TypeOK
  <1>5. Grows
    BY <1>1, <1>2, GrowsQuietly
  <1>6. \A b \in Actors : GoesOn(b, {})
    <2>1. \A b \in Actors : tasks'[b] = Idle \/ tasks'[b] = tasks[b]
      BY <1>1, <1>2 DEF TypeOK
    <2>. QED  BY <2>1, SameGoesOn DEF GoesOn
  <1>7. \A r \in Resources : RowGoes(r)
    <2>. DEFINE row == rows[Id(a)]
    <2>1. CASE rows' = rows
      BY <2>1 DEF RowGoes, RowSame
    <2>2. CASE ~(rows' = rows)
      <3>1. PICK new : /\ rows' = [rows EXCEPT ![Id(a)] = new]
                       /\ \/ new = DeleteRowIfSeq(row, tasks[a].mark, Token(a))
                          \/ new \in {ReleaseFailed(row, Token(a)), Release(row, Token(a)), Renew(row, Token(a))}
        BY <2>2 DEF DropRow, FailTask, CrashTask, RenewTick, Released
      <3>2. RowKept(row, new) \/ new.version = 0
        BY <3>1, <1>4, OwnerStatements, DropStatement
      <3>. QED  BY <3>1, <3>2, <1>1, <1>4, OneRowGoes
    <2>. QED  BY <2>1, <2>2
  <1>. QED  BY <1>2, <1>5, <1>6, <1>7, PlainGoal

\* A build finishes: the mark it captured is cleared, or another stays.
LEMMA FinishServes ==
    ASSUME ServeInv, TypeOK', Fixed, NEW a \in Actors, Finish(a)
    PROVE  ServeGoal
  <1>1. TypeOK /\ Heard /\ Dated /\ seq \in Nat /\ (\A x \in Resources : Serves(x))
    BY DEF ServeInv, OwnInv, TypeOK
  <1>2. /\ tasks[a].pc = "finish" /\ UNCHANGED <<seq, docs, src, msgs, regs>> /\ tasks' = [tasks EXCEPT ![a] = Idle]
        /\ rows' = [rows EXCEPT ![Id(a)] = FinishOwned(rows[Id(a)], tasks[a].mark, Token(a))]
    BY DEF Finish, Ended, At
  <1>. PICK r \in Resources : r = Id(a)
    BY <1>1, <1>2, TaskFacts
  <1>3. tasks[a] # Idle /\ rows[r] \in Row /\ Works(a, r)
    BY <1>1, <1>2, TaskFacts DEF TypeOK, Works, Id
  <1>4. Grows
    BY <1>1, <1>2, GrowsQuietly
  <1>5. \A b \in Actors : GoesOn(b, {})
    <2>1. \A b \in Actors : tasks'[b] = Idle \/ tasks'[b] = tasks[b]
      BY <1>1, <1>2 DEF TypeOK
    <2>. QED  BY <2>1, SameGoesOn DEF GoesOn
  <1>. PICK new : new = FinishOwned(rows[r], tasks[a].mark, Token(a))
    OBVIOUS
  <1>6. rows'[r] = new /\ (\A x \in Resources \ {r} : rows'[x] = rows[x]) /\ rows' = [rows EXCEPT ![r] = new]
    BY <1>1, <1>2 DEF TypeOK
  <1>7. CASE RowKept(rows[r], new)
    <2>1. \A x \in Resources : RowGoes(x)
      BY <1>1, <1>6, <1>7, OneRowGoes
    <2>. QED  BY <2>1, <1>2, <1>4, <1>5, PlainGoal
  <1>8. CASE /\ rows[r].present /\ rows[r].staleSeq = tasks[a].mark
             /\ new.present /\ new.version = rows[r].version /\ new.staleSeq = rows[r].staleSeq
    <2>1. Serves(r)'
      <3>1. Serving(a, r)
        BY <1>2, <1>3, <1>8 DEF Serving, Building
      <3>. QED  BY <3>1, <1>1, <1>2, <1>6, <1>8, ServesFinished
    <2>2. ASSUME NEW x \in Resources \ {r}  PROVE Serves(x)'
      <3>1. RowSame(x)
        BY <1>6 DEF RowSame
      <3>. QED  BY <3>1, <1>1, <1>2, <1>5, ServesKept
    <2>3. Heard'
      <3>1. \A x \in Resources : RowGoes(x) \/ (rows'[x].present /\ rows'[x].version = rows[x].version)
        BY <1>6, <1>8 DEF RowGoes, RowSame
      <3>. QED  BY <3>1, <1>1, <1>4, HeardKept
    <2>4. Dated'
      <3>1. \A x \in Resources, v \in Versions : docs'[x][v].ver \in {0, docs[x][v].ver}
        BY <1>2
      <3>. QED  BY <3>1, <1>1, <1>4, <1>5, DatedKept
    <2>. QED  BY <2>1, <2>2, <2>3, <2>4 DEF ServeGoal
  <1>. QED  BY <1>3, <1>7, <1>8, FinishStatement

-----------------------------------------------------------------------------
(* The theorems *)

\* Every step keeps the invariant.
LEMMA ServeStep ==
    ASSUME ServeInv, OwnInv', [Next]_vars
    PROVE  ServeInv'
  <1>. SUFFICES ServeGoal
    BY DEF ServeGoal, ServeInv
  <1>1. TypeOK /\ TypeOK' /\ seq \in Nat
    BY DEF ServeInv, OwnInv, TypeOK
  <1>2. CASE UNCHANGED vars
    <2>1. Fixed
      BY <1>2 DEF Fixed, vars, Versions, Actors, Workers
    <2>2. Grows
      BY <1>1, <1>2, GrowsQuietly DEF vars
    <2>. QED  BY <1>1, <1>2, <2>1, <2>2, StillGoal DEF vars
  <1>3. CASE Next /\ ~UNCHANGED vars
    <2>1. Fixed
      <3>1. used'.setup = used.setup /\ used'.workers = used.workers
        BY <1>1, <1>3, SetupStays
      <3>. QED  BY <3>1, SetsStay DEF Fixed
    <2>2. CASE (\E r \in Resources : Change(r)) \/ RegBegin \/ \E g \in regs : Register(g)
      BY <1>1, <2>1, <2>2, CallServes
    <2>3. CASE \/ SweepList
               \/ \E e \in entries : Shed(e) \/ LoseEntry(e) \/ \E a \in Actors : Take(a, e) \/ TakeFails(a, e)
      BY <1>1, <2>1, <2>3, QueueServes
    <2>4. CASE \E r \in Resources : RowEvent(r)
      BY <1>1, <2>1, <2>4, TimeServes
    <2>5. ASSUME NEW a \in Actors, TaskStep(a) \/ TaskEvent(a)  PROVE ServeGoal
      <3>1. CASE \/ FetchRoot(a) \/ FetchRelated(a) \/ ReplaceEdges(a) \/ CheckDrift(a) \/ RemoveResource(a)
                 \/ ScheduleParents(a) \/ Remark(a)
        BY <1>1, <2>1, <3>1, TaskServes
      <3>2. CASE BulkUpsert(a) \/ FailBulk(a)
        BY <1>1, <2>1, <3>2, BulkServes
      <3>3. CASE DeleteNil(a) \/ DeleteEach(a)
        BY <1>1, <2>1, <3>3, DeleteServes
      <3>4. CASE BeginBuild(a)
        BY <1>1, <2>1, <3>4, BeginServes
      <3>5. CASE BeginDelete(a)
        BY <1>1, <2>1, <3>5, BeginDeleteServes
      <3>6. CASE Finish(a)
        BY <1>1, <2>1, <3>6, FinishServes
      <3>7. CASE DropRow(a) \/ FailTask(a) \/ CrashTask(a) \/ RenewTick(a)
        BY <1>1, <2>1, <3>7, EndServes
      <3>. QED
        BY <2>5, <3>1, <3>2, <3>3, <3>4, <3>5, <3>6, <3>7 DEF TaskStep, BuildStep, DeleteStep, TaskEvent
    <2>. QED  BY <1>3, <2>2, <2>3, <2>4, <2>5 DEF Next, Rest
  <1>. QED  BY <1>2, <1>3

\* A document a settled resource starts with.
FirstDoc(b, kids) == [ver |-> b, body |-> [found |-> TRUE, n |-> 1, kids |-> kids]]

\* The invariant holds at first: what is settled was built after its mark.
LEMMA ServeInit ==
    ASSUME Init
    PROVE  ServeInv
  <1>. DEFINE N == Cardinality(Settled)
              built(r) == N + Nth(Settled, r)
  <1>1. OwnInv /\ TypeOK
    BY OwnInit DEF OwnInv
  <1>2. /\ msgs = {} /\ regs = {} /\ seq = 2 * N /\ \A a \in Actors : tasks[a] = Idle
    BY DEF Init
  <1>3. N \in Nat /\ \A r \in Settled : Nth(Settled, r) \in Nat /\ Nth(Settled, r) <= N
    <2>1. used.setup \in {Setups[i] : i \in DOMAIN Setups}
      BY DEF Init
    <2>2. Settled \subseteq Resources
      BY <2>1, SetupFacts
    <2>. QED  BY <2>2, CardFacts, NumberFacts
  <1>4. ASSUME NEW r \in Resources, r \in Settled
        PROVE  /\ rows[r].present /\ rows[r].version \in {0, 1} /\ src[r].n = 1
               /\ \A v \in Versions : docs[r][v].ver <= seq /\ docs[r][v].body.n = 1
    <2>1. PICK ver \in {0, 1} : rows[r] = SettledRow(ver, built(r), Nth(Settled, r))
      BY <1>4 DEF Init, SettledRow
    <2>2. rows[r].present /\ rows[r].version = ver
      BY <2>1 DEF SettledRow, BlankRow
    <2>3. src[r].n = 1
      BY <1>4 DEF Init
    <2>4. ASSUME NEW v \in Versions  PROVE docs[r][v] = FirstDoc(built(r), InitRefs[r] \X {1})
      BY <1>4, <2>4 DEF Init, FirstDoc
    <2>. HIDE DEF N
    <2>5. built(r) <= seq
      BY <1>2, <1>3, <1>4
    <2>. HIDE DEF built
    <2>. QED  BY <2>2, <2>3, <2>4, <2>5 DEF FirstDoc
  <1>5. ASSUME NEW r \in Resources, r \notin Settled
        PROVE  /\ rows[r] = BlankRow /\ src[r] = NoSource
               /\ \A v \in Versions : docs[r][v] = [ver |-> 0, body |-> NoBody]
    BY <1>5 DEF Init
  <1>6. Heard
    <2>1. \A r \in Resources : rows[r].version <= src[r].n /\ (~rows[r].present => rows[r].version = 0)
      BY <1>4, <1>5 DEF BlankRow, NoSource
    <2>. QED  BY <2>1, <1>2 DEF Heard
  <1>7. Dated
    <2>1. \A r \in Resources, v \in Versions : docs[r][v].ver <= seq
      BY <1>1, <1>4, <1>5 DEF TypeOK
    <2>. QED  BY <2>1, <1>2 DEF Dated
  <1>8. ASSUME NEW r \in Resources  PROVE Serves(r)
    <2>1. \A a \in Actors, v \in Versions : ~Serving(a, r) /\ ~Carries(a, r, v)
      BY <1>2 DEF Serving, Carries, Works
    <2>2. \A v \in Versions : ~OldBody(docs[r][v].body, rows[r].version)
      BY <1>4, <1>5 DEF OldBody, NoBody
    <2>. QED  BY <2>1, <2>2 DEF Serves, Clear
  <1>. QED  BY <1>1, <1>6, <1>7, <1>8 DEF ServeInv

\* The inductive invariant: nothing is registered that the source has not
\* said, data comes with a Build Sequence drawn before it was fetched, and
\* the builds that captured a row's mark, or the finish that cleared it, leave
\* no older document and no older write that could still win.
THEOREM ServeInvariant == Spec => []ServeInv
  <1>1. Init => ServeInv
    BY ServeInit
  <1>2. ServeInv /\ OwnInv' /\ [Next]_vars => ServeInv'
    BY ServeStep
  <1>. QED  BY <1>1, <1>2, OwnInvariant, PTL DEF Spec

\* A row without a mark never shows a document older than the version it has
\* registered, however builds, deletes, lapsed leases, failures, follow-ups and
\* late writes of the same resource interleave.
THEOREM CleanRowsAreServed == Spec => []CleanRowIsServed
  <1>1. ServeInv => CleanRowIsServed
    <2>. SUFFICES ASSUME ServeInv, NEW r \in Resources, NEW v \in Versions, ~rows[r].stale, docs[r][v].body.found
                  PROVE  docs[r][v].body.n >= rows[r].version
      BY DEF CleanRowIsServed
    <2>1. TypeOK /\ Clear(r, v)
      BY DEF ServeInv, OwnInv, Serves
    <2>2. docs[r][v].body.n \in Nat /\ rows[r].version \in Nat
      BY <2>1 DEF TypeOK, Doc, Body, Row
    <2>. QED  BY <2>1, <2>2 DEF Clear, OldBody
  <1>. QED  BY <1>1, ServeInvariant, PTL

=============================================================================
