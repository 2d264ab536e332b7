-------------------------- MODULE RebuildRootProofs --------------------------
(***************************************************************************)
(* Proofs about RebuildWalk, on top of RebuildProofs: what becomes of one  *)
(* root.  The cursor of a walk that can be resumed leaves no root behind,  *)
(* whatever crashed, aborted or failed before it was recorded; and a root  *)
(* with a document keeps its row, by which a sweep can find it.            *)
(***************************************************************************)
EXTENDS RebuildProofs

-----------------------------------------------------------------------------
(* What the cursor has passed *)

\* fail takes no mark off.
LEMMA FailRows ==
    ASSUME TypeOK, NEW S \in SUBSET Roots, NEW base, NEW next, NEW cost, Fail(S, base, next, cost),
           NEW r \in Roots, rows[r].stale
    PROVE  rows'[r].stale
  <1>1. PICK lost \in SUBSET S : rows' = MarkedRows(S \ lost)
    BY DEF Fail
  <1>2. S \ lost \in SUBSET Roots
    OBVIOUS
  <1>. QED  BY <1>1, <1>2, MarkFacts

\* A root's mark goes only with the end of its live build or of its rebuild.
LEMMA RowStep ==
    ASSUME TypeOK, TypeNext, WalkInv, CursorInv, OnePlan(used.setup), Next, NEW r \in Roots, rows[r].stale
    PROVE  rows'[r].stale \/ LiveEnd(r) \/ Complete(r) \/ RemoveRow(r)
  <1>0. rows \in [Roots -> Row] /\ entry \in [Roots -> Entry] /\ seq \in Nat
    BY TypeFacts DEF TypeNow
  <1>1. CASE rows' = rows
    BY <1>1
  <1>2. CASE StartAttempt \/ Execute \/ FlushBeforePlan \/ FetchPage \/ TakePage \/ PageConsumed \/ EndPlan
    BY <1>1, <1>2 DEF StartAttempt, Execute, FlushBeforePlan, FetchPage, TakePage, PageConsumed, EndPlan, store
  <1>3. CASE BeginBatch \/ BatchFails \/ AskPlans \/ BatchDone \/ EndBatches
    BY <1>3, CursorBatch DEF OnePlan
  <1>4. CASE Finish
    <2>. DEFINE S == {q \in Roots : Unsettled(q)}
    <2>1. rows' = rows \/ \E lost \in SUBSET S : rows' = MarkedRows(S \ lost)
      BY <1>4 DEF Finish
    <2>2. ASSUME NEW lost \in SUBSET S, rows' = MarkedRows(S \ lost)
          PROVE  rows'[r].stale
      <3>1. S \ lost \in SUBSET Roots
        OBVIOUS
      <3>. QED  BY <2>2, <3>1, MarkFacts
    <2>. QED  BY <2>1, <2>2
  <1>5. ASSUME NEW q \in Roots, ItemStep(q) \/ BeginItemFails(q)
        PROVE  rows'[r].stale
    <2>1. {q} \in SUBSET Roots
      OBVIOUS
    <2>2. CASE BeginItem(q)
      <3>1. rows' = [rows EXCEPT ![q].present = TRUE]
        BY <2>2 DEF BeginItem
      <3>2. rows'[r].stale = rows[r].stale
        BY <1>0, <3>1 DEF Row
      <3>. QED  BY <3>2
    <2>3. CASE \E base, next, cost : Fail({q}, base, next, cost)
      BY <2>1, <2>3, FailRows
    <2>4. CASE AddDoc(q) \/ SkipItem(q)
      BY <2>4 DEF AddDoc, SkipItem, store
    <2>5. CASE BeginItemFails(q) \/ Contradiction(q)
      BY <2>3, <2>5 DEF BeginItemFails, Contradiction
    <2>6. CASE CountNil(q)
      <3>1. rows' = rows \/ \E base, next, cost : Fail({q}, base, next, cost)
        BY <2>6, Zenon DEF CountNil
      <3>. QED  BY <2>3, <3>1
    <2>. QED  BY <1>5, <2>2, <2>4, <2>5, <2>6 DEF ItemStep
  <1>6. CASE BulkUpsert \/ CheckDrift \/ Narrow \/ CheckDriftFails \/ FlusherReturns
    <2>1. rows' = rows
      BY <1>6, Zenon DEF BulkUpsert, CheckDrift, Narrow, CheckDriftFails, FlusherReturns, store
    <2>. QED  BY <2>1
  <1>7. CASE CountDocs
    <2>1. PICK R \in SUBSET Roots, base \in [Roots -> Entry], T \in SUBSET Roots, y \in Walk : CountsTo(R, base, T, y)
      BY <1>7, CountFacts
    <2>2. Fail(R, base, y, 0)
      BY <2>1 DEF CountsTo
    <2>. QED  BY <2>2, FailRows
  <1>8. ASSUME NEW q \in Roots, SettleStep(q) \/ StoreEdgesFails(q) \/ DropNilsFails(q)
        PROVE  rows'[r].stale \/ Complete(r) \/ RemoveRow(r)
    <2>1. {q} \in SUBSET Roots
      OBVIOUS
    <2>2. CASE \E base, next, cost : Fail({q}, base, next, cost)
      BY <2>1, <2>2, FailRows
    <2>3. CASE rows' = MarkedRows({q})
      BY <2>1, <2>3, MarkFacts
    <2>4. CASE StoreEdges(q) \/ DropNils(q)
      BY <2>4 DEF StoreEdges, DropNils
    <2>5. CASE LeaveGone(q) \/ Remark(q) \/ FailPartial(q) \/ StoreEdgesFails(q) \/ DropNilsFails(q)
      BY <2>2, <2>3, <2>5 DEF LeaveGone, Remark, FailPartial, StoreEdgesFails, DropNilsFails
    <2>6. CASE Complete(q) /\ q # r
      <3>1. PICK row : rows' = [rows EXCEPT ![q] = row] \/ rows' = rows
        BY <2>6 DEF Complete
      <3>. QED  BY <1>0, <2>6, <3>1
    <2>7. CASE RemoveRow(q) /\ q # r
      <3>1. rows' = [rows EXCEPT ![q] = NoRow] \/ rows' = rows \/ Fail({q}, entry, w, 1)
        BY <2>7 DEF RemoveRow
      <3>. QED  BY <1>0, <2>2, <2>7, <3>1
    <2>. QED  BY <1>8, <2>4, <2>5, <2>6, <2>7 DEF SettleStep
  <1>9. CASE Abort \/ Crash \/ BulkFails
    <2>1. rows' = rows \/ \E cost \in Nat : Salvage(cost)
      BY <1>9 DEF Abort, Crash, BulkFails, store
    <2>. QED  BY <2>1, SalvageFacts
  <1>10. CASE \/ Beat \/ Rest \/ \E q \in Roots : ChangeRoot(q) \/ LiveBegin(q)
              \/ \E c \in Kids : ChangeKid(c)
    BY <1>1, <1>10 DEF Beat, Rest, vars, store, ChangeRoot, LiveBegin, ChangeKid
  <1>11. ASSUME NEW q \in Roots, LiveEnd(q), q # r
         PROVE  rows'[r].stale
    <2>. DEFINE gone == \A v \in Versions : ~live[q].out[v].found
                drifted == ~gone /\ \E c \in Kids : changed[c] > live[q].idx
                drops == gone /\ DropsRow(rows[q], live[q].mark)
    <2>1. rows' = [rows EXCEPT ![q] =
             IF drops THEN NoRow ELSE IF drifted THEN MarkAt(seq + 1)
             ELSE IF gone \/ ~@.present THEN @ ELSE ClearedRow(@, live[q].mark)]
      BY <1>11, Zenon DEF LiveEnd
    <2>. HIDE DEF drops, drifted, gone
    <2>2. rows'[r] = rows[r]
      BY <1>0, <1>11, <2>1
    <2>. QED  BY <2>2
  <1>12. ASSUME NEW y \in Things, Register(y)
         PROVE  rows'[r].stale
    <2>1. rows'[r] = rows[r] \/ \E n : rows'[r] = MarkAt(n)
      BY <1>12 DEF Register
    <2>2. \A n : MarkAt(n).stale
      BY DEF MarkAt
    <2>. QED  BY <2>1, <2>2
  <1>. QED  BY <1>2, <1>3, <1>4, <1>5, <1>6, <1>7, <1>8, <1>9, <1>10, <1>11, <1>12
            DEF Next, WalkStep, LoopStep, FlushStep, Failure

\* Documents only get newer.
LEMMA DocLater ==
    ASSUME CoreInv, Next, NEW r \in Roots, NEW v \in Versions
    PROVE  docs[r][v].ver \in Nat /\ docs'[r][v].ver \in Nat /\ docs'[r][v].ver >= docs[r][v].ver
  <1>0. TypeNext /\ TypeOK /\ WalkInv /\ RootInv /\ DrawnInv
    BY CoreTypes DEF CoreInv
  <1>1. DocTo(r, v)
    BY <1>0, DocStep
  <1>2. docs[r][v] \in Doc /\ docs'[r][v] \in Doc
    BY <1>0, TypeFacts DEF TypeNow, TypeNext
  <1>3. docs[r][v].ver \in Nat /\ docs'[r][v].ver \in Nat
    BY <1>2 DEF Doc
  <1>. QED  BY <1>1, <1>3 DEF DocTo

\* A live build that ends leaves no document an older build left.
LEMMA LiveRenews ==
    ASSUME CoreInv, NEW r \in Roots, NEW v \in Versions, LiveEnd(r)
    PROVE  docs'[r][v].ver > 1
  <1>0. TypeNow /\ Versions = used.setup.versions
    BY TypeFacts DEF Versions, CoreInv
  <1>1. docs' = [docs EXCEPT ![r] = [u \in Versions |-> Written(@[u], live[r].out[u], live[r].idx)]]
    BY DEF LiveEnd
  <1>2. docs \in [Roots -> [Versions -> Doc]] /\ live[r].idx \in Nat
    BY <1>0 DEF TypeNow, Live
  <1>3. docs'[r][v] = Written(docs[r][v], live[r].out[v], live[r].idx)
    BY <1>1, <1>2
  <1>4. live[r].idx > 1
    <2>1. NoLive = NoLiveIn(used.setup)
      BY DEF NoLive, NoLiveIn, Versions
    <2>2. live[r] # NoLiveIn(used.setup)
      BY <2>1 DEF LiveEnd
    <2>. QED  BY <2>2 DEF CoreInv, DrawnInv, Drawn
  <1>5. docs[r][v].ver \in Nat
    BY <1>2 DEF Doc
  <1>6. docs'[r][v].ver >= live[r].idx /\ docs'[r][v].ver >= docs[r][v].ver
    BY <1>2, <1>3, <1>5, WrittenFacts
  <1>7. docs'[r][v].ver = docs[r][v].ver \/ docs'[r][v].ver = live[r].idx
    <2>1. docs'[r][v] = docs[r][v] \/ docs'[r][v] = [ver |-> live[r].idx, body |-> live[r].out[v]]
      BY <1>2, <1>3, <1>5, WrittenFacts
    <2>. QED  BY <2>1
  <1>8. docs'[r][v].ver \in Nat
    BY <1>2, <1>5, <1>7
  <1>. QED  BY <1>2, <1>4, <1>6, <1>8

\* A root the flusher settles has its outcome at every selected version.
LEMMA SettleRenews ==
    ASSUME CoreInv, NEW r \in Roots, NEW v \in Selected, Complete(r) \/ RemoveRow(r)
    PROVE  docs[r][v].ver > 1 /\ docs' = docs
  <1>. DEFINE s == used.setup
  <1>0. TypeOK /\ RootOK(s, w, entry[r], docs[r], r) /\ Placed(s, w)
    BY DEF CoreInv, RootInv, WalkInv, WalkOK
  <1>1. docs' = docs /\ Completable(r) /\ (w.how = "remove" \/ ~entry[r].partial)
    BY DEF Complete, RemoveRow
  <1>2. w.pc = "remark" /\ w.todo = {} /\ r \in w.ids /\ Open(entry[r]) /\ entry[r].remaining = 0
    BY <1>1 DEF Completable, Unsettled, Open
  <1>3. ~entry[r].partial
    BY <1>0, <1>1, <1>2 DEF RootOK, Handled
  <1>4. \A u \in entry[r].nils : docs[r][u].ver >= entry[r].occ
    BY <1>0, <1>2, <1>3 DEF RootOK, Handled, Applying
  <1>5. /\ IsSetup(s) /\ entry[r] \in EntryIn(s) /\ docs[r] \in DocsIn(s) /\ v \in s.selected /\ v \in s.versions
        /\ Queue(w, r) \in SUBSET s.selected /\ Coming(s, w, r) \in SUBSET s.selected
    BY <1>0, RootTypes, StateSets
  <1>6. Books(s, entry[r], docs[r], Queue(w, r), Coming(s, w, r), Removing(w, r))
    BY <1>0 DEF RootOK
  <1>7. v \in entry[r].nils \/ docs[r][v].ver >= entry[r].occ
    BY <1>2, <1>3, <1>5, <1>6, NothingOwed
  <1>8. entry[r].occ > 1 /\ entry[r].occ \in Nat /\ docs[r][v].ver \in Nat
    <2>1. entry[r].occ > 1
      BY <1>2 DEF CoreInv, DrawnInv, Drawn
    <2>. QED  BY <1>0, <1>5, <2>1, RootTypes
  <1>. QED  BY <1>1, <1>4, <1>7, <1>8

\* What is safe stays so.
LEMMA SafeStep ==
    ASSUME CoreInv, Next, OnePlan(used.setup), NEW r \in Roots, NEW v \in Selected, SafeNow(r, v)
    PROVE  SafeNow(r, v)'
  <1>0. TypeNext /\ TypeOK /\ WalkInv /\ CursorInv /\ v \in Versions /\ DrawnInv
    BY CoreTypes, StateSets DEF CoreInv
  <1>1. SUFFICES \/ docs'[r][v].ver > 1 \/ v \notin has'[r] \/ rows'[r].stale
                 \/ live'[r].idx # 0 \/ r \in notices'
    BY DEF SafeNow
  <1>2. CASE docs[r][v].ver > 1
    BY <1>0, <1>2, DocLater
  <1>3. CASE v \notin has[r]
    <2>1. ASSUME NEW q \in Roots, ChangeRoot(q)
          PROVE  has'[r] = has[r] \/ r \in notices'
      <3>1. notices' = notices \cup {q} /\ \E vs \in Existences : has' = [has EXCEPT ![q] = vs]
        BY <2>1 DEF ChangeRoot
      <3>. QED  BY <1>0, <3>1 DEF TypeOK
    <2>2. has' = has \/ \E q \in Roots : ChangeRoot(q)
      <3>1. CASE WalkStep \/ Failure
        BY <3>1, SourceKept DEF source
      <3>2. CASE ~(WalkStep \/ Failure)
        BY <3>2 DEF Next, Beat, LiveBegin, LiveEnd, ChangeKid, Register, Rest, vars, source
      <3>. QED  BY <3>1, <3>2
    <2>. QED  BY <1>3, <2>1, <2>2
  <1>4. CASE rows[r].stale
    <2>1. rows'[r].stale \/ LiveEnd(r) \/ Complete(r) \/ RemoveRow(r)
      BY <1>0, <1>4, RowStep
    <2>. QED  BY <1>0, <2>1, LiveRenews, SettleRenews
  <1>5. CASE live[r].idx # 0
    <2>1. LiveTo(r)
      BY <1>0, LiveStep
    <2>2. CASE live'[r] = live[r]
      BY <1>5, <2>2
    <2>3. CASE live'[r].idx = seq + 1
      BY <1>0, <2>3 DEF TypeOK
    <2>4. ASSUME NEW q \in Roots, LiveEnd(q), live'[r] # live[r]
          PROVE  docs'[r][v].ver > 1
      <3>1. live' = [live EXCEPT ![q] = NoLive]
        BY <2>4 DEF LiveEnd
      <3>2. q = r
        BY <1>0, <2>4, <3>1 DEF TypeOK
      <3>. QED  BY <1>0, <2>4, <3>2, LiveRenews
    <2>. QED  BY <2>1, <2>2, <2>3, <2>4 DEF LiveTo
  <1>6. CASE r \in notices
    <2>1. ASSUME NEW y \in Things, Register(y)
          PROVE  r \in notices' \/ rows'[r].stale
      <3>1. notices' = notices \ {y}
        BY <2>1 DEF Register
      <3>2. r = y => rows'[r] = MarkAt(seq + 1)
        BY <2>1 DEF Register
      <3>. QED  BY <1>6, <3>1, <3>2 DEF MarkAt
    <2>2. r \in notices' \/ \E y \in Things : Register(y)
      <3>1. CASE WalkStep \/ Failure
        BY <1>6, <3>1, SourceKept DEF source
      <3>2. CASE ~(WalkStep \/ Failure)
        BY <1>6, <3>2 DEF Next, Beat, LiveBegin, LiveEnd, ChangeRoot, ChangeKid, Register, Rest, vars, source
      <3>. QED  BY <3>1, <3>2
    <2>. QED  BY <2>1, <2>2
  <1>. QED  BY <1>2, <1>3, <1>4, <1>5, <1>6 DEF SafeNow

\* A step that takes a root out of the flusher's hands ends the attempt, loses a
\* mark, or leaves the root marked or its documents renewed.
Releases(r) ==
    \/ w' = IdleWalk /\ entry'[r] = NoEntry
    \/ /\ w.markFailed => w'.markFailed
       /\ \/ w'.markFailed
          \/ /\ entry'[r].failed => entry[r].failed \/ rows'[r].stale
             /\ Open(entry[r]) =>
                   Open(entry'[r]) \/ rows'[r].stale \/ \A v \in Selected : docs'[r][v].ver > 1

\* fail releases what it marks.
LEMMA FailReleases ==
    ASSUME TypeOK, NEW S \in SUBSET Roots, NEW base \in [Roots -> Entry], NEW next \in Walk,
           NEW cost \in Nat, Fail(S, base, next, cost), NEW r \in Roots,
           w.markFailed => next.markFailed, base[r].failed => entry[r].failed, Open(entry[r]) => Open(base[r])
    PROVE  Releases(r)
  <1>1. PICK lost \in SUBSET S, any \in BOOLEAN, mark \in BOOLEAN : FailsTo(S, base, next, lost, any, mark)
    BY FailFacts
  <1>2. PICK y : y = w'
    OBVIOUS
  <1>3. y = Failed(next, S, any, mark) /\ (mark <=> next.markFailed \/ lost # {})
    BY <1>1, <1>2 DEF FailsTo
  <1>4. y.markFailed = mark
    BY <1>3, FailedFacts
  <1>5. w'.markFailed <=> next.markFailed \/ lost # {}
    BY <1>2, <1>3, <1>4
  <1>6. CASE r \in S \ lost
    <2>1. rows' = MarkedRows(S \ lost) /\ S \ lost \in SUBSET Roots
      BY <1>1 DEF FailsTo
    <2>2. rows'[r].stale
      BY <1>6, <2>1, MarkFacts
    <2>. QED  BY <1>5, <2>2 DEF Releases
  <1>7. CASE r \in lost
    BY <1>5, <1>7 DEF Releases
  <1>8. CASE r \notin S
    <2>1. entry'[r] = base[r]
      BY <1>1, <1>8 DEF FailsTo
    <2>. QED  BY <1>5, <2>1 DEF Releases
  <1>. QED  BY <1>6, <1>7, <1>8

\* What the page loop's steps release.
LEMMA LoopReleases ==
    ASSUME CoreInv, TypeNext, NEW r \in Roots,
           \/ StartAttempt \/ Execute \/ FlushBeforePlan \/ FetchPage \/ TakePage \/ PageConsumed \/ EndPlan
           \/ Finish \/ Crash \/ Abort \/ BulkFails
    PROVE  Releases(r)
  <1>0. TypeOK /\ WalkInv /\ Placed(used.setup, w) /\ w \in Walk
    BY DEF CoreInv, WalkInv, WalkOK, TypeOK
  <1>1. ASSUME Forget
        PROVE  Releases(r)
    BY <1>1 DEF Forget, Releases
  <1>2. ASSUME entry' = entry, w.markFailed => w'.markFailed
        PROVE  Releases(r)
    BY <1>2 DEF Releases
  <1>3. CASE Crash \/ Abort \/ BulkFails
    BY <1>1, <1>3 DEF Crash, Abort, BulkFails, Salvage
  <1>4. CASE Finish
    <2>1. CASE w.pending # <<>>
      <3>1. w' = Flushing(w, "finish") /\ w.pc = "finish" /\ entry' = entry
        BY <1>4, <2>1 DEF Finish
      <3>2. SameLoop(w, w')
        BY <1>0, <3>1, FlushLoop
      <3>. QED  BY <1>2, <3>1, <3>2 DEF SameLoop
    <2>2. CASE w.pending = <<>>
      BY <1>1, <1>4, <2>2 DEF Finish
    <2>. QED  BY <2>1, <2>2
  <1>5. CASE StartAttempt
    <2>1. entry' = entry /\ w = IdleWalk
      BY <1>0, <1>5 DEF StartAttempt, Placed
    <2>2. ~w.markFailed
      BY <2>1 DEF IdleWalk
    <2>. QED  BY <1>2, <2>1, <2>2
  <1>6. CASE Execute \/ FetchPage \/ TakePage \/ EndPlan
    <2>1. entry' = entry
      BY <1>6 DEF Execute, FetchPage, TakePage, EndPlan
    <2>2. SameHands(w, w')
      BY <1>0, <1>6, ExecuteWalk, FetchWalk, TakeWalk, EndWalk
    <2>. QED  BY <1>2, <2>1, <2>2 DEF SameHands
  <1>7. CASE FlushBeforePlan
    <2>1. w' = Flushing(w, "plan") /\ w.pc = "plan" /\ entry' = entry
      BY <1>7 DEF FlushBeforePlan
    <2>2. SameLoop(w, w')
      BY <1>0, <2>1, FlushLoop
    <2>. QED  BY <1>2, <2>1, <2>2 DEF SameLoop
  <1>8. CASE PageConsumed
    <2>1. entry' = entry
      BY <1>8 DEF PageConsumed
    <2>2. PICK y \in Walk : (w' = Flushing(y, "walk") \/ w' = y) /\ y.pc = "walk" /\ SameHands(w, y)
      BY <1>0, <1>8, ConsumeWalk
    <2>3. PICK z : z = Flushing(y, "walk")
      OBVIOUS
    <2>4. SameLoop(y, z)
      BY <2>2, <2>3, FlushLoop
    <2>. QED  BY <1>2, <2>1, <2>2, <2>3, <2>4 DEF SameLoop, SameHands
  <1>. QED  BY <1>3, <1>4, <1>5, <1>6, <1>7, <1>8

\* What the items' steps release; the item's own root is open or failed.
LEMMA ItemReleases ==
    ASSUME CoreInv, TypeNext, NEW q \in Roots, NEW r \in Roots, ItemStep(q) \/ BeginItemFails(q)
    PROVE  /\ Releases(r)
           /\ q = r /\ ~SkipItem(q) => Open(entry'[r]) \/ entry'[r].failed
           /\ ~BeginItem(q) => w'.page = Tail(w.page)
           /\ BeginItem(q) => w' = w
           /\ w.pc = "walk" /\ w.page # <<>> /\ Head(w.page).id = q
  <1>. DEFINE s == used.setup
  <1>0. TypeOK /\ WalkInv /\ RootInv
    BY DEF CoreInv
  <1>1. w.pc = "walk" /\ w.page # <<>> /\ Head(w.page).id = q
    BY DEF ItemStep, BeginItem, AddDoc, SkipItem, Contradiction, CountNil, BeginItemFails, AtItem
  <1>2. PICK x \in Walk : x = ItemDone
    BY <1>0, <1>1, ItemWalk
  <1>3. WalkOK(s, x) /\ x.pc = "walk" /\ x.page = Tail(w.page) /\ x.markFailed = w.markFailed
    BY <1>0, <1>1, <1>2, ItemWalk
  <1>4. entry \in [Roots -> Entry] /\ {q} \in SUBSET Roots /\ 0 \in Nat /\ 1 \in Nat
    BY <1>0 DEF TypeOK
  <1>5. w.markFailed => w'.markFailed
    BY <1>0, ItemLoop DEF SameLoop
  <1>6. FailedEntry.failed
    BY DEF FailedEntry, NoEntry
  <1>7. ASSUME NEW base \in [Roots -> Entry], NEW cost \in Nat, Fail({q}, base, x, cost),
               \A p \in Roots : p # q => base[p] = entry[p]
        PROVE  Releases(r) /\ w'.page = Tail(w.page) /\ (q = r => entry'[r].failed)
    <2>1. PICK lost \in SUBSET {q}, any \in BOOLEAN, mark \in BOOLEAN : FailsTo({q}, base, x, lost, any, mark)
      BY <1>0, <1>4, <1>7, FailFacts
    <2>2. PICK y : y = w'
      OBVIOUS
    <2>3. y = Failed(x, {q}, any, mark) /\ (mark <=> x.markFailed \/ lost # {})
      BY <2>1, <2>2 DEF FailsTo
    <2>4. y.page = x.page /\ y.markFailed = mark
      BY <2>3, FailedFacts
    <2>5. q = r => entry'[r] = FailedEntry
      BY <2>1 DEF FailsTo
    <2>6. Releases(r)
      <3>1. CASE q # r
        BY <1>0, <1>3, <1>4, <1>7, <3>1, FailReleases
      <3>2. CASE q = r /\ lost = {}
        <4>1. rows' = MarkedRows({q})
          BY <2>1, <3>2 DEF FailsTo
        <4>2. rows'[r].stale
          BY <1>0, <1>4, <3>2, <4>1, MarkFacts
        <4>. QED  BY <1>5, <4>2 DEF Releases
      <3>3. CASE lost # {}
        <4>1. w'.markFailed
          BY <2>2, <2>3, <2>4, <3>3
        <4>. QED  BY <4>1 DEF Releases
      <3>. QED  BY <3>1, <3>2, <3>3
    <2>. QED  BY <1>3, <1>6, <2>2, <2>4, <2>5, <2>6
  <1>8. CASE BeginItem(q)
    <2>1. (q # r => entry'[r] = entry[r]) /\ (q = r => Open(entry'[r]) /\ ~entry'[r].failed) /\ w' = w
      BY <1>0, <1>8, BeginItemFacts DEF BeginItem
    <2>. QED  BY <1>1, <1>8, <2>1 DEF Releases
  <1>9. CASE SkipItem(q)
    <2>1. w' = x /\ entry' = entry
      BY <1>2, <1>9 DEF SkipItem
    <2>2. ~BeginItem(q)
      BY <1>9 DEF SkipItem, BeginItem
    <2>. QED  BY <1>1, <1>3, <1>9, <2>1, <2>2 DEF Releases
  <1>10. CASE Contradiction(q)
    <2>1. Fail({q}, entry, x, 0)
      BY <1>2, <1>10 DEF Contradiction
    <2>2. ~BeginItem(q)
      BY <1>10 DEF Contradiction, BeginItem
    <2>. QED  BY <1>1, <1>4, <1>7, <2>1, <2>2
  <1>11. CASE BeginItemFails(q)
    <2>1. Fail({q}, entry, x, 1)
      BY <1>2, <1>11 DEF BeginItemFails
    <2>2. Releases(r) /\ w'.page = Tail(w.page) /\ (q = r => entry'[r].failed)
      BY <1>4, <1>7, <2>1
    <2>3. ~BeginItem(q)
      <3>1. entry'[q] = FailedEntry
        BY <1>0, <1>4, <2>1, FailEntry
      <3>2. BeginItem(q) => ~entry'[q].failed
        BY <1>0, BeginItemFacts
      <3>. QED  BY <1>6, <3>1, <3>2
    <2>. QED  BY <1>1, <2>2, <2>3
  <1>12. CASE AddDoc(q)
    <2>1. PICK it \in Item : it = Head(w.page)
      BY <1>0, <1>1, HeadFacts
    <2>2. it.body.found /\ Unsettled(q) /\ entry' = [entry EXCEPT ![q].lastDoc = it.v]
      BY <1>12, <2>1 DEF AddDoc
    <2>3. it \in Range(w.page)
      BY <1>0, <1>1, <2>1, HeadFacts
    <2>4. New(it.body)
      BY <1>0, <2>3 DEF WalkInv, WalkOK, AllNew
    <2>5. PICK y : y = Queued(x, it)
      OBVIOUS
    <2>6. w' = Flushing(y, "walk") \/ w' = y
      BY <1>2, <1>12, <2>1, <2>5 DEF AddDoc, Queued
    <2>7. y \in Walk /\ y.page = x.page
      BY <1>0, <1>3, <2>2, <2>4, <2>5, QueueWalk
    <2>8. PICK z : z = Flushing(y, "walk")
      OBVIOUS
    <2>9. z.page = y.page
      BY <2>7, <2>8, FlushingFacts
    <2>10. w'.page = Tail(w.page)
      BY <1>3, <2>6, <2>7, <2>8, <2>9
    <2>11. q # r => entry'[r] = entry[r]
      BY <1>4, <2>2
    <2>12. Open(entry'[q]) /\ ~entry'[q].failed /\ entry[q].tracked
      <3>1. PICK e, v : e \in Entry /\ e = entry[q] /\ v = it.v
        BY <1>4
      <3>2. entry'[q] = [e EXCEPT !.lastDoc = v]
        BY <1>4, <2>2, <3>1
      <3>. QED  BY <2>2, <3>1, <3>2 DEF Open, Unsettled, Entry
    <2>13. ~BeginItem(q)
      BY <2>12 DEF BeginItem
    <2>. QED  BY <1>1, <1>5, <2>10, <2>11, <2>12, <2>13 DEF Releases
  <1>13. CASE CountNil(q)
    <2>. DEFINE e == [entry[q] EXCEPT !.nils = @ \cup {Head(w.page).v}, !.remaining = @ - 1]
                base == [entry EXCEPT ![q] = e]
    <2>1. IF e.remaining = 0 /\ e.partial
          THEN Fail({q}, base, ItemDone, 0)
          ELSE /\ entry' = base
               /\ w' = IF e.remaining > 0 \/ q \in IdsIn(w.pending) THEN ItemDone
                       ELSE [ItemDone EXCEPT !.pc = "nils", !.how = Settling(e), !.ret = "walk",
                                             !.ids = {q}, !.todo = {q}]
      BY <1>13, Zenon DEF CountNil
    <2>2. e \in Entry /\ Open(e)
      <3>1. WithNil(entry[q], Head(w.page).v) \in EntryIn(used.setup) /\ Open(WithNil(entry[q], Head(w.page).v))
        BY <1>0, <1>13, NilOwed
      <3>. QED  BY <3>1, EntrySets DEF WithNil
    <2>3. base \in [Roots -> Entry] /\ base[q] = e /\ \A p \in Roots : p # q => base[p] = entry[p]
      BY <1>4, <2>2
    <2>4. ~BeginItem(q)
      BY <1>13 DEF CountNil, Unsettled, BeginItem
    <2>. HIDE DEF base, e
    <2>5. CASE e.remaining = 0 /\ e.partial
      <3>1. Fail({q}, base, x, 0)
        BY <1>2, <2>1, <2>5
      <3>. QED  BY <1>1, <1>4, <1>7, <2>3, <2>4, <3>1
    <2>6. CASE ~(e.remaining = 0 /\ e.partial)
      <3>1. PICK how : how = Settling(e)
        OBVIOUS
      <3>2. how \in {"nil", "leave", "remove"}
        BY <3>1 DEF Settling
      <3>3. (w' = x \/ w' = Nilled(x, how, q)) /\ entry' = base
        BY <1>2, <2>1, <2>6, <3>1 DEF Nilled
      <3>4. PICK y \in Walk : y = w'
        BY DEF TypeNext
      <3>5. y.page = x.page
        <4>1. CASE y = Nilled(x, how, q)
          BY <1>3, <3>2, <4>1, NilWalk
        <4>. QED  BY <3>3, <3>4, <4>1
      <3>6. ~e.failed
        BY <2>2 DEF Open
      <3>. QED  BY <1>1, <1>3, <1>5, <2>2, <2>3, <2>4, <3>3, <3>4, <3>5, <3>6 DEF Releases
    <2>. QED  BY <2>5, <2>6
  <1>. QED  BY <1>8, <1>9, <1>10, <1>11, <1>12, <1>13 DEF ItemStep

\* What the flusher's steps release; the page is left alone.
LEMMA FlusherReleases ==
    ASSUME CoreInv, TypeNext, NEW r \in Roots,
           \/ BulkUpsert \/ CountDocs \/ CheckDrift \/ Narrow \/ CheckDriftFails
           \/ \E q \in Roots : SettleStep(q) \/ StoreEdgesFails(q) \/ DropNilsFails(q)
    PROVE  Releases(r) /\ w'.page = w.page
  <1>0. TypeOK /\ WalkInv /\ w \in Walk /\ entry \in [Roots -> Entry] /\ 0 \in Nat
    BY DEF CoreInv, TypeOK
  <1>1. w.markFailed => w'.markFailed
    BY <1>0, FlusherLoop DEF SameLoop
  <1>2. ASSUME NEW S \in SUBSET Roots, NEW base \in [Roots -> Entry], NEW x \in Walk, NEW cost \in Nat,
               Fail(S, base, x, cost)
        PROVE  w'.page = x.page
    <2>1. PICK lost \in SUBSET S, any \in BOOLEAN, mark \in BOOLEAN : FailsTo(S, base, x, lost, any, mark)
      BY <1>0, <1>2, FailFacts
    <2>2. PICK y : y = w'
      OBVIOUS
    <2>3. y = Failed(x, S, any, mark)
      BY <2>1, <2>2 DEF FailsTo
    <2>. QED  BY <2>2, <2>3, FailedFacts
  <1>3. CASE \/ BulkUpsert \/ CheckDrift \/ CheckDriftFails \/ Narrow
             \/ \E q \in Roots : StoreEdges(q) \/ DropNils(q)
    <2>1. SameWalk(w, w')
      BY <1>0, <1>3, WalkFlusher
    <2>2. entry' = entry
      BY <1>3, Zenon DEF BulkUpsert, CheckDrift, CheckDriftFails, Narrow, StoreEdges, DropNils
    <2>. QED  BY <1>1, <2>1, <2>2 DEF SameWalk, Releases
  <1>4. CASE CountDocs
    <2>1. PICK R \in SUBSET Roots, base \in [Roots -> Entry], T \in SUBSET Roots, y \in Walk : CountsTo(R, base, T, y)
      BY <1>0, <1>4, CountFacts
    <2>2. Fail(R, base, y, 0) /\ SameWalk(w, y)
      BY <2>1 DEF CountsTo
    <2>3. y.markFailed = w.markFailed /\ y.page = w.page
      BY <2>2 DEF SameWalk
    <2>4. w'.page = w.page
      BY <1>0, <1>2, <2>2, <2>3
    <2>5. CASE r \in R
      <3>1. PICK lost \in SUBSET R, any \in BOOLEAN, mark \in BOOLEAN : FailsTo(R, base, y, lost, any, mark)
        BY <1>0, <2>2, FailFacts
      <3>2. PICK z : z = w'
        OBVIOUS
      <3>3. z = Failed(y, R, any, mark) /\ (mark <=> y.markFailed \/ lost # {})
        BY <3>1, <3>2 DEF FailsTo
      <3>4. z.markFailed = mark
        BY <3>3, FailedFacts
      <3>5. CASE r \in lost
        BY <1>1, <2>4, <3>2, <3>3, <3>4, <3>5 DEF Releases
      <3>6. CASE r \in R \ lost
        <4>1. rows' = MarkedRows(R \ lost) /\ R \ lost \in SUBSET Roots
          BY <3>1 DEF FailsTo
        <4>2. rows'[r].stale
          BY <1>0, <3>6, <4>1, MarkFacts
        <4>. QED  BY <1>1, <2>4, <4>2 DEF Releases
      <3>. QED  BY <2>5, <3>5, <3>6, <2>4
    <2>6. CASE r \notin R
      <3>1. base[r] = entry[r] \/ base[r] = Counted(entry[r], Landed(r))
        BY <2>1, <2>6 DEF CountsTo
      <3>2. base[r].failed = entry[r].failed /\ base[r].settled = entry[r].settled /\ base[r].tracked = entry[r].tracked
        <4>1. PICK e \in Entry : e = entry[r]
          BY <1>0
        <4>2. CASE base[r] = Counted(entry[r], Landed(r))
          <5>1. PICK k, m : base[r] = e \/ base[r] = [e EXCEPT !.remaining = k, !.lastCounted = m]
            BY <4>1, <4>2 DEF Counted
          <5>. QED  BY <4>1, <5>1 DEF Entry
        <4>. QED  BY <3>1, <4>2
      <3>3. Releases(r)
        BY <1>0, <2>2, <2>3, <3>2, FailReleases DEF Open
      <3>. QED  BY <2>4, <3>3
    <2>. QED  BY <2>5, <2>6
  <1>5. ASSUME NEW q \in Roots,
               \/ StoreEdgesFails(q) \/ DropNilsFails(q) \/ LeaveGone(q) \/ Remark(q)
               \/ Complete(q) \/ FailPartial(q) \/ RemoveRow(q)
        PROVE  Releases(r) /\ w'.page = w.page
    <2>1. PICK y : y = Took(q)
      OBVIOUS
    <2>2. y = [w EXCEPT !.todo = @ \ {q}]
      BY <2>1 DEF Took
    <2>3. y \in Walk /\ y.page = w.page /\ y.markFailed = w.markFailed
      BY <1>0, <2>2, TookFacts DEF SameWalk
    <2>4. {q} \in SUBSET Roots
      OBVIOUS
    <2>5. ASSUME NEW cost \in Nat, Fail({q}, entry, w, cost) \/ Fail({q}, entry, y, cost)
          PROVE  Releases(r) /\ w'.page = w.page
      <3>1. w'.page = w.page
        BY <1>0, <1>2, <2>3, <2>4, <2>5
      <3>2. Releases(r)
        BY <1>0, <2>3, <2>4, <2>5, FailReleases
      <3>. QED  BY <3>1, <3>2
    <2>6. CASE entry' = entry /\ (w' = w \/ w' = y)
      BY <1>1, <2>3, <2>6 DEF Releases
    <2>7. ASSUME Settle(q), w' = w, q = r => rows'[r].stale \/ \A v \in Selected : docs'[r][v].ver > 1
          PROVE  Releases(r) /\ w'.page = w.page
      <3>1. q # r => entry'[r] = entry[r]
        BY <1>0, <2>7, SettleFacts
      <3>2. entry'[q].failed => entry[q].failed
        <4>1. entry'[q] = NoEntry \/ entry'[q].failed = entry[q].failed
          BY <1>0, <2>7, SettleFacts
        <4>2. ~NoEntry.failed
          BY DEF NoEntry
        <4>. QED  BY <4>1, <4>2
      <3>. QED  BY <1>1, <2>7, <3>1, <3>2 DEF Releases
    <2>8. CASE StoreEdgesFails(q) \/ DropNilsFails(q) \/ FailPartial(q)
      BY <2>1, <2>5, <2>8 DEF StoreEdgesFails, DropNilsFails, FailPartial
    <2>9. CASE LeaveGone(q)
      <3>1. (rows' = MarkedRows({q}) /\ Settle(q) /\ w' = w) \/ Fail({q}, entry, w, 1)
        BY <2>9 DEF LeaveGone
      <3>2. rows' = MarkedRows({q}) => rows'[q].stale
        BY <1>0, <2>4, MarkFacts
      <3>. QED  BY <2>5, <2>7, <3>1, <3>2
    <2>10. CASE Remark(q)
      BY <2>1, <2>5, <2>6, <2>10 DEF Remark
    <2>11. CASE Complete(q)
      <3>1. Settle(q) /\ w' = w
        BY <2>11 DEF Complete
      <3>2. \A v \in Selected : docs'[q][v].ver > 1
        BY <2>11, SettleRenews
      <3>. QED  BY <2>7, <3>1, <3>2
    <2>12. CASE RemoveRow(q)
      <3>1. (Settle(q) /\ w' = w) \/ Fail({q}, entry, w, 1)
        BY <2>12 DEF RemoveRow
      <3>2. \A v \in Selected : docs'[q][v].ver > 1
        BY <2>12, SettleRenews
      <3>. QED  BY <2>5, <2>7, <3>1, <3>2
    <2>. QED  BY <1>5, <2>8, <2>9, <2>10, <2>11, <2>12
  <1>. QED  BY <1>3, <1>4, <1>5 DEF SettleStep

\* A root that is not open is in nobody's hands.
LEMMA HandShut ==
    ASSUME NEW s, NEW x, NEW e, NEW r, ~Open(e), ~e.settled
    PROVE  InHand(s, x, e, r)
  BY DEF InHand

\* A root stays in hand as the walk moves on.
LEMMA HandKept ==
    ASSUME NEW s, NEW x, NEW y, NEW e, NEW r, InHand(s, x, e, r), y.ids = x.ids,
           r \in IdsIn(x.pending) => r \in IdsIn(y.pending),
           y.pc \in Applying /\ r \in y.ids => x.pc \in Applying \/ e.remaining = 0,
           x.pc = "walk" => y.pc = "walk" /\ y.page = x.page
    PROVE  InHand(s, y, e, r)
  BY DEF InHand

\* The queue is handed to the flusher.
LEMMA HandFlush ==
    ASSUME NEW s, NEW x \in Walk, NEW ret \in {"plan", "walk", "finish"}, NEW y, y = Flushing(x, ret),
           NEW e, NEW r, InHand(s, x, e, r), Open(e) => r \in IdsIn(x.pending)
    PROVE  InHand(s, y, e, r)
  <1>1. x.pending # <<>> => y.pc = "bulk" /\ y.ids = IdsIn(x.pending)
    BY FlushingFacts
  <1>2. x.pending = <<>> => ~Open(e)
    BY EmptyFacts
  <1>. QED  BY <1>1, <1>2 DEF InHand, Applying

\* fail keeps the others in hand.
LEMMA HandFail ==
    ASSUME TypeOK, NEW S \in SUBSET Roots, NEW base \in [Roots -> Entry], NEW next \in Walk,
           NEW cost \in Nat, Fail(S, base, next, cost), NEW s, NEW r \in Roots,
           r \notin S => InHand(s, next, base[r], r)
    PROVE  InHand(s, w', entry'[r], r)
  <1>1. PICK lost \in SUBSET S, any \in BOOLEAN, mark \in BOOLEAN : FailsTo(S, base, next, lost, any, mark)
    BY FailFacts
  <1>2. PICK y : y = w'
    OBVIOUS
  <1>3. y = Failed(next, S, any, mark)
    BY <1>1, <1>2 DEF FailsTo
  <1>4. CASE r \in S
    <2>1. entry'[r] = FailedEntry
      BY <1>1, <1>4 DEF FailsTo
    <2>2. ~Open(FailedEntry) /\ ~FailedEntry.settled
      BY DEF FailedEntry, NoEntry, Open
    <2>. QED  BY <2>1, <2>2, HandShut
  <1>5. CASE r \notin S
    <2>1. entry'[r] = base[r]
      BY <1>1, <1>5 DEF FailsTo
    <2>2. y.ids = next.ids /\ y.pc = next.pc /\ y.page = next.page /\ y.pending = Without(next.pending, S)
      BY <1>3, FailedFacts
    <2>3. Of(y.pending, r) = Of(next.pending, r)
      <3>1. next.pending \in Seq(Item)
        BY WalkFacts
      <3>. QED  BY <1>5, <2>2, <3>1, WithoutFacts
    <2>4. r \in IdsIn(next.pending) => r \in IdsIn(y.pending)
      BY <2>3, IdFacts
    <2>5. InHand(s, y, base[r], r)
      BY <1>5, <2>2, <2>4, HandKept
    <2>. QED  BY <1>2, <2>1, <2>5
  <1>. QED  BY <1>4, <1>5

\* Outside the flusher a root in hand is queued, or is the item's.
LEMMA HandQueued ==
    ASSUME TypeOK, WalkInv, HandInv, OnePlan(used.setup), w.pc \notin Flusher, NEW r \in Roots, Open(entry[r])
    PROVE  \/ r \in IdsIn(w.pending)
           \/ w.pc = "walk" /\ w.page # <<>> /\ Head(w.page).id = r /\ entry[r].remaining # 0
  <1>1. w.ids = {}
    BY DEF WalkInv, WalkOK, Placed
  <1>. QED  BY <1>1 DEF HandInv, InHand

\* The page loop keeps what is in hand.
LEMMA HandLoop ==
    ASSUME CoreInv, TypeNext, HandInv, OnePlan(used.setup), NEW r \in Roots,
           \/ StartAttempt \/ Execute \/ FlushBeforePlan \/ FetchPage \/ TakePage \/ PageConsumed \/ EndPlan
           \/ Finish \/ Crash \/ Abort \/ BulkFails
    PROVE  InHand(used.setup, w', entry'[r], r)
  <1>. DEFINE s == used.setup
  <1>0. /\ TypeOK /\ WalkInv /\ Placed(s, w) /\ w \in Walk /\ InHand(s, w, entry[r], r)
        /\ Handled(s, w, entry[r], docs[r], r) /\ ~Given(s)
    BY DEF CoreInv, WalkInv, WalkOK, TypeOK, HandInv, RootInv, RootOK, OnePlan
  <1>1. ~Open(NoEntry) /\ ~NoEntry.settled
    BY DEF NoEntry, Open
  <1>2. ASSUME Forget
        PROVE  InHand(s, w', entry'[r], r)
    BY <1>1, <1>2, HandShut DEF Forget
  <1>3. CASE Crash \/ Abort \/ BulkFails
    BY <1>2, <1>3 DEF Crash, Abort, BulkFails, Salvage
  <1>4. CASE StartAttempt
    <2>1. entry'[r] = NoEntry
      BY <1>0, <1>4 DEF StartAttempt, Handled
    <2>. QED  BY <1>1, <2>1, HandShut
  <1>5. ASSUME w.pc \in {"plan", "finish"} \/ (w.pc = "walk" /\ w.page = <<>>), NEW y \in Walk,
               y.pending = w.pending, y.ids = w.ids, y.pc \notin Applying
        PROVE  /\ Open(entry[r]) => r \in IdsIn(y.pending)
               /\ InHand(s, y, entry[r], r)
    <2>1. w.pc \notin Flusher
      BY <1>5 DEF Flusher, Applying
    <2>2. Open(entry[r]) => r \in IdsIn(w.pending)
      BY <1>0, <1>5, <2>1, HandQueued
    <2>. QED  BY <1>0, <1>5, <2>2 DEF InHand
  <1>6. ASSUME w.pc \in {"plan", "finish"} \/ (w.pc = "walk" /\ w.page = <<>>), NEW y \in Walk,
               y.pending = w.pending, y.ids = w.ids, y.pc \notin Applying, NEW ret \in {"plan", "walk", "finish"},
               w' = Flushing(y, ret), entry' = entry
        PROVE  InHand(s, w', entry'[r], r)
    <2>1. (Open(entry[r]) => r \in IdsIn(y.pending)) /\ InHand(s, y, entry[r], r)
      BY <1>5, <1>6
    <2>2. PICK z : z = w'
      OBVIOUS
    <2>3. z = Flushing(y, ret)
      BY <1>6, <2>2
    <2>4. InHand(s, z, entry[r], r)
      BY <2>1, <2>3, HandFlush
    <2>. QED  BY <1>6, <2>2, <2>4
  <1>7. CASE Finish
    <2>1. CASE w.pending # <<>>
      <3>1. w' = Flushing(w, "finish") /\ w.pc = "finish" /\ entry' = entry
        BY <1>7, <2>1 DEF Finish
      <3>2. w.pc \notin Applying
        BY <3>1 DEF Applying
      <3>. QED  BY <1>0, <1>6, <3>1, <3>2
    <2>2. CASE w.pending = <<>>
      BY <1>2, <1>7, <2>2 DEF Finish
    <2>. QED  BY <2>1, <2>2
  <1>8. CASE FlushBeforePlan
    <2>1. w' = Flushing(w, "plan") /\ w.pc = "plan" /\ entry' = entry
      BY <1>8 DEF FlushBeforePlan
    <2>2. w.pc \notin Applying
      BY <2>1 DEF Applying
    <2>. QED  BY <1>0, <1>6, <2>1, <2>2
  <1>9. CASE Execute \/ TakePage \/ EndPlan
    <2>1. entry' = entry /\ SameHands(w, w')
      BY <1>0, <1>9, ExecuteWalk, TakeWalk, EndWalk DEF Execute, TakePage, EndPlan
    <2>2. w.pc = "plan" \/ (w.pc = "walk" /\ w.no = 0)
      BY <1>0, <1>9, ExecuteWalk, TakeWalk, EndWalk
    <2>3. w.no = 0 => w.page = <<>>
      BY <1>0 DEF Placed
    <2>4. w'.pc \in {"walk", "finish", "plan"}
      BY <1>0, <1>9, ExecuteWalk, TakeWalk, EndWalk
    <2>5. PICK y \in Walk : y = w'
      BY DEF TypeNext
    <2>6. y.pending = w.pending /\ y.ids = w.ids /\ y.pc \notin Applying
      BY <2>1, <2>4, <2>5 DEF SameHands, Applying
    <2>7. InHand(s, y, entry[r], r)
      BY <1>5, <2>2, <2>3, <2>6
    <2>. QED  BY <2>1, <2>5, <2>7
  <1>10. CASE FetchPage
    <2>1. entry' = entry /\ SameHands(w, w') /\ w'.pc = w.pc /\ w'.page = w.page
      BY <1>0, <1>10, FetchWalk DEF FetchPage
    <2>2. PICK y : y = w'
      OBVIOUS
    <2>3. InHand(s, y, entry[r], r)
      BY <1>0, <2>1, <2>2, HandKept DEF SameHands
    <2>. QED  BY <2>1, <2>2, <2>3
  <1>11. CASE PageConsumed
    <2>1. entry' = entry
      BY <1>11 DEF PageConsumed
    <2>2. PICK y \in Walk : (w' = Flushing(y, "walk") \/ w' = y) /\ w.pc = "walk" /\ y.pc = "walk" /\ w.page = <<>>
                            /\ SameHands(w, y)
      BY <1>0, <1>11, ConsumeWalk
    <2>3. y.pending = w.pending /\ y.ids = w.ids /\ y.pc \notin Applying
      BY <2>2 DEF SameHands, Applying
    <2>4. InHand(s, y, entry[r], r)
      BY <1>5, <2>2, <2>3
    <2>5. CASE w' = Flushing(y, "walk")
      BY <1>6, <2>1, <2>2, <2>3, <2>5
    <2>. QED  BY <2>1, <2>2, <2>4, <2>5
  <1>. QED  BY <1>3, <1>4, <1>7, <1>8, <1>9, <1>10, <1>11

\* At an item of a single plan's walk, its version is the plan's, and the
\* root's one outcome is owed until it is counted.
LEMMA OneItem ==
    ASSUME CoreInv, OnePlan(used.setup), w.pc = "walk"
    PROVE  w.left = Selected /\ Cardinality(Selected) = 1 /\ \A r \in Roots : entry[r].remaining \in {0, 1}
  <1>1. TypeOK /\ WalkInv /\ CursorInv
    BY DEF CoreInv
  <1>2. w.left # {}
    BY <1>1 DEF WalkInv, WalkOK, Placed, At, Flusher, Applying, OnePlan
  <1>3. w.left = Selected
    BY <1>1, <1>2 DEF CursorInv, Cursor, Selected
  <1>4. Cardinality(Selected) = 1
    BY <1>1, OnePlanFacts
  <1>5. \A r \in Roots : entry[r].remaining \in 0 .. Cardinality(Selected)
    BY <1>1 DEF TypeOK, Entry
  <1>. QED  BY <1>3, <1>4, <1>5

\* The items' steps keep what is in hand, and put the item's root there.
LEMMA HandItem ==
    ASSUME CoreInv, TypeNext, HandInv, OnePlan(used.setup), NEW q \in Roots, NEW r \in Roots,
           ItemStep(q) \/ BeginItemFails(q)
    PROVE  InHand(used.setup, w', entry'[r], r)
  <1>. DEFINE s == used.setup
  <1>0. TypeOK /\ WalkInv /\ RootInv /\ w \in Walk /\ InHand(s, w, entry[r], r) /\ InHand(s, w, entry[q], q)
    BY DEF CoreInv, TypeOK, HandInv
  <1>1. w.pc = "walk" /\ w.page # <<>> /\ Head(w.page).id = q
    BY DEF ItemStep, BeginItem, AddDoc, SkipItem, Contradiction, CountNil, BeginItemFails, AtItem
  <1>2. PICK x \in Walk : x = ItemDone
    BY <1>0, <1>1, ItemWalk
  <1>3. /\ WalkOK(s, x) /\ x.pc = "walk" /\ x.page = Tail(w.page) /\ x.pending = w.pending /\ x.ids = w.ids
    BY <1>0, <1>1, <1>2, ItemWalk
  <1>4. entry \in [Roots -> Entry] /\ {q} \in SUBSET Roots /\ 0 \in Nat /\ 1 \in Nat
    BY <1>0 DEF TypeOK
  <1>5. w.pc \notin Flusher /\ x.pc \notin Applying
    BY <1>1, <1>3 DEF Flusher, Applying
  <1>6. w.left = Selected /\ Cardinality(Selected) = 1 /\ entry[q].remaining \in {0, 1}
    BY <1>1, OneItem
  <1>7. r # q /\ Open(entry[r]) => r \in IdsIn(w.pending)
    BY <1>0, <1>1, <1>5, HandQueued
  <1>8. r # q => InHand(s, x, entry[r], r)
    BY <1>0, <1>3, <1>5, <1>7 DEF InHand
  <1>9. w.ids = {}
    BY <1>0, <1>5 DEF WalkInv, WalkOK, Placed
  <1>10. CASE BeginItem(q)
    <2>1. /\ q # r => entry'[r] = entry[r]
          /\ q = r => /\ Open(entry'[r]) /\ ~entry'[r].settled /\ entry'[r].nils = {} /\ entry'[r].lastCounted = 0
                      /\ entry'[r].remaining = 1
      BY <1>0, <1>6, <1>10, BeginItemFacts
    <2>2. w' = w
      BY <1>10 DEF BeginItem
    <2>3. CASE q = r
      BY <1>1, <1>5, <2>1, <2>2, <2>3 DEF InHand, Flusher
    <2>. QED  BY <1>0, <2>1, <2>2, <2>3
  <1>11. CASE SkipItem(q)
    <2>1. w' = x /\ entry' = entry /\ Repeats(Head(w.page), entry[q])
      BY <1>2, <1>11 DEF SkipItem
    <2>2. CASE q = r
      <3>1. Open(entry[r]) => entry[r].nils # {}
        BY <2>1, <2>2 DEF Repeats, Open
      <3>2. ~entry[r].settled
        BY <1>0 DEF InHand
      <3>3. Open(entry[r]) => entry[r].remaining = 0
        BY <1>0, <3>1 DEF InHand
      <3>4. Open(entry[r]) => r \in IdsIn(w.pending)
        BY <1>0, <1>5, <3>3, HandQueued
      <3>5. InHand(s, x, entry[r], r)
        BY <1>3, <3>2, <3>3, <3>4 DEF InHand
      <3>. QED  BY <2>1, <3>5
    <2>. QED  BY <1>8, <2>1, <2>2
  <1>12. CASE Contradiction(q) \/ BeginItemFails(q)
    <2>1. PICK cost \in Nat : Fail({q}, entry, x, cost)
      BY <1>2, <1>4, <1>12 DEF Contradiction, BeginItemFails
    <2>. QED  BY <1>0, <1>4, <1>8, <2>1, HandFail
  <1>13. CASE AddDoc(q)
    <2>1. PICK it \in Item : it = Head(w.page)
      BY <1>0, <1>1, HeadFacts
    <2>2. it.body.found /\ Unsettled(q) /\ entry' = [entry EXCEPT ![q].lastDoc = it.v]
      BY <1>13, <2>1 DEF AddDoc
    <2>3. it \in Range(w.page) /\ it.id = q
      BY <1>0, <1>1, <2>1, HeadFacts
    <2>4. New(it.body)
      BY <1>0, <2>3 DEF WalkInv, WalkOK, AllNew
    <2>5. PICK y : y = Queued(x, it)
      OBVIOUS
    <2>6. w' = Flushing(y, "walk") \/ w' = y
      BY <1>2, <1>13, <2>1, <2>5 DEF AddDoc, Queued
    <2>7. y \in Walk /\ y.page = x.page /\ y.pc = x.pc /\ y.ids = x.ids /\ Range(y.pending) = Range(x.pending) \cup {it}
      <3>0. WalkOK(s, x) /\ x.pc = "walk"
        BY <1>3
      <3>1. y \in Walk /\ y.page = x.page /\ y.pc = x.pc /\ y.ids = x.ids
        BY <1>0, <2>2, <2>4, <2>5, <3>0, QueueWalk
      <3>2. x.pending \in Seq(Item)
        BY WalkFacts
      <3>3. y.pending = Append(x.pending, it)
        BY <2>5 DEF Queued, Walk
      <3>4. Range(y.pending) = Range(x.pending) \cup {it}
        BY <3>2, <3>3, AppendFacts
      <3>. QED  BY <3>1, <3>4
    <2>8. IdsIn(y.pending) = IdsIn(x.pending) \cup {q}
      <3>1. \A p : p \in IdsIn(y.pending) <=> \E k \in Range(y.pending) : k.id = p
        BY DEF IdsIn, Range
      <3>2. \A p : p \in IdsIn(x.pending) <=> \E k \in Range(x.pending) : k.id = p
        BY DEF IdsIn, Range
      <3>. QED  BY <2>3, <2>7, <3>1, <3>2
    <2>9. Open(entry'[r]) => r \in IdsIn(y.pending)
      <3>1. q # r => entry'[r] = entry[r]
        BY <1>4, <2>2
      <3>. QED  BY <1>3, <1>7, <2>8, <3>1
    <2>10. InHand(s, y, entry'[r], r)
      <3>1. CASE q # r
        <4>1. entry'[r] = entry[r]
          BY <1>4, <2>2, <3>1
        <4>. QED  BY <1>0, <1>3, <1>5, <2>7, <2>9, <4>1 DEF InHand
      <3>2. CASE q = r
        <4>1. PICK e, v : e \in Entry /\ e = entry[q] /\ v = it.v
          BY <1>4
        <4>2. entry'[q] = [e EXCEPT !.lastDoc = v]
          BY <1>4, <2>2, <4>1
        <4>3. PICK f : f = entry'[q]
          OBVIOUS
        <4>4. f.tracked = e.tracked /\ f.failed = e.failed /\ f.settled = e.settled /\ f.remaining = e.remaining
              /\ f.lastCounted = e.lastCounted /\ f.nils = e.nils
          BY <4>2, <4>3 DEF Entry
        <4>5. InHand(s, y, f, r)
          BY <1>0, <1>3, <1>5, <2>7, <2>9, <3>2, <4>1, <4>3, <4>4 DEF InHand, Open
        <4>. QED  BY <3>2, <4>3, <4>5
      <3>. QED  BY <3>1, <3>2
    <2>11. PICK z : z = Flushing(y, "walk")
      OBVIOUS
    <2>12. InHand(s, z, entry'[r], r)
      BY <2>7, <2>9, <2>10, <2>11, HandFlush
    <2>. QED  BY <2>6, <2>10, <2>11, <2>12
  <1>14. CASE CountNil(q)
    <2>. DEFINE e == [entry[q] EXCEPT !.nils = @ \cup {Head(w.page).v}, !.remaining = @ - 1]
                base == [entry EXCEPT ![q] = e]
    <2>1. IF e.remaining = 0 /\ e.partial
          THEN Fail({q}, base, ItemDone, 0)
          ELSE /\ entry' = base
               /\ w' = IF e.remaining > 0 \/ q \in IdsIn(w.pending) THEN ItemDone
                       ELSE [ItemDone EXCEPT !.pc = "nils", !.how = Settling(e), !.ret = "walk",
                                             !.ids = {q}, !.todo = {q}]
      BY <1>14, Zenon DEF CountNil
    <2>2. e \in Entry /\ Open(e) /\ entry[q].remaining >= 1
      <3>1. /\ WithNil(entry[q], Head(w.page).v) \in EntryIn(used.setup)
            /\ Open(WithNil(entry[q], Head(w.page).v)) /\ entry[q].remaining >= 1
        BY <1>0, <1>14, NilOwed
      <3>. QED  BY <3>1, EntrySets DEF WithNil
    <2>3. base \in [Roots -> Entry] /\ base[q] = e /\ \A p \in Roots : p # q => base[p] = entry[p]
      BY <1>4, <2>2
    <2>4. e.remaining = 0
      <3>1. PICK f \in Entry : f = entry[q]
        BY <1>4
      <3>2. PICK N, k : N = f.nils \cup {Head(w.page).v} /\ k = f.remaining - 1
        OBVIOUS
      <3>3. e = [f EXCEPT !.nils = N, !.remaining = k]
        BY <3>1, <3>2
      <3>4. e.remaining = k
        BY <3>3 DEF Entry
      <3>. QED  BY <1>6, <2>2, <3>1, <3>2, <3>4
    <2>5. ~e.settled
      BY <2>2 DEF Open
    <2>. HIDE DEF base, e
    <2>6. CASE e.partial
      <3>1. Fail({q}, base, x, 0)
        BY <1>2, <2>1, <2>4, <2>6
      <3>2. r \notin {q} => InHand(s, x, base[r], r)
        BY <1>8, <2>3
      <3>. QED  BY <1>0, <1>4, <2>3, <3>1, <3>2, HandFail
    <2>7. CASE ~e.partial
      <3>1. PICK how : how = Settling(e)
        OBVIOUS
      <3>2. how \in {"nil", "leave", "remove"}
        BY <3>1 DEF Settling
      <3>3. entry' = base /\ IF q \in IdsIn(w.pending) THEN w' = x ELSE w' = Nilled(x, how, q)
        BY <1>2, <2>1, <2>4, <2>7, <3>1 DEF Nilled
      <3>4. PICK y \in Walk : y = w'
        BY DEF TypeNext
      <3>5. CASE q \in IdsIn(w.pending)
        <4>1. InHand(s, x, e, q)
          BY <1>3, <1>5, <2>4, <2>5, <3>5 DEF InHand
        <4>. QED  BY <1>8, <2>3, <3>3, <3>5, <4>1
      <3>6. CASE q \notin IdsIn(w.pending)
        <4>1. y = Nilled(x, how, q)
          BY <3>3, <3>4, <3>6
        <4>2. /\ WalkOK(s, y)
              /\ y.pc = "nils" /\ y.how = how /\ y.ret = "walk" /\ y.ids = {q} /\ y.todo = {q}
              /\ y.left = x.left /\ y.start = x.start /\ y.next = x.next /\ y.inbox = x.inbox
              /\ y.no = x.no /\ y.page = x.page /\ y.pending = x.pending /\ y.chunk = x.chunk
              /\ y.completed = x.completed /\ y.anyFailed = x.anyFailed /\ y.markFailed = x.markFailed
          BY <1>3, <3>2, <4>1, NilWalk
        <4>3. InHand(s, y, e, q)
          BY <2>4, <2>5, <4>2 DEF InHand
        <4>4. r # q => InHand(s, y, entry[r], r)
          BY <1>0, <1>3, <1>7, <4>2 DEF InHand
        <4>. QED  BY <2>3, <3>3, <3>4, <4>3, <4>4
      <3>. QED  BY <3>5, <3>6
    <2>. QED  BY <2>6, <2>7
  <1>. QED  BY <1>10, <1>11, <1>12, <1>13, <1>14 DEF ItemStep

\* A document of the only plan counts as the root's outcome.
LEMMA CountedOne ==
    ASSUME NEW s, IsSetup(s), NEW e \in EntryIn(s), NEW p, s.selected = {p}, p # 0,
           e.remaining # 0 => e.lastCounted = 0
    PROVE  /\ Counted(e, {p}).remaining = 0
           /\ Counted(e, {p}).tracked = e.tracked /\ Counted(e, {p}).failed = e.failed
           /\ Counted(e, {p}).settled = e.settled
  <1>. DEFINE n == Cardinality({p} \ {e.lastCounted})
              m == CHOOSE v \in {p} : \A u \in {p} : u <= v
  <1>1. e.remaining \in Nat /\ e.remaining <= 1
    <2>1. e.remaining \in Nat /\ e.remaining <= Cardinality(s.selected)
      BY EntryFacts
    <2>2. Cardinality(s.selected) = 1
      BY FS_Singleton
    <2>. QED  BY <2>1, <2>2
  <1>2. n \in {0, 1} /\ (e.remaining # 0 => n = 1)
    <2>1. {p} \ {e.lastCounted} = {} \/ {p} \ {e.lastCounted} = {p}
      OBVIOUS
    <2>2. Cardinality({p}) = 1 /\ Cardinality({}) = 0
      BY FS_Singleton, FS_EmptySet
    <2>3. e.remaining # 0 => {p} \ {e.lastCounted} = {p}
      OBVIOUS
    <2>. QED  BY <2>1, <2>2, <2>3
  <1>3. Counted(e, {p}) = IF n = 0 THEN e ELSE [e EXCEPT !.remaining = IF n > @ THEN 0 ELSE @ - n, !.lastCounted = m]
    BY DEF Counted
  <1>. HIDE DEF n, m
  <1>4. PICK k : k = IF n > e.remaining THEN 0 ELSE e.remaining - n
    OBVIOUS
  <1>5. n # 0 => k = 0
    BY <1>1, <1>2, <1>4
  <1>6. CASE n = 0
    BY <1>2, <1>3, <1>6
  <1>7. CASE n # 0
    <2>1. Counted(e, {p}) = [e EXCEPT !.remaining = k, !.lastCounted = m]
      BY <1>3, <1>4, <1>7
    <2>. QED  BY <1>5, <1>7, <2>1 DEF EntryIn
  <1>. QED  BY <1>6, <1>7

\* The flusher keeps what is in hand until it settles it.
LEMMA HandFlusher ==
    ASSUME CoreInv, TypeNext, HandInv, OnePlan(used.setup), NEW r \in Roots,
           \/ BulkUpsert \/ CountDocs \/ CheckDrift \/ Narrow \/ CheckDriftFails
           \/ \E q \in Roots : SettleStep(q) \/ StoreEdgesFails(q) \/ DropNilsFails(q)
    PROVE  InHand(used.setup, w', entry'[r], r)
  <1>. DEFINE s == used.setup
  <1>0. /\ TypeOK /\ WalkInv /\ Placed(s, w) /\ w \in Walk /\ entry \in [Roots -> Entry] /\ 0 \in Nat
        /\ InHand(s, w, entry[r], r) /\ IsSetup(s)
    BY SetupFacts DEF CoreInv, TypeOK, HandInv, WalkInv, WalkOK
  <1>1. CASE \/ BulkUpsert \/ CheckDrift \/ CheckDriftFails \/ Narrow
             \/ \E q \in Roots : StoreEdges(q) \/ DropNils(q)
    <2>1. /\ SameWalk(w, w') /\ w.pc \in Flusher /\ w'.pc \in Flusher
          /\ (w.pc = "bulk" => w'.pc = "edges") /\ (w.pc = "edges" => w'.pc = "edges")
      BY <1>0, <1>1, WalkFlusher
    <2>2. entry' = entry
      BY <1>1, Zenon DEF BulkUpsert, CheckDrift, CheckDriftFails, Narrow, StoreEdges, DropNils
    <2>3. PICK y : y = w'
      OBVIOUS
    <2>4. y.pc \in Applying => w.pc \in Applying
      BY <2>1, <2>3 DEF Flusher, Applying
    <2>5. w.pc # "walk"
      BY <2>1 DEF Flusher, Applying
    <2>6. y.ids = w.ids /\ y.pending = w.pending
      BY <2>1, <2>3 DEF SameWalk
    <2>7. InHand(s, y, entry[r], r)
      BY <1>0, <2>4, <2>5, <2>6, HandKept
    <2>. QED  BY <2>2, <2>3, <2>7
  <1>2. CASE CountDocs
    <2>1. PICK R \in SUBSET Roots, base \in [Roots -> Entry], T \in SUBSET Roots, y \in Walk : CountsTo(R, base, T, y)
      BY <1>0, <1>2, CountFacts
    <2>2. Fail(R, base, y, 0) /\ SameWalk(w, y) /\ y.pc = "nils" /\ w.pc = "edges"
      BY <1>0, <1>2, <2>1, CountFacts DEF CountsTo
    <2>3. y.ids = w.ids /\ y.pending = w.pending
      BY <2>2 DEF SameWalk
    <2>4. CASE r \in R
      BY <1>0, <2>2, <2>4, HandFail
    <2>5. CASE r \notin R /\ base[r] = entry[r] /\ (r \notin w.ids \/ ~Open(entry[r]))
      <3>1. InHand(s, y, base[r], r)
        BY <1>0, <2>2, <2>3, <2>5 DEF InHand
      <3>. QED  BY <1>0, <2>2, <3>1, HandFail
    <2>6. CASE /\ r \notin R /\ r \in w.ids /\ Open(entry[r]) /\ base[r] = Counted(entry[r], Landed(r))
               /\ \A v \in Selected : <<r, v>> \notin w.rejected
      <3>1. PICK p \in Selected : Selected = {p}
        BY <1>0, OnePlanFacts
      <3>2. p # 0 /\ s.selected = {p}
        BY <1>0, <3>1, StateSets, SetFacts DEF Selected
      <3>3. Landed(r) = {p}
        <4>1. r \in IdsIn(w.chunk)
          BY <1>0, <2>2, <2>6 DEF Placed, Waiting
        <4>2. PICK v : v \in Of(w.chunk, r)
          BY <4>1, IdFacts
        <4>3. v \in Selected /\ <<r, v>> \in ChunkKeys
          BY <1>0, <4>2, RootTypes, ChunkFacts DEF Selected
        <4>4. v \in Landed(r)
          BY <2>6, <4>3 DEF Landed
        <4>. QED  BY <3>1, <4>3, <4>4 DEF Landed
      <3>4. entry[r] \in EntryIn(s) /\ (entry[r].remaining # 0 => entry[r].lastCounted = 0)
        BY <1>0, <2>6, RootTypes DEF InHand
      <3>5. /\ base[r].remaining = 0 /\ base[r].tracked = entry[r].tracked /\ base[r].failed = entry[r].failed
            /\ base[r].settled = entry[r].settled
        BY <1>0, <2>6, <3>2, <3>3, <3>4, CountedOne
      <3>6. Open(base[r]) /\ ~base[r].settled
        BY <2>6, <3>5 DEF Open
      <3>7. InHand(s, y, base[r], r)
        BY <2>3, <2>6, <3>5, <3>6 DEF InHand
      <3>. QED  BY <1>0, <2>2, <3>7, HandFail
    <2>. QED  BY <2>1, <2>4, <2>5, <2>6 DEF CountsTo
  <1>3. ASSUME NEW q \in Roots,
               \/ StoreEdgesFails(q) \/ DropNilsFails(q) \/ LeaveGone(q) \/ Remark(q)
               \/ Complete(q) \/ FailPartial(q) \/ RemoveRow(q)
        PROVE  InHand(s, w', entry'[r], r)
    <2>1. PICK y : y = Took(q)
      OBVIOUS
    <2>2. y = [w EXCEPT !.todo = @ \ {q}]
      BY <2>1 DEF Took
    <2>3. y \in Walk /\ SameWalk(w, y) /\ y.pc = w.pc
      BY <1>0, <2>2, TookFacts
    <2>4. InHand(s, y, entry[r], r)
      BY <1>0, <2>3 DEF InHand, SameWalk
    <2>5. ASSUME NEW cost \in Nat, Fail({q}, entry, w, cost) \/ Fail({q}, entry, y, cost)
          PROVE  InHand(s, w', entry'[r], r)
      <3>1. {q} \in SUBSET Roots
        OBVIOUS
      <3>. QED  BY <1>0, <2>3, <2>4, <2>5, <3>1, HandFail
    <2>6. ASSUME Settle(q), w' = w
          PROVE  InHand(s, w', entry'[r], r)
      <3>1. ~KeepSettled
        BY <1>0, OnePlanFacts
      <3>2. entry'[r] = IF r = q THEN NoEntry ELSE entry[r]
        BY <1>0, <2>6, <3>1, SettleFacts
      <3>3. ~Open(NoEntry) /\ ~NoEntry.settled
        BY DEF NoEntry, Open
      <3>4. InHand(s, w, NoEntry, r)
        BY <3>3, HandShut
      <3>. QED  BY <1>0, <2>6, <3>2, <3>4
    <2>7. CASE w' = y /\ entry' = entry
      BY <2>4, <2>7
    <2>8. \/ Settle(q) /\ w' = w
          \/ w' = y /\ entry' = entry
          \/ \E cost \in Nat : Fail({q}, entry, w, cost) \/ Fail({q}, entry, y, cost)
      BY <1>3, <2>1 DEF StoreEdgesFails, DropNilsFails, LeaveGone, Remark, Complete, FailPartial, RemoveRow
    <2>. QED  BY <2>5, <2>6, <2>7, <2>8
  <1>. QED  BY <1>1, <1>2, <1>3 DEF SettleStep

\* When the flusher returns, what it had is settled, and after a flush of the
\* whole queue nothing is open.
LEMMA HandReturn ==
    ASSUME CoreInv, HandInv, OnePlan(used.setup), NEW r \in Roots, FlusherReturns
    PROVE  /\ InHand(used.setup, w', entry'[r], r) /\ entry' = entry
           /\ w.how = "flush" => ~Open(entry[r])
  <1>. DEFINE s == used.setup
  <1>0. TypeOK /\ Placed(s, w) /\ InHand(s, w, entry[r], r)
    BY DEF CoreInv, HandInv, WalkInv, WalkOK
  <1>1. /\ w.pc \in Applying /\ w.todo = {} /\ w'.pc = w.ret /\ w'.ids = {} /\ w'.pending = w.pending
        /\ w'.page = w.page
    BY <1>0, ReturnWalk
  <1>2. /\ (w.pc = "remark" /\ w.todo = {}) \/ (w.pc = "nils" /\ w.todo = {} /\ w.how = "leave")
        /\ \A q \in w.ids : ~Completable(q) /\ (w.how = "leave" => ~Unsettled(q))
        /\ entry' = entry
    BY DEF FlusherReturns
  <1>3. ASSUME Open(entry[r]), r \in w.ids
        PROVE  FALSE
    <2>1. entry[r].remaining = 0 /\ Unsettled(r)
      BY <1>0, <1>1, <1>3 DEF InHand, Unsettled, Open
    <2>. QED  BY <1>2, <1>3, <2>1 DEF Completable
  <1>4. w.pc # "walk" /\ w'.pc \notin Applying
    <2>1. w.ret \in {"plan", "walk", "finish"}
      BY <1>0, WalkFacts DEF TypeOK
    <2>. QED  BY <1>1, <2>1 DEF Applying
  <1>5. Open(entry[r]) => r \in IdsIn(w.pending)
    BY <1>0, <1>3, <1>4 DEF InHand
  <1>6. PICK y : y = w'
    OBVIOUS
  <1>7. InHand(s, y, entry[r], r)
    BY <1>0, <1>1, <1>4, <1>5, <1>6 DEF InHand
  <1>8. w.how = "flush" => w.pending = <<>>
    BY <1>0, <1>1 DEF Placed, Flusher
  <1>. QED  BY <1>2, <1>5, <1>6, <1>7, <1>8, EmptyFacts

\* Every step keeps what is in hand.
LEMMA HandStep ==
    ASSUME CoreInv, TypeNext, HandInv, Next
    PROVE  HandInv'
  <1>. DEFINE s == used.setup
  <1>1. SUFFICES ASSUME NEW r \in Roots, OnePlan(s)
                 PROVE  InHand(s, w', entry'[r], r)
    <2>1. used'.setup = s /\ Roots' = Roots
      BY DEF TypeNext, Roots
    <2>2. ASSUME NEW r \in Roots
          PROVE  InHand(s, w', entry'[r], r)
      <3>1. CASE ~OnePlan(s)
        BY <3>1 DEF InHand
      <3>. QED  BY <1>1, <3>1
    <2>. QED  BY <2>1, <2>2 DEF HandInv
  <1>2. CASE w' = w /\ entry' = entry
    BY <1>2 DEF HandInv
  <1>3. CASE \/ StartAttempt \/ Execute \/ FlushBeforePlan \/ FetchPage \/ TakePage \/ PageConsumed \/ EndPlan
             \/ Finish \/ Crash \/ Abort \/ BulkFails
    BY <1>1, <1>3, HandLoop
  <1>4. CASE BeginBatch \/ BatchFails \/ AskPlans \/ BatchDone \/ EndBatches
    BY <1>1, <1>4, CursorBatch DEF OnePlan, CoreInv
  <1>5. CASE \E q \in Roots : ItemStep(q) \/ BeginItemFails(q)
    BY <1>1, <1>5, HandItem
  <1>6. CASE \/ BulkUpsert \/ CountDocs \/ CheckDrift \/ Narrow \/ CheckDriftFails
             \/ \E q \in Roots : SettleStep(q) \/ StoreEdgesFails(q) \/ DropNilsFails(q)
    BY <1>1, <1>6, HandFlusher
  <1>7. CASE FlusherReturns
    BY <1>1, <1>7, HandReturn
  <1>8. CASE \/ Rest \/ Beat
             \/ \E q \in Roots : ChangeRoot(q) \/ LiveBegin(q) \/ LiveEnd(q)
             \/ \E c \in Kids : ChangeKid(c)
             \/ \E y \in Things : Register(y)
    BY <1>2, <1>8 DEF Rest, Beat, vars, ChangeRoot, LiveBegin, LiveEnd, ChangeKid, Register
  <1>. QED  BY <1>3, <1>4, <1>5, <1>6, <1>7, <1>8 DEF Next, WalkStep, LoopStep, FlushStep, Failure

\* What is not passed stays so while the loop waits.
LEMMA NotYetKept ==
    ASSUME NEW s, NEW x, NEW y, NEW e, NEW f, NEW j, NEW r, NEW v, NotYet(s, x, e, j, r, v), SameLoop(x, y),
           y.markFailed \/ /\ f.failed => e.failed
                           /\ Open(e) => Open(f)
                           /\ r \in IdsIn(x.page) => r \in IdsIn(y.page) \/ Open(f)
    PROVE  NotYet(s, y, f, j, r, v)
  <1>1. CASE y.markFailed
    BY <1>1 DEF NotYet
  <1>2. CASE ~y.markFailed
    <2>1. ~x.markFailed
      BY <1>2 DEF SameLoop
    <2>. QED  BY <1>2, <2>1 DEF NotYet, SameLoop
  <1>. QED  BY <1>1, <1>2

\* An attempt that is over, or only begun, has passed what the cursor has.
LEMMA NotYetNone ==
    ASSUME NEW s, NEW x, NEW y, NEW e, NEW j, NEW k, NEW r, NEW v, NotYet(s, x, e, j, r, v),
           j.latest \in Nat, k.latest \in Nat, k.latest <= j.latest,
           y.completed = 0, y.start = 0
    PROVE  NotYet(s, y, NoEntry, k, r, v)
  <1>1. ~NoEntry.failed
    BY DEF NoEntry
  <1>2. 1 .. 0 = {} /\ 1 .. k.latest \subseteq 1 .. j.latest
    OBVIOUS
  <1>. QED  BY <1>1, <1>2 DEF NotYet

\* What a step that leaves the root unsafe releases.
LEMMA UnsafeReleases ==
    ASSUME NEW r \in Roots, NEW v \in Selected, Releases(r), ~SafeNow(r, v)'
    PROVE  \/ w' = IdleWalk /\ entry'[r] = NoEntry
           \/ /\ w.markFailed => w'.markFailed
              /\ \/ w'.markFailed
                 \/ (entry'[r].failed => entry[r].failed) /\ (Open(entry[r]) => Open(entry'[r]))
  <1>1. ~(docs'[r][v].ver > 1) /\ ~rows'[r].stale
    BY DEF SafeNow
  <1>. QED  BY <1>1 DEF Releases

\* The items' and the flusher's steps pass nothing.
LEMMA NotYetHands ==
    ASSUME CoreInv, TypeNext, HandInv, OnePlan(used.setup), NEW r \in Roots, NEW v \in Selected,
           NotYet(used.setup, w, entry[r], job, r, v), ~SafeNow(r, v)',
           \/ BulkUpsert \/ CountDocs \/ CheckDrift \/ Narrow \/ CheckDriftFails
           \/ \E q \in Roots : \/ SettleStep(q) \/ StoreEdgesFails(q) \/ DropNilsFails(q)
                               \/ ItemStep(q) \/ BeginItemFails(q)
    PROVE  NotYet(used.setup, w', entry'[r], job, r, v)
  <1>. DEFINE s == used.setup
  <1>0. TypeOK /\ WalkInv /\ RootInv
    BY DEF CoreInv
  <1>1. PICK y, f : y = w' /\ f = entry'[r]
    OBVIOUS
  <1>2. IdleWalk.pc = "idle"
    BY DEF IdleWalk
  <1>3. ASSUME SameLoop(w, w'), Releases(r)
        PROVE  /\ SameLoop(w, y)
               /\ y.markFailed \/ ((f.failed => entry[r].failed) /\ (Open(entry[r]) => Open(f)))
    <2>1. w' # IdleWalk
      BY <1>2, <1>3 DEF SameLoop
    <2>2. \/ w' = IdleWalk /\ entry'[r] = NoEntry
          \/ /\ w.markFailed => w'.markFailed
             /\ \/ w'.markFailed
                \/ (entry'[r].failed => entry[r].failed) /\ (Open(entry[r]) => Open(entry'[r]))
      BY <1>3, UnsafeReleases
    <2>3. \/ w'.markFailed
          \/ (entry'[r].failed => entry[r].failed) /\ (Open(entry[r]) => Open(entry'[r]))
      BY <2>1, <2>2, Zenon
    <2>4. SameLoop(w, y)
      BY <1>1, <1>3
    <2>5. y.markFailed \/ ((f.failed => entry[r].failed) /\ (Open(entry[r]) => Open(f)))
      BY <1>1, <2>3
    <2>. QED  BY <2>4, <2>5
  <1>4. CASE \/ BulkUpsert \/ CountDocs \/ CheckDrift \/ Narrow \/ CheckDriftFails
             \/ \E q \in Roots : SettleStep(q) \/ StoreEdgesFails(q) \/ DropNilsFails(q)
    <2>1. SameLoop(w, w') /\ Releases(r) /\ w'.page = w.page
      BY <1>0, <1>4, FlusherLoop, FlusherReleases
    <2>2. /\ SameLoop(w, y) /\ y.page = w.page
          /\ y.markFailed \/ ((f.failed => entry[r].failed) /\ (Open(entry[r]) => Open(f)))
      BY <1>1, <1>3, <2>1
    <2>3. NotYet(s, y, f, job, r, v)
      BY <2>2, NotYetKept
    <2>. QED  BY <1>1, <2>3
  <1>5. ASSUME NEW q \in Roots, ItemStep(q) \/ BeginItemFails(q)
        PROVE  NotYet(s, w', entry'[r], job, r, v)
    <2>1. /\ Releases(r)
          /\ q = r /\ ~SkipItem(q) => Open(entry'[r]) \/ entry'[r].failed
          /\ ~BeginItem(q) => w'.page = Tail(w.page)
          /\ BeginItem(q) => w' = w
          /\ w.pc = "walk" /\ w.page # <<>> /\ Head(w.page).id = q
      BY <1>5, ItemReleases
    <2>2. SameLoop(w, w')
      BY <1>0, <1>5, ItemLoop
    <2>3. /\ SameLoop(w, y)
          /\ y.markFailed \/ ((f.failed => entry[r].failed) /\ (Open(entry[r]) => Open(f)))
      BY <1>3, <2>1, <2>2
    <2>4. r \in IdsIn(w.page) => r \in IdsIn(Tail(w.page)) \/ r = q
      <3>1. w.page \in Seq(Item)
        BY <1>0, WalkFacts DEF TypeOK
      <3>2. Range(w.page) = {Head(w.page)} \cup Range(Tail(w.page))
        BY <2>1, <3>1, TailFacts
      <3>3. \A p : p \in IdsIn(w.page) <=> \E k \in Range(w.page) : k.id = p
        BY DEF IdsIn, Range
      <3>4. \A p : p \in IdsIn(Tail(w.page)) <=> \E k \in Range(Tail(w.page)) : k.id = p
        BY DEF IdsIn, Range
      <3>. QED  BY <2>1, <3>2, <3>3, <3>4
    <2>5. q = r /\ SkipItem(q) => Open(f) \/ f.failed
      <3>1. SUFFICES ASSUME q = r, SkipItem(q)
                     PROVE  Open(entry[r]) \/ entry[r].failed
        <4>1. SkipItem(q) => entry' = entry
          BY DEF SkipItem
        <4>. QED  BY <1>1, <3>1, <4>1
      <3>2. entry[r].tracked
        BY <3>1 DEF SkipItem
      <3>3. ~entry[r].settled
        BY DEF HandInv, InHand
      <3>. QED  BY <3>2, <3>3 DEF Open
    <2>6. ~w.markFailed => ~entry[r].failed
      BY DEF NotYet
    <2>7. y.markFailed \/ (r \in IdsIn(w.page) => r \in IdsIn(y.page) \/ Open(f))
      <3>1. SUFFICES ASSUME ~y.markFailed, r \in IdsIn(w.page), r \notin IdsIn(y.page)
                     PROVE  Open(f)
        OBVIOUS
      <3>2. ~w.markFailed
        BY <2>3, <3>1 DEF SameLoop
      <3>3. ~f.failed
        BY <2>3, <2>6, <3>1, <3>2
      <3>4. q = r
        BY <1>1, <2>1, <2>4, <3>1
      <3>. QED  BY <1>1, <2>1, <2>5, <3>3, <3>4
    <2>8. NotYet(s, y, f, job, r, v)
      BY <2>3, <2>7, NotYetKept
    <2>. QED  BY <1>1, <2>8
  <1>. QED  BY <1>4, <1>5

\* The page loop's steps pass what they hand on.
LEMMA NotYetPages ==
    ASSUME CoreInv, TypeNext, HandInv, OnePlan(used.setup), NEW r \in Roots, NEW v \in Selected,
           NotYet(used.setup, w, entry[r], job, r, v), ~SafeNow(r, v)',
           Execute \/ FlushBeforePlan \/ FetchPage \/ TakePage \/ PageConsumed \/ EndPlan
    PROVE  NotYet(used.setup, w', entry'[r], job', r, v)
  <1>. DEFINE s == used.setup
              e == entry[r]
  <1>0. /\ TypeOK /\ WalkInv /\ Placed(s, w) /\ Cursor(s, w, job) /\ w \in Walk /\ job.latest \in Nat
        /\ s.selected = Selected /\ ~Given(s)
    BY DEF CoreInv, WalkInv, WalkOK, CursorInv, TypeOK, Job, Selected, OnePlan
  <1>1. entry' = entry /\ job' = job /\ has' = has
    BY DEF Execute, FlushBeforePlan, FetchPage, TakePage, PageConsumed, EndPlan, source
  <1>2. w.next \in Nat /\ w.no \in Nat /\ w.completed \in Nat /\ w.inbox \in Seq(Page) /\ w.page \in Seq(Item)
    BY <1>0, WalkFacts
  <1>3. PICK y \in Walk : y = w'
    BY DEF TypeNext
  <1>4. SUFFICES NotYet(s, y, e, job, r, v)
    BY <1>1, <1>3
  <1>5. \A k \in 1 .. job.latest : r \notin Listed(s, v, k)
    BY DEF NotYet
  <1>6. CASE Execute
    <2>1. /\ w.pc = "plan" /\ SameHands(w, y) /\ y.next = w.next /\ y.completed = w.completed
      BY <1>0, <1>3, <1>6, ExecuteWalk
    <2>2. At(w) = "plan"
      BY <2>1 DEF At, Flusher, Applying
    <2>3. w.left # {}
      BY <1>0, <2>2 DEF Placed
    <2>4. w.next <= job.latest + 1
      BY <1>0, <2>2, <2>3 DEF Cursor
    <2>5. \A k \in 1 .. y.next - 1 : k \in 1 .. job.latest
      BY <1>0, <1>2, <2>1, <2>4
    <2>6. y.markFailed = w.markFailed
      BY <2>1 DEF SameHands
    <2>. QED  BY <1>5, <2>1, <2>5, <2>6 DEF NotYet
  <1>7. CASE FlushBeforePlan
    <2>1. y = Flushing(w, "plan") /\ w.pc = "plan"
      BY <1>3, <1>7 DEF FlushBeforePlan
    <2>2. SameLoop(w, y)
      BY <1>0, <2>1, FlushLoop
    <2>3. y.page = w.page
      BY <1>0, <2>1, FlushingFacts
    <2>. QED  BY <2>2, <2>3, NotYetKept
  <1>8. CASE EndPlan
    <2>1. y.start = 0 /\ y.completed = w.completed /\ SameHands(w, y)
      BY <1>0, <1>3, <1>8, EndWalk
    <2>2. y.markFailed = w.markFailed
      BY <2>1 DEF SameHands
    <2>. QED  BY <2>1, <2>2 DEF NotYet
  <1>9. CASE FetchPage
    <2>1. /\ w.start # 0 /\ w.next \in 1 .. Len(Pages[Plan])
          /\ y.start = w.start /\ SameHands(w, y)
          /\ y.next = w.next + 1 /\ y.no = w.no /\ y.page = w.page
          /\ y.completed = w.completed
      BY <1>0, <1>3, <1>9, FetchWalk
    <2>2. PICK p \in Page : /\ y.inbox = Append(w.inbox, p) /\ p.no = w.next
                            /\ \A q \in Range(Pages[Plan][w.next]) : q \in IdsIn(p.items) \/ Plan \notin has[q]
      BY <1>0, <1>3, <1>9, FetchWalk
    <2>3. Range(y.inbox) = Range(w.inbox) \cup {p}
      BY <1>2, <2>2, AppendFacts
    <2>4. Plan = v /\ Pages[Plan] = s.pages[v]
      <3>1. Plan \in Selected /\ Pages[Plan] = s.pages[Plan]
        BY <1>0, <2>1, PlanFacts
      <3>2. PICK u \in Selected : Selected = {u}
        BY <1>0, OnePlanFacts
      <3>. QED  BY <3>1, <3>2
    <2>5. v \in has[r]
      BY <1>1 DEF SafeNow
    <2>6. r \in Listed(s, v, w.next) => r \in IdsIn(p.items)
      BY <2>2, <2>4, <2>5 DEF Listed
    <2>7. y.markFailed = w.markFailed
      BY <2>1 DEF SameHands
    <2>8. ASSUME ~w.markFailed, NEW k \in 1 .. y.next - 1, r \in Listed(s, v, k)
          PROVE  \/ Open(e)
                 \/ y.no = k /\ r \in IdsIn(y.page)
                 \/ \E g \in Range(y.inbox) : g.no = k /\ r \in IdsIn(g.items)
      <3>1. CASE k = w.next
        <4>1. p \in Range(y.inbox) /\ p.no = k /\ r \in IdsIn(p.items)
          BY <2>2, <2>3, <2>6, <2>8, <3>1
        <4>. QED  BY <4>1
      <3>2. CASE k # w.next
        <4>1. k \in 1 .. w.next - 1
          BY <1>2, <2>1, <3>2
        <4>2. \/ Open(e)
              \/ w.no = k /\ r \in IdsIn(w.page)
              \/ \E g \in Range(w.inbox) : g.no = k /\ r \in IdsIn(g.items)
          BY <2>1, <2>8, <4>1 DEF NotYet
        <4>. QED  BY <2>1, <2>3, <4>2
      <3>. QED  BY <3>1, <3>2
    <2>. QED  BY <2>1, <2>7, <2>8 DEF NotYet
  <1>10. CASE TakePage
    <2>1. /\ w.pc = "walk" /\ w.no = 0 /\ w.inbox # <<>> /\ y.start = w.start /\ SameHands(w, y)
          /\ y.next = w.next /\ y.completed = w.completed
          /\ y.inbox = Tail(w.inbox) /\ y.no = Head(w.inbox).no /\ y.page = Head(w.inbox).items
      BY <1>0, <1>3, <1>10, TakeWalk
    <2>2. Range(w.inbox) = {Head(w.inbox)} \cup Range(Tail(w.inbox))
      BY <1>2, <2>1, TailFacts
    <2>3. y.markFailed = w.markFailed
      BY <2>1 DEF SameHands
    <2>4. ASSUME ~w.markFailed, y.start # 0, NEW k \in 1 .. y.next - 1, r \in Listed(s, v, k)
          PROVE  \/ Open(e)
                 \/ y.no = k /\ r \in IdsIn(y.page)
                 \/ \E g \in Range(y.inbox) : g.no = k /\ r \in IdsIn(g.items)
      <3>1. \/ Open(e)
            \/ w.no = k /\ r \in IdsIn(w.page)
            \/ \E g \in Range(w.inbox) : g.no = k /\ r \in IdsIn(g.items)
        BY <2>1, <2>4 DEF NotYet
      <3>2. w.no # k
        BY <2>1
      <3>. QED  BY <2>1, <2>2, <3>1, <3>2
    <2>. QED  BY <2>1, <2>3, <2>4 DEF NotYet
  <1>11. CASE PageConsumed
    <2>1. PICK z \in Walk :
              /\ y = Flushing(z, "walk") \/ y = z
              /\ w.pc = "walk" /\ z.pc = "walk" /\ w.no # 0 /\ w.page = <<>> /\ z.no = 0 /\ z.page = <<>>
              /\ z.start = w.start /\ SameHands(w, z) /\ z.left = w.left /\ z.next = w.next /\ z.inbox = w.inbox
              /\ z.completed = w.completed \/ (Resumable /\ z.completed = w.no)
      BY <1>0, <1>3, <1>11, ConsumeWalk
    <2>2. z.markFailed = w.markFailed
      BY <2>1 DEF SameHands
    <2>3. At(w) = "walk" /\ w.start # 0 /\ w.left # {}
      BY <1>0, <2>1 DEF Placed, At, Flusher, Applying
    <2>4. w.no < w.next /\ \A p \in Range(w.inbox) : w.no < p.no
      BY <1>0, <2>1, <2>3 DEF Cursor, Range
    <2>5. r \notin IdsIn(w.page)
      BY <2>1, EmptyFacts
    <2>6. ASSUME ~w.markFailed, NEW k \in 1 .. z.next - 1, r \in Listed(s, v, k)
          PROVE  Open(e) \/ \E g \in Range(z.inbox) : g.no = k /\ r \in IdsIn(g.items)
      BY <2>1, <2>3, <2>5, <2>6 DEF NotYet
    <2>7. ASSUME ~w.markFailed, NEW k \in 1 .. z.completed, r \in Listed(s, v, k)
          PROVE  Open(e)
      <3>1. CASE z.completed = w.completed
        BY <2>7, <3>1 DEF NotYet
      <3>2. CASE z.completed = w.no
        <4>1. k \in 1 .. z.next - 1 /\ k <= w.no
          BY <1>2, <2>1, <2>4, <3>2
        <4>2. \A g \in Range(z.inbox) : g.no # k
          <5>1. \A g \in Range(w.inbox) : g.no \in Nat
            <6>1. \A g \in Range(w.inbox) : g \in Page
              BY <1>2 DEF Range
            <6>2. \A g \in Page : g.no \in Nat
              BY DEF Page
            <6>. QED  BY <6>1, <6>2
          <5>. QED  BY <1>2, <2>1, <2>4, <4>1, <5>1
        <4>. QED  BY <2>6, <2>7, <4>1, <4>2
      <3>. QED  BY <2>1, <3>1, <3>2
    <2>8. NotYet(s, z, e, job, r, v)
      BY <1>5, <2>2, <2>6, <2>7 DEF NotYet
    <2>9. CASE y = Flushing(z, "walk")
      <3>1. SameLoop(z, y)
        BY <2>1, <2>9, FlushLoop
      <3>2. y.page = z.page
        BY <2>9, FlushingFacts
      <3>. QED  BY <2>8, <3>1, <3>2, NotYetKept
    <2>. QED  BY <2>1, <2>8, <2>9
  <1>. QED  BY <1>6, <1>7, <1>8, <1>9, <1>10, <1>11

\* An attempt begins with, and ends as, nothing passed beyond the cursor.
LEMMA NotYetEnds ==
    ASSUME CoreInv, TypeNext, OnePlan(used.setup), NEW r \in Roots, NEW v \in Selected,
           NotYet(used.setup, w, entry[r], job, r, v),
           StartAttempt \/ Finish \/ Crash \/ Abort \/ BulkFails
    PROVE  NotYet(used.setup, w', entry'[r], job', r, v)
  <1>. DEFINE s == used.setup
  <1>0. /\ TypeOK /\ w \in Walk /\ job \in Job /\ job' \in Job
        /\ Handled(s, w, entry[r], docs[r], r) /\ Cursor(s, w, job)
    BY DEF CoreInv, TypeOK, RootInv, RootOK, CursorInv, TypeNext
  <1>1. job.latest \in Nat /\ job'.latest \in Nat /\ job.recorded \in Nat
    BY <1>0 DEF Job
  <1>2. IdleWalk.completed = 0 /\ IdleWalk.start = 0
    BY DEF IdleWalk
  <1>3. ASSUME w'.completed = 0, w'.start = 0, entry'[r] = NoEntry, job'.latest <= job.latest
        PROVE  NotYet(s, w', entry'[r], job', r, v)
    <2>1. PICK y, k : y = w' /\ k = job'
      OBVIOUS
    <2>2. y.completed = 0 /\ y.start = 0 /\ k.latest \in Nat /\ k.latest <= job.latest
      BY <1>1, <1>3, <2>1
    <2>3. NotYet(s, y, NoEntry, k, r, v)
      BY <1>1, <2>2, NotYetNone
    <2>. QED  BY <1>3, <2>1, <2>3
  <1>4. ASSUME Forget, job'.latest = job.latest
        PROVE  NotYet(s, w', entry'[r], job', r, v)
    <2>1. w' = IdleWalk /\ entry'[r] = NoEntry
      BY <1>4 DEF Forget
    <2>2. w'.completed = 0 /\ w'.start = 0 /\ job'.latest <= job.latest
      BY <1>1, <1>2, <1>4, <2>1
    <2>. QED  BY <1>3, <2>1, <2>2
  <1>5. CASE StartAttempt
    <2>1. entry'[r] = NoEntry
      BY <1>0, <1>5 DEF StartAttempt, Handled
    <2>2. w'.completed = 0 /\ w'.start = 0 /\ job'.latest = job.recorded
      BY <1>0, <1>5, StartWalk
    <2>3. job'.latest <= job.latest
      BY <1>0, <1>1, <2>2 DEF Cursor
    <2>. QED  BY <1>3, <2>1, <2>2, <2>3
  <1>6. CASE Crash \/ Abort \/ BulkFails
    <2>1. Forget /\ Retry
      BY <1>6 DEF Crash, Abort, BulkFails, Salvage
    <2>2. job'.latest = job.latest
      BY <1>0, <2>1, RetryTypes
    <2>. QED  BY <1>4, <2>1, <2>2
  <1>7. CASE Finish
    <2>1. CASE w.pending # <<>>
      <3>1. w' = Flushing(w, "finish") /\ w.pc = "finish" /\ entry' = entry /\ job' = job
        BY <1>7, <2>1 DEF Finish
      <3>2. PICK y : y = w'
        OBVIOUS
      <3>3. SameLoop(w, y)
        BY <1>0, <3>1, <3>2, FlushLoop
      <3>4. y.page = w.page
        BY <1>0, <3>1, <3>2, FlushingFacts
      <3>5. NotYet(s, y, entry[r], job, r, v)
        BY <3>3, <3>4, NotYetKept
      <3>. QED  BY <3>1, <3>2, <3>5
    <2>2. CASE w.pending = <<>>
      <3>1. Forget /\ (Retry \/ \E o : job' = [job EXCEPT !.outcome = o])
        BY <1>7, <2>2 DEF Finish
      <3>2. CASE Retry
        <4>1. job'.latest = job.latest
          BY <1>0, <3>2, RetryTypes
        <4>. QED  BY <1>4, <3>1, <4>1
      <3>3. CASE \E o : job' = [job EXCEPT !.outcome = o]
        <4>1. job'.latest = job.latest
          BY <1>0, <3>3 DEF Job
        <4>. QED  BY <1>4, <3>1, <4>1
      <3>. QED  BY <3>1, <3>2, <3>3
    <2>. QED  BY <2>1, <2>2
  <1>. QED  BY <1>5, <1>6, <1>7

\* A boundary is checkpointed when the flush has everything it passed settled.
LEMMA NotYetReturn ==
    ASSUME CoreInv, TypeNext, HandInv, OnePlan(used.setup), NEW r \in Roots, NEW v \in Selected,
           NotYet(used.setup, w, entry[r], job, r, v), FlusherReturns
    PROVE  NotYet(used.setup, w', entry'[r], job', r, v)
  <1>. DEFINE s == used.setup
  <1>0. TypeOK /\ job \in Job /\ job' \in Job
    BY DEF CoreInv, TypeOK, TypeNext
  <1>1. entry' = entry /\ (w.how = "flush" => ~Open(entry[r]))
    BY HandReturn
  <1>2. /\ w'.start = w.start /\ w'.next = w.next /\ w'.inbox = w.inbox /\ w'.no = w.no
        /\ w'.completed = w.completed /\ w'.page = w.page /\ w'.markFailed = w.markFailed
    BY <1>0, ReturnWalk
  <1>3. \A k \in 1 .. job'.latest : r \notin Listed(s, v, k)
    <2>1. CASE Checkpoints
      <3>1. job'.latest = w.completed
        <4>1. PICK n, c : n = w.completed /\ job' = [job EXCEPT !.latest = n, !.recorded = c]
          BY <2>1 DEF FlusherReturns
        <4>. QED  BY <1>0, <4>1 DEF Job
      <3>2. w.how = "flush" /\ ~w.markFailed
        BY <2>1 DEF Checkpoints
      <3>3. \A k \in 1 .. w.completed : r \in Listed(s, v, k) => Open(entry[r])
        BY <3>2 DEF NotYet
      <3>. QED  BY <1>1, <3>1, <3>2, <3>3
    <2>2. CASE ~Checkpoints
      <3>1. job' = job
        BY <2>2 DEF FlusherReturns
      <3>. QED  BY <3>1 DEF NotYet
    <2>. QED  BY <2>1, <2>2
  <1>4. PICK y, j : y = w' /\ j = job'
    OBVIOUS
  <1>5. /\ y.start = w.start /\ y.next = w.next /\ y.inbox = w.inbox /\ y.no = w.no
        /\ y.completed = w.completed /\ y.page = w.page /\ y.markFailed = w.markFailed
        /\ \A k \in 1 .. j.latest : r \notin Listed(s, v, k)
    BY <1>2, <1>3, <1>4
  <1>6. NotYet(s, y, entry[r], j, r, v)
    BY <1>5 DEF NotYet
  <1>. QED  BY <1>1, <1>4, <1>6

\* Every step keeps what is not passed so, or has it applied or marked.
LEMMA PassedStep ==
    ASSUME CoreInv, TypeNext, HandInv, PassedInv, Next
    PROVE  PassedInv'
  <1>. DEFINE s == used.setup
  <1>0. used'.setup = s /\ Roots' = Roots /\ Selected' = Selected /\ TypeOK
    BY DEF TypeNext, Roots, Selected, CoreInv
  <1>1. SUFFICES ASSUME OnePlan(s), NEW r \in Roots, NEW v \in Selected, ~SafeNow(r, v)'
                 PROVE  NotYet(s, w', entry'[r], job', r, v)
    BY <1>0 DEF PassedInv
  <1>2. ~SafeNow(r, v)
    BY <1>1, SafeStep
  <1>3. NotYet(s, w, entry[r], job, r, v)
    BY <1>1, <1>2 DEF PassedInv
  <1>4. CASE Execute \/ FlushBeforePlan \/ FetchPage \/ TakePage \/ PageConsumed \/ EndPlan
    BY <1>1, <1>3, <1>4, NotYetPages
  <1>5. CASE StartAttempt \/ Finish \/ Crash \/ Abort \/ BulkFails
    BY <1>1, <1>3, <1>5, NotYetEnds
  <1>6. CASE BeginBatch \/ BatchFails \/ AskPlans \/ BatchDone \/ EndBatches
    BY <1>1, <1>6, CursorBatch DEF OnePlan, CoreInv
  <1>7. CASE \/ BulkUpsert \/ CountDocs \/ CheckDrift \/ Narrow \/ CheckDriftFails
             \/ \E q \in Roots : \/ SettleStep(q) \/ StoreEdgesFails(q) \/ DropNilsFails(q)
                                 \/ ItemStep(q) \/ BeginItemFails(q)
    <2>1. job' = job
      <3>1. CASE \E q \in Roots : ItemStep(q) \/ BeginItemFails(q)
        BY <3>1, Zenon DEF ItemStep, BeginItem, BeginItemFails, AddDoc, SkipItem, Contradiction, CountNil
      <3>2. CASE \/ BulkUpsert \/ CountDocs \/ CheckDrift \/ Narrow \/ CheckDriftFails
                 \/ \E q \in Roots : SettleStep(q) \/ StoreEdgesFails(q) \/ DropNilsFails(q)
        BY <3>2, Zenon DEF BulkUpsert, CountDocs, CheckDrift, Narrow, CheckDriftFails, SettleStep, StoreEdges,
                           StoreEdgesFails, DropNils, DropNilsFails, LeaveGone, Remark, Complete, FailPartial, RemoveRow
      <3>. QED  BY <1>7, <3>1, <3>2
    <2>2. NotYet(s, w', entry'[r], job, r, v)
      BY <1>1, <1>3, <1>7, NotYetHands
    <2>. QED  BY <2>1, <2>2
  <1>8. CASE FlusherReturns
    BY <1>1, <1>3, <1>8, NotYetReturn
  <1>9. CASE Beat
    <2>1. w' = w /\ entry' = entry /\ job' = [job EXCEPT !.recorded = job.latest] /\ job \in Job
      BY <1>0, <1>9 DEF Beat, TypeOK
    <2>2. job'.latest = job.latest
      BY <2>1 DEF Job
    <2>. QED  BY <1>3, <2>1, <2>2 DEF NotYet
  <1>10. CASE \/ Rest
              \/ \E q \in Roots : ChangeRoot(q) \/ LiveBegin(q) \/ LiveEnd(q)
              \/ \E c \in Kids : ChangeKid(c)
              \/ \E y \in Things : Register(y)
    <2>1. w' = w /\ entry' = entry /\ job' = job
      BY <1>10 DEF Rest, vars, ChangeRoot, LiveBegin, LiveEnd, ChangeKid, Register
    <2>. QED  BY <1>3, <2>1
  <1>. QED  BY <1>4, <1>5, <1>6, <1>7, <1>8, <1>9, <1>10 DEF Next, WalkStep, LoopStep, FlushStep, Failure

-----------------------------------------------------------------------------
(* Nothing before the cursor is left behind *)

SettledInv == CoreInv /\ HandInv /\ PassedInv

\* Before the first attempt nothing is passed.
LEMMA SettledInit ==
    ASSUME Init
    PROVE  SettledInv
  <1>. DEFINE s == used.setup
  <1>1. CoreInv
    BY CoreInit
  <1>2. ~Open(NoEntry) /\ ~NoEntry.settled /\ ~NoEntry.failed
    BY DEF NoEntry, Open
  <1>3. \A r \in Roots : entry[r] = NoEntry
    BY DEF Init
  <1>4. w.completed = 0 /\ w.start = 0
    BY DEF Init, IdleWalk
  <1>5. job.latest = 0
    BY DEF Init
  <1>6. HandInv
    BY <1>2, <1>3, HandShut DEF HandInv
  <1>7. \A k \in 1 .. 0 : FALSE
    OBVIOUS
  <1>8. PassedInv
    BY <1>2, <1>3, <1>4, <1>5, <1>7 DEF PassedInv, NotYet
  <1>. QED  BY <1>1, <1>6, <1>8 DEF SettledInv

\* Every step keeps the invariant.
LEMMA SettledStep ==
    ASSUME SettledInv, [Next]_vars
    PROVE  SettledInv'
  <1>1. CoreInv /\ HandInv /\ PassedInv
    BY DEF SettledInv
  <1>2. CoreInv'
    BY <1>1, CoreStep
  <1>3. CASE Next
    <2>1. TypeNext
      BY <1>1, <1>3, CoreTypes
    <2>2. HandInv' /\ PassedInv'
      BY <1>1, <1>3, <2>1, HandStep, PassedStep
    <2>. QED  BY <1>2, <2>2 DEF SettledInv
  <1>4. CASE UNCHANGED vars
    <2>1. /\ w' = w /\ entry' = entry /\ job' = job /\ docs' = docs /\ has' = has /\ rows' = rows
          /\ live' = live /\ notices' = notices /\ used' = used
      BY <1>4 DEF vars, source, store
    <2>2. HandInv'
      BY <1>1, <2>1 DEF HandInv, Roots
    <2>3. PassedInv'
      BY <1>1, <2>1 DEF PassedInv, SafeNow, Roots, Selected
    <2>. QED  BY <1>2, <2>2, <2>3 DEF SettledInv
  <1>. QED  BY <1>3, <1>4

\* What the cursor has passed is safe, and safe is settled or to be built.
LEMMA SettledFacts ==
    ASSUME SettledInv
    PROVE  CursorSettled
  <1>. DEFINE s == used.setup
  <1>1. CoreInv /\ PassedInv /\ TypeOK /\ IsSetup(s) /\ FreshInv /\ Cursor(s, w, job) /\ job \in Job
    BY SetupFacts DEF SettledInv, CoreInv, CursorInv, TypeOK
  <1>2. SUFFICES ASSUME Resumable, NEW v \in Selected, NEW i \in 1 .. job.recorded,
                        NEW j \in DOMAIN Pages[v][i], NEW r, r = Pages[v][i][j]
                 PROVE  \/ docs[r][v].body # OldBody \/ v \notin has[r]
                        \/ rows[r].stale \/ live[r] # NoLive \/ r \in notices
    BY DEF CursorSettled
  <1>3. OnePlan(s) /\ Selected = s.selected /\ Selected \subseteq s.versions
    BY <1>1, <1>2, StateSets DEF Versions
  <1>4. Pages[v] = s.pages[v] /\ s.pages \in [s.selected -> Seq(Seq(s.roots))] /\ Roots = s.roots
    BY <1>1, <1>3, SetFacts, OnePlanFacts DEF Roots
  <1>5. job.recorded \in Nat /\ job.latest \in Nat
    BY <1>1 DEF Job
  <1>6. Len(s.pages[v]) \in Nat /\ s.pages[v] \in Seq(Seq(s.roots))
    BY <1>3, <1>4
  <1>7. job.recorded <= job.latest /\ job.latest <= Len(s.pages[v])
    BY <1>1, <1>3 DEF Cursor
  <1>8. i \in 1 .. job.latest /\ i \in 1 .. Len(s.pages[v])
    BY <1>5, <1>6, <1>7
  <1>9. s.pages[v][i] \in Seq(s.roots)
    BY <1>6, <1>8
  <1>10. r \in Roots /\ r \in Listed(s, v, i)
    BY <1>2, <1>4, <1>9 DEF Listed, Range
  <1>11. SafeNow(r, v) \/ NotYet(s, w, entry[r], job, r, v)
    BY <1>1, <1>3, <1>10 DEF PassedInv
  <1>12. SafeNow(r, v)
    BY <1>8, <1>10, <1>11 DEF NotYet
  <1>13. docs[r][v].ver > 1 => docs[r][v].body # OldBody
    <2>1. docs[r][v].ver > 1 => New(docs[r][v].body)
      BY <1>1, <1>3, <1>10 DEF FreshInv, Fresh
    <2>2. OldBody.found /\ OldBody.n = 0
      BY DEF OldBody
    <2>. QED  BY <2>1, <2>2 DEF New
  <1>14. live[r].idx # 0 => live[r] # NoLive
    BY DEF NoLive
  <1>. QED  BY <1>12, <1>13, <1>14 DEF SafeNow

\* The invariant holds throughout.
LEMMA SettledAlways == Spec => []SettledInv
  <1>1. Init => SettledInv
    BY SettledInit
  <1>2. SettledInv /\ [Next]_vars => SettledInv'
    BY SettledStep
  <1>. QED  BY <1>1, <1>2, PTL DEF Spec

\* Every root on a page before the cursor Temporal has recorded is applied, or
\* marked, announced or in a live build's hands: a resumed attempt leaves
\* nothing behind, whichever crashes, lost marks and failed flushes came before
\* (src/core/rebuild_flusher.go, afterFlush; src/core/temporal.go).
THEOREM RebuildCursorSettled == Spec => []CursorSettled
  <1>1. SettledInv => CursorSettled
    BY SettledFacts
  <1>. QED  BY <1>1, SettledAlways, PTL

-----------------------------------------------------------------------------
(* A document keeps its row *)

\* Nothing was lost, and what was registered of r is all that happened to it.
Clean == used.crashes = 0 /\ ~used.lost
Calm(r) == Clean /\ r \notin notices /\ r \notin exposed

\* Marks and starts are drawn: a build knows an older mark than its number.
Numbered(r) ==
    /\ rows[r].mark <= seq /\ w.start <= seq
    /\ rows[r].stale => rows[r].mark > 0 /\ rows[r].present
    /\ live[r].idx # 0 => live[r].mark > 0 /\ live[r].mark < live[r].idx
    /\ Open(entry[r]) =>
          /\ entry[r].mark < entry[r].occ /\ entry[r].start <= seq
          /\ w.start # 0 => entry[r].start <= w.start

\* r was marked since the rebuild began it.
Moved(r) == rows[r].mark # entry[r].mark

MarkedSince(r) ==
    Calm(r) /\ Open(entry[r]) =>
        /\ rows[r].present
        /\ Moved(r) => rows[r].mark > entry[r].occ
        /\ live[r].idx > entry[r].occ /\ ~Moved(r) => live[r].mark = entry[r].mark

\* While r is not marked again its live build says what the source does, and a
\* document that is newer is the open rebuild's, or r is not gone.
LiveAgrees(r) ==
    Calm(r) /\ live[r].idx # 0 /\ rows[r].mark = live[r].mark =>
        \A v \in Versions :
            /\ live[r].out[v].found <=> v \in has[r]
            /\ docs[r][v].ver > live[r].idx /\ docs[r][v].body.found =>
                  has[r] # {} \/ (Open(entry[r]) /\ docs[r][v].ver = entry[r].occ)

\* What the walk has fetched of r.
Said(x, r) ==
    {it \in Range(x.page) \cup UNION {Range(p.items) : p \in Range(x.inbox)} : it.id = r}

\* It is what the source says, unless r changed since.
ComingAgrees(r) ==
    Calm(r) /\ (IF Given(used.setup) THEN Open(entry[r]) /\ ~Moved(r) ELSE ~(changed[r] > w.start)) =>
        \A it \in Said(w, r) : it.body.found <=> it.v \in has[r]

Outdated(r) == Moved(r) \/ (~Given(used.setup) /\ changed[r] > entry[r].start)

\* So are the outcomes the rebuild has of an open root, applied or not.
EntryAgrees(r) ==
    Calm(r) /\ Open(entry[r]) /\ ~Outdated(r) =>
        /\ \A v \in entry[r].nils : v \notin has[r]
        /\ \A v \in Queue(w, r) : v \in has[r]
        /\ \A v \in Versions : docs[r][v].body.found =>
              /\ docs[r][v].ver = entry[r].occ => v \in has[r]
              /\ docs[r][v].ver > entry[r].occ => has[r] # {}

\* The drift check misses no root that changed before it.
Drifting == {"narrow", "remark"}

DriftSeen(r) ==
    Calm(r) /\ Open(entry[r]) /\ r \in w.ids /\ w.pc \in Drifting /\ Outdated(r) =>
        r \in w.todo \/ Moved(r)

\* A root is removed by a rebuild of every version only.
RemovesAll == w.how = "remove" => MayDelete

\* A root without a document yet has an outcome less to wait for with each nil.
NilSum(s, e) ==
    Open(e) /\ ~e.partial /\ e.lastDoc = 0 => Cardinality(e.nils) + e.remaining = Cardinality(s.selected)

\* A root without a row has no document and gets none.
GoneRow(r) ==
    Calm(r) /\ ~rows[r].present => \A v \in Versions :
        /\ ~docs[r][v].body.found
        /\ live[r].idx # 0 /\ live[r].out[v].found => docs[r][v].ver > live[r].idx

RowInv(r) ==
    /\ Numbered(r) /\ MarkedSince(r) /\ LiveAgrees(r) /\ ComingAgrees(r) /\ EntryAgrees(r)
    /\ DriftSeen(r) /\ RemovesAll /\ NilSum(used.setup, entry[r]) /\ GoneRow(r)

-----------------------------------------------------------------------------
(* What a step does to a row *)

RowKept(r) ==
    /\ rows'[r].mark = rows[r].mark /\ (rows'[r].stale => rows[r].stale)
    /\ rows[r].present => rows'[r].present

RowMarked(r) == rows'[r].present /\ rows'[r].mark > seq /\ rows'[r].mark <= seq'

\* A live build that found r gone, or the rebuild, removes the row.
RowDropped(r) ==
    /\ rows'[r] = NoRow
    /\ \/ RemoveRow(r) /\ Completable(r) /\ w.how = "remove" /\ ~Moved(r) /\ ~Open(entry'[r])
       \/ /\ LiveEnd(r) /\ rows[r].mark = live[r].mark
          /\ \A v \in Versions : ~live[r].out[v].found
          /\ Fetched(r) => r \in exposed'

RowTo(r) == RowKept(r) \/ RowMarked(r) \/ RowDropped(r)

\* Marks are newer than what was drawn before.
LEMMA MarkNumbers ==
    ASSUME TypeOK, NEW S \in SUBSET Roots, NEW r \in S
    PROVE  /\ MarkedRows(S)[r].present /\ MarkedRows(S)[r].mark > seq
           /\ MarkedRows(S)[r].mark <= seq + Cardinality(S)
  <1>1. S \in SUBSET Nat /\ IsFiniteSet(S) /\ Cardinality(S) \in Nat /\ seq \in Nat
    BY StateSets DEF TypeOK
  <1>2. Nth(S, r) \in 1 .. Cardinality(S)
    BY <1>1, NthFacts
  <1>3. PICK n \in Nat : n = Nth(S, r)
    BY <1>1, <1>2
  <1>4. MarkedRows(S)[r] = [present |-> TRUE, stale |-> TRUE, mark |-> seq + n]
    BY <1>3 DEF MarkedRows, MarkAt
  <1>. QED  BY <1>1, <1>2, <1>3, <1>4

\* The rows a set of marks leaves.
LEMMA MarkRow ==
    ASSUME TypeOK, NEW S \in SUBSET Roots, rows' = MarkedRows(S), seq' = seq + Cardinality(S), NEW r \in Roots
    PROVE  IF r \in S THEN RowMarked(r) ELSE rows'[r] = rows[r]
  <1>1. CASE r \in S
    BY <1>1, MarkNumbers DEF RowMarked
  <1>2. CASE r \notin S
    BY <1>2, MarkFacts
  <1>. QED  BY <1>1, <1>2

\* fail marks each of its roots, or a mark is lost.
LEMMA FailRow ==
    ASSUME TypeOK, NEW S \in SUBSET Roots, NEW base, NEW next, NEW cost, Fail(S, base, next, cost),
           NEW r \in Roots
    PROVE  /\ rows'[r] = rows[r] \/ RowMarked(r)
           /\ r \in S => RowMarked(r) \/ ~Clean'
           /\ r \notin S => rows'[r] = rows[r]
           /\ Clean' => Clean
  <1>1. PICK lost \in SUBSET S :
          /\ rows' = MarkedRows(S \ lost) /\ seq' = seq + Cardinality(S \ lost)
          /\ used' = [used EXCEPT !.errors = @ + cost + Cardinality(lost), !.lost = @ \/ lost # {}]
    BY DEF Fail
  <1>2. S \ lost \in SUBSET Roots /\ used \in Used
    BY DEF TypeOK
  <1>3. IF r \in S \ lost THEN RowMarked(r) ELSE rows'[r] = rows[r]
    BY <1>1, <1>2, MarkRow
  <1>4. used'.lost = (used.lost \/ lost # {}) /\ used'.crashes = used.crashes
    BY <1>1, <1>2 DEF Used
  <1>. QED  BY <1>3, <1>4 DEF Clean

\* salvage marks the open roots, or its marks are lost.
LEMMA SalvageRow ==
    ASSUME TypeOK, NEW cost, Salvage(cost), NEW r \in Roots
    PROVE  /\ rows'[r] = rows[r] \/ RowMarked(r)
           /\ Open(entry[r]) => RowMarked(r) \/ ~Clean'
           /\ Clean' => Clean
           /\ ~Open(entry'[r])
  <1>. DEFINE S == {q \in Roots : Unsettled(q)}
  <1>1. /\ \/ /\ rows' = MarkedRows(S) /\ seq' = seq + Cardinality(S)
              /\ used' = [used EXCEPT !.errors = @ + cost]
           \/ /\ used' = [used EXCEPT !.errors = @ + cost + 1, !.lost = TRUE]
              /\ rows' = rows
        /\ Forget
    BY DEF Salvage
  <1>2. S \in SUBSET Roots /\ used \in Used /\ (r \in S <=> Open(entry[r]))
    BY DEF TypeOK, Unsettled, Open
  <1>. HIDE DEF S
  <1>3. ~Open(entry'[r])
    BY <1>1, EntryTypes DEF Forget
  <1>4. CASE rows' = MarkedRows(S) /\ seq' = seq + Cardinality(S) /\ used' = [used EXCEPT !.errors = @ + cost]
    <2>1. IF r \in S THEN RowMarked(r) ELSE rows'[r] = rows[r]
      BY <1>2, <1>4, MarkRow
    <2>2. used'.lost = used.lost /\ used'.crashes = used.crashes
      BY <1>2, <1>4 DEF Used
    <2>. QED  BY <1>2, <1>3, <2>1, <2>2 DEF Clean
  <1>5. CASE used' = [used EXCEPT !.errors = @ + cost + 1, !.lost = TRUE] /\ rows' = rows
    <2>1. used'.lost
      BY <1>2, <1>5 DEF Used
    <2>. QED  BY <1>3, <1>5, <2>1 DEF Clean
  <1>. QED  BY <1>1, <1>4, <1>5

\* A registration marks its root and the roots with an edge to it.
LEMMA RegisterRow ==
    ASSUME TypeOK, NEW y \in Things, Register(y), NEW r \in Roots
    PROVE  /\ rows'[r] = rows[r] \/ RowMarked(r)
           /\ y = r => RowMarked(r)
  <1>. DEFINE parents == {q \in Roots : \E v \in Versions : y \in edges[q][v].kids}
  <1>1. /\ rows'[r] = IF r \in {y} \cap Roots THEN MarkAt(seq + 1)
                      ELSE IF r \in parents THEN MarkAt(seq + 1 + Nth(parents, r)) ELSE rows[r]
        /\ seq' = seq + 1 + Cardinality(parents)
    BY Zenon DEF Register
  <1>2. parents \in SUBSET Roots
    OBVIOUS
  <1>. HIDE DEF parents
  <1>3. parents \in SUBSET Nat /\ IsFiniteSet(parents) /\ Cardinality(parents) \in Nat /\ seq \in Nat
    BY <1>2, StateSets DEF TypeOK
  <1>4. CASE r = y
    <2>1. rows'[r] = [present |-> TRUE, stale |-> TRUE, mark |-> seq + 1]
      BY <1>1, <1>4 DEF MarkAt
    <2>. QED  BY <1>1, <1>3, <2>1 DEF RowMarked
  <1>5. CASE r # y /\ r \in parents
    <2>1. Nth(parents, r) \in 1 .. Cardinality(parents)
      BY <1>3, <1>5, NthFacts
    <2>2. PICK n \in Nat : n = Nth(parents, r)
      BY <2>1
    <2>3. rows'[r] = [present |-> TRUE, stale |-> TRUE, mark |-> seq + 1 + n]
      BY <1>1, <1>5, <2>2 DEF MarkAt
    <2>. QED  BY <1>1, <1>3, <1>5, <2>1, <2>2, <2>3 DEF RowMarked
  <1>6. CASE r # y /\ r \notin parents
    BY <1>1, <1>6
  <1>. QED  BY <1>4, <1>5, <1>6

\* What the end of a live build does to the row.
LEMMA LiveEndRow ==
    ASSUME CoreInv, NEW r \in Roots, LiveEnd(r), TypeNext
    PROVE  RowTo(r)
  <1>. DEFINE gone == \A v \in Versions : ~live[r].out[v].found
              drifted == ~gone /\ \E c \in Kids : changed[c] > live[r].idx
              drops == gone /\ DropsRow(rows[r], live[r].mark)
  <1>0. rows \in [Roots -> Row] /\ rows[r] \in Row /\ seq \in Nat
    BY TypeFacts DEF CoreInv, TypeNow
  <1>1. rows' = [rows EXCEPT ![r] =
             IF drops THEN NoRow ELSE IF drifted THEN MarkAt(seq + 1)
             ELSE IF gone \/ ~@.present THEN @ ELSE ClearedRow(@, live[r].mark)]
    BY Zenon DEF LiveEnd
  <1>2. exposed' = IF drops /\ Fetched(r) THEN exposed \cup {r} ELSE exposed
    BY Zenon DEF LiveEnd
  <1>3. seq' = IF drifted THEN seq + 1 ELSE seq
    BY Zenon DEF LiveEnd
  <1>4. drops => rows[r].mark = live[r].mark /\ gone
    BY DEF DropsRow
  <1>5. rows'[r] = IF drops THEN NoRow ELSE IF drifted THEN MarkAt(seq + 1)
                   ELSE IF gone \/ ~rows[r].present THEN rows[r] ELSE ClearedRow(rows[r], live[r].mark)
    BY <1>0, <1>1
  <1>6. CASE drops
    <2>1. rows'[r] = NoRow /\ rows[r].mark = live[r].mark /\ gone /\ (Fetched(r) => r \in exposed')
      BY <1>2, <1>4, <1>5, <1>6
    <2>. QED  BY <2>1 DEF RowTo, RowDropped
  <1>. HIDE DEF drops, drifted, gone
  <1>7. CASE ~drops /\ drifted
    <2>1. rows'[r] = [present |-> TRUE, stale |-> TRUE, mark |-> seq + 1] /\ seq' = seq + 1
      BY <1>3, <1>5, <1>7 DEF MarkAt
    <2>. QED  BY <1>0, <2>1 DEF RowTo, RowMarked
  <1>8. CASE ~drops /\ ~drifted
    <2>1. rows'[r] = rows[r] \/ rows'[r] = [rows[r] EXCEPT !.stale = FALSE]
      BY <1>5, <1>8 DEF ClearedRow
    <2>2. RowKept(r)
      BY <1>0, <2>1 DEF RowKept, Row
    <2>. QED  BY <2>2 DEF RowTo
  <1>. QED  BY <1>6, <1>7, <1>8

\* What every step does to a row.
LEMMA RowMoves ==
    ASSUME CoreInv, Next, NEW r \in Roots
    PROVE  RowTo(r)
  <1>0. TypeOK /\ TypeNext /\ WalkInv /\ rows \in [Roots -> Row] /\ seq \in Nat /\ Placed(used.setup, w)
    BY TypeFacts, CoreTypes DEF CoreInv, TypeNow, WalkInv, WalkOK
  <1>1. CASE rows'[r] = rows[r]
    BY <1>1 DEF RowTo, RowKept
  <1>2. CASE RowMarked(r)
    BY <1>2 DEF RowTo
  <1>3. CASE rows'[r] = [rows[r] EXCEPT !.present = TRUE]
    <2>1. rows[r] \in Row
      BY <1>0
    <2>2. RowKept(r)
      BY <1>3, <2>1 DEF RowKept, Row
    <2>. QED  BY <2>2 DEF RowTo
  <1>4. CASE \/ StartAttempt \/ Execute \/ FlushBeforePlan \/ FetchPage \/ TakePage \/ PageConsumed \/ EndPlan
             \/ BatchDone \/ EndBatches
    BY <1>1, <1>4 DEF StartAttempt, Execute, FlushBeforePlan, FetchPage, TakePage, PageConsumed, EndPlan,
                      BatchDone, EndBatches, store
  <1>5. CASE BeginBatch
    <2>1. rows'[r] = rows[r] \/ rows'[r] = [rows[r] EXCEPT !.present = TRUE]
      BY <1>5, Zenon DEF BeginBatch
    <2>. QED  BY <1>1, <1>3, <2>1
  <1>6. ASSUME NEW S \in SUBSET Roots, NEW base, NEW next, NEW cost, Fail(S, base, next, cost)
        PROVE  RowTo(r)
    BY <1>0, <1>1, <1>2, <1>6, FailRow
  <1>7. CASE BatchFails
    <2>1. Batch \in SUBSET Roots
      BY <1>0, <1>7, BatchIds DEF BatchFails
    <2>. QED  BY <1>6, <1>7, <2>1 DEF BatchFails
  <1>8. CASE AskPlans
    <2>1. w.next <= Len(Batches)
      BY <1>0, <1>8 DEF Placed, At, Flusher, Applying, AskPlans, Batches, Given
    <2>2. Batch \in SUBSET Roots
      BY <1>0, <2>1, BatchIds
    <2>3. PICK errs \in SUBSET Batch :
            Fail(errs, entry, [w EXCEPT !.pc = "walk", !.page = BatchItems(Batch \ errs)], Cardinality(errs))
      BY <1>8 DEF AskPlans, BatchItems
    <2>4. errs \in SUBSET Roots
      BY <2>2
    <2>. QED  BY <1>6, <2>3, <2>4
  <1>9. CASE Finish
    <2>. DEFINE S == {q \in Roots : Unsettled(q)}
    <2>1. rows' = rows \/ \E lost \in SUBSET S : rows' = MarkedRows(S \ lost) /\ seq' = seq + Cardinality(S \ lost)
      BY <1>9 DEF Finish
    <2>2. ASSUME NEW lost \in SUBSET S, rows' = MarkedRows(S \ lost), seq' = seq + Cardinality(S \ lost)
          PROVE  RowTo(r)
      <3>1. S \ lost \in SUBSET Roots
        OBVIOUS
      <3>. QED  BY <1>0, <1>1, <1>2, <2>2, <3>1, MarkRow
    <2>. QED  BY <1>1, <2>1, <2>2
  <1>10. ASSUME NEW q \in Roots, ItemStep(q) \/ BeginItemFails(q)
         PROVE  RowTo(r)
    <2>0. {q} \in SUBSET Roots
      OBVIOUS
    <2>1. CASE BeginItem(q)
      <3>1. rows' = [rows EXCEPT ![q].present = TRUE]
        BY <2>1 DEF BeginItem
      <3>2. rows'[r] = rows[r] \/ rows'[r] = [rows[r] EXCEPT !.present = TRUE]
        BY <1>0, <3>1
      <3>. QED  BY <1>1, <1>3, <3>2
    <2>2. CASE AddDoc(q) \/ SkipItem(q)
      BY <1>1, <2>2 DEF AddDoc, SkipItem, store
    <2>3. CASE BeginItemFails(q) \/ Contradiction(q)
      BY <1>6, <2>0, <2>3 DEF BeginItemFails, Contradiction
    <2>4. CASE CountNil(q)
      <3>1. rows' = rows \/ \E base, next, cost : Fail({q}, base, next, cost)
        BY <2>4, Zenon DEF CountNil
      <3>. QED  BY <1>1, <1>6, <2>0, <3>1
    <2>. QED  BY <1>10, <2>1, <2>2, <2>3, <2>4 DEF ItemStep
  <1>11. CASE BulkUpsert \/ CheckDrift \/ Narrow \/ CheckDriftFails \/ FlusherReturns
    <2>1. rows' = rows
      BY <1>11, Zenon DEF BulkUpsert, CheckDrift, Narrow, CheckDriftFails, FlusherReturns, store
    <2>. QED  BY <1>1, <2>1
  <1>12. CASE CountDocs
    <2>1. PICK R \in SUBSET Roots, base \in [Roots -> Entry], T \in SUBSET Roots, y \in Walk : CountsTo(R, base, T, y)
      BY <1>0, <1>12, CountFacts
    <2>2. Fail(R, base, y, 0)
      BY <2>1 DEF CountsTo
    <2>. QED  BY <1>6, <2>2
  <1>13. ASSUME NEW q \in Roots, SettleStep(q) \/ StoreEdgesFails(q) \/ DropNilsFails(q)
         PROVE  RowTo(r)
    <2>0. {q} \in SUBSET Roots /\ Cardinality({q}) = 1
      BY FS_Singleton
    <2>1. CASE rows' = MarkedRows({q}) /\ seq' = seq + 1
      BY <1>0, <1>1, <1>2, <2>0, <2>1, MarkRow
    <2>2. CASE StoreEdges(q) \/ DropNils(q)
      BY <1>1, <2>2 DEF StoreEdges, DropNils
    <2>3. CASE LeaveGone(q) \/ Remark(q) \/ FailPartial(q) \/ StoreEdgesFails(q) \/ DropNilsFails(q)
      BY <1>6, <2>0, <2>1, <2>3 DEF LeaveGone, Remark, FailPartial, StoreEdgesFails, DropNilsFails
    <2>4. CASE Complete(q)
      <3>1. rows' = rows \/ rows' = [rows EXCEPT ![q] = IF @.present THEN ClearedRow(@, entry[q].mark) ELSE @]
        BY <2>4 DEF Complete
      <3>2. rows'[r] = rows[r] \/ rows'[r] = ClearedRow(rows[r], entry[q].mark)
        BY <1>0, <3>1
      <3>3. rows'[r] = rows[r] \/ rows'[r] = [rows[r] EXCEPT !.stale = FALSE]
        BY <3>2 DEF ClearedRow
      <3>4. rows[r] \in Row
        BY <1>0
      <3>5. RowKept(r)
        BY <3>3, <3>4 DEF RowKept, Row
      <3>. QED  BY <3>5 DEF RowTo
    <2>5. CASE RemoveRow(q)
      <3>1. CASE Fail({q}, entry, w, 1)
        BY <1>6, <2>0, <3>1
      <3>2. CASE rows' = rows
        BY <1>1, <3>2
      <3>3. CASE ~Fail({q}, entry, w, 1) /\ rows' # rows
        <4>1. /\ rows' = [rows EXCEPT ![q] = NoRow] /\ DropsRow(rows[q], entry[q].mark) /\ Settle(q)
              /\ Completable(q) /\ w.how = "remove"
          BY <2>5, <3>3 DEF RemoveRow
        <4>2. CASE q # r
          <5>1. rows'[r] = rows[r]
            BY <1>0, <4>1, <4>2
          <5>. QED  BY <1>1, <5>1
        <4>3. CASE q = r
          <5>1. rows'[r] = NoRow
            BY <1>0, <4>1, <4>3
          <5>2. ~Moved(r)
            BY <4>1, <4>3 DEF DropsRow, Moved
          <5>3. ~Open(entry'[r])
            BY <1>0, <4>1, <4>3, SettleFacts, EntryTypes DEF Open
          <5>. QED  BY <2>5, <4>1, <4>3, <5>1, <5>2, <5>3 DEF RowTo, RowDropped
        <4>. QED  BY <4>2, <4>3
      <3>. QED  BY <3>1, <3>2, <3>3
    <2>. QED  BY <1>13, <2>2, <2>3, <2>4, <2>5 DEF SettleStep
  <1>14. CASE Abort \/ Crash \/ BulkFails
    <2>1. rows' = rows \/ \E cost : Salvage(cost)
      BY <1>14 DEF Abort, Crash, BulkFails, store
    <2>. QED  BY <1>0, <1>1, <1>2, <2>1, SalvageRow
  <1>15. CASE \/ Beat \/ Rest \/ \E q \in Roots : ChangeRoot(q) \/ LiveBegin(q)
              \/ \E c \in Kids : ChangeKid(c)
    BY <1>1, <1>15 DEF Beat, Rest, vars, store, ChangeRoot, LiveBegin, ChangeKid
  <1>16. ASSUME NEW q \in Roots, LiveEnd(q)
         PROVE  RowTo(r)
    <2>1. CASE q = r
      BY <1>0, <1>16, <2>1, LiveEndRow
    <2>2. CASE q # r
      <3>1. PICK row : rows' = [rows EXCEPT ![q] = row]
        BY <1>16, Zenon DEF LiveEnd
      <3>2. rows'[r] = rows[r]
        BY <1>0, <2>2, <3>1
      <3>. QED  BY <1>1, <3>2
    <2>. QED  BY <2>1, <2>2
  <1>17. ASSUME NEW y \in Things, Register(y)
         PROVE  RowTo(r)
    BY <1>0, <1>1, <1>2, <1>17, RegisterRow
  <1>. QED  BY <1>4, <1>5, <1>7, <1>8, <1>9, <1>10, <1>11, <1>12, <1>13, <1>14, <1>15, <1>16, <1>17
            DEF Next, WalkStep, LoopStep, FlushStep, Failure

-----------------------------------------------------------------------------
(* What a step does to what is known of a root *)

\* What is lost stays lost.
LEMMA CleanStep ==
    ASSUME CoreInv, Next, Clean'
    PROVE  Clean
  <1>1. TypeOK /\ TypeNext /\ WalkInv /\ used \in Used /\ Placed(used.setup, w)
    BY CoreTypes DEF CoreInv, TypeOK, WalkInv, WalkOK
  <1>2. CASE used' = used
    BY <1>2 DEF Clean
  <1>3. ASSUME NEW n, used' = [used EXCEPT !.errors = n] \/ used' = [used EXCEPT !.changes = n]
        PROVE  Clean
    <2>1. used'.lost = used.lost /\ used'.crashes = used.crashes
      BY <1>1, <1>3 DEF Used
    <2>. QED  BY <2>1 DEF Clean
  <1>4. ASSUME NEW S, NEW base, NEW next, NEW cost, Fail(S, base, next, cost)
        PROVE  Clean
    <2>1. PICK n, b : used' = [used EXCEPT !.errors = n, !.lost = @ \/ b]
      BY <1>4 DEF Fail
    <2>2. used'.lost = (used.lost \/ b) /\ used'.crashes = used.crashes
      BY <1>1, <2>1 DEF Used
    <2>. QED  BY <2>2 DEF Clean
  <1>5. ASSUME NEW cost, Salvage(cost)
        PROVE  Clean
    <2>1. \/ \E n : used' = [used EXCEPT !.errors = n]
          \/ \E n : used' = [used EXCEPT !.errors = n, !.lost = TRUE]
      BY <1>5 DEF Salvage
    <2>2. CASE \E n : used' = [used EXCEPT !.errors = n, !.lost = TRUE]
      <3>1. used'.lost
        BY <1>1, <2>2 DEF Used
      <3>. QED  BY <3>1 DEF Clean
    <2>. QED  BY <1>3, <2>1, <2>2
  <1>6. CASE LoopStep
    <2>1. CASE AskPlans
      BY <1>4, <2>1 DEF AskPlans
    <2>2. CASE Finish
      <3>1. used' = used \/ \E n, b : used' = [used EXCEPT !.errors = n, !.lost = @ \/ b]
        BY <2>2 DEF Finish
      <3>2. ASSUME NEW n, NEW b, used' = [used EXCEPT !.errors = n, !.lost = @ \/ b]
            PROVE  Clean
        <4>1. used'.lost = (used.lost \/ b) /\ used'.crashes = used.crashes
          BY <1>1, <3>2 DEF Used
        <4>. QED  BY <4>1 DEF Clean
      <3>. QED  BY <1>2, <3>1, <3>2
    <2>. QED  BY <1>2, <1>6, <2>1, <2>2
              DEF LoopStep, StartAttempt, Execute, FlushBeforePlan, FetchPage, TakePage, PageConsumed, EndPlan,
                  BeginBatch, BatchDone, EndBatches
  <1>7. CASE BulkUpsert \/ CheckDriftFails \/ Narrow
    <2>1. \E n : used' = [used EXCEPT !.errors = n]
      BY <1>7, Zenon DEF BulkUpsert, CheckDriftFails, Narrow, Spend
    <2>. QED  BY <1>3, <2>1
  <1>8. CASE CheckDrift \/ FlusherReturns
    <2>1. used' = used
      BY <1>8, Zenon DEF CheckDrift, FlusherReturns
    <2>. QED  BY <1>2, <2>1
  <1>9. CASE CountDocs
    BY <1>4, <1>9 DEF CountDocs
  <1>10. ASSUME NEW q \in Roots, ItemStep(q) \/ BeginItemFails(q)
         PROVE  Clean
    <2>1. used' = used \/ \E S, base, next, cost : Fail(S, base, next, cost)
      BY <1>10, Zenon DEF ItemStep, BeginItem, BeginItemFails, AddDoc, SkipItem, Contradiction, CountNil
    <2>. QED  BY <1>2, <1>4, <2>1
  <1>11. ASSUME NEW q \in Roots, SettleStep(q) \/ StoreEdgesFails(q) \/ DropNilsFails(q)
         PROVE  Clean
    <2>1. CASE Complete(q)
      <3>1. used' = used \/ \E n : used' = [used EXCEPT !.errors = n]
        BY <2>1 DEF Complete, Spend
      <3>. QED  BY <1>2, <1>3, <3>1
    <2>2. CASE ~Complete(q)
      <3>1. used' = used \/ \E S, base, next, cost : Fail(S, base, next, cost)
        BY <1>11, <2>2, Zenon DEF SettleStep, StoreEdges, StoreEdgesFails, DropNils, DropNilsFails, LeaveGone,
                                  Remark, FailPartial, RemoveRow
      <3>. QED  BY <1>2, <1>4, <3>1
    <2>. QED  BY <2>1, <2>2
  <1>12. CASE Abort \/ BulkFails
    BY <1>5, <1>12 DEF Abort, BulkFails
  <1>13. CASE BatchFails
    BY <1>4, <1>13 DEF BatchFails
  <1>14. CASE Crash
    <2>1. used' = [used EXCEPT !.crashes = used.crashes + 1]
      BY <1>14 DEF Crash, Spend
    <2>2. used'.crashes = used.crashes + 1 /\ used.crashes \in 0 .. MaxCrashes
      BY <1>1, <2>1 DEF Used
    <2>3. MaxCrashes \in Nat
      BY <1>1, SetupFacts DEF MaxCrashes, IsSetup
    <2>. QED  BY <2>2, <2>3 DEF Clean
  <1>15. CASE \/ \E q \in Roots : ChangeRoot(q)
              \/ \E c \in Kids : ChangeKid(c)
    <2>1. \E n : used' = [used EXCEPT !.changes = n]
      BY <1>15 DEF ChangeRoot, ChangeKid, Spend
    <2>. QED  BY <1>3, <2>1
  <1>16. CASE Beat \/ Rest \/ (\E q \in Roots : LiveBegin(q) \/ LiveEnd(q)) \/ \E y \in Things : Register(y)
    BY <1>2, <1>16 DEF Beat, Rest, vars, LiveBegin, LiveEnd, Register
  <1>. QED  BY <1>6, <1>7, <1>8, <1>9, <1>10, <1>11, <1>12, <1>13, <1>14, <1>15, <1>16
            DEF Next, WalkStep, FlushStep, Failure

\* A root is calm after a step when it was before and its source is the same,
\* or its change has just been registered.
CalmTo(r) ==
    /\ has'[r] = has[r]
    /\ Calm(r) \/ (Register(r) /\ RowMarked(r))
    /\ changed'[r] = changed[r] \/ (Register(r) /\ changed'[r] = seq + 1) \/ (RowDropped(r) /\ changed'[r] = 0)

\* The walk's steps, but for the removal of a row, leave the source, its
\* registrations and the history alone.
LEMMA WalkSource ==
    ASSUME WalkStep \/ Failure \/ Beat, \A q \in Roots : ~RemoveRow(q)
    PROVE  has' = has /\ notices' = notices /\ exposed' = exposed /\ changed' = changed
  <1>1. CASE LoopStep
    BY <1>1 DEF LoopStep, StartAttempt, Execute, FlushBeforePlan, FetchPage, TakePage, PageConsumed, EndPlan,
                BeginBatch, AskPlans, BatchDone, EndBatches, Finish, source, store
  <1>2. CASE FlushStep \/ CheckDriftFails
    BY <1>2, Zenon DEF FlushStep, BulkUpsert, CountDocs, CheckDrift, Narrow, FlusherReturns, CheckDriftFails,
                       source, store
  <1>3. ASSUME NEW q \in Roots, ItemStep(q) \/ BeginItemFails(q)
        PROVE  has' = has /\ notices' = notices /\ exposed' = exposed /\ changed' = changed
    BY <1>3, Zenon DEF ItemStep, BeginItem, BeginItemFails, AddDoc, SkipItem, Contradiction, CountNil, source, store
  <1>4. ASSUME NEW q \in Roots, SettleStep(q) \/ StoreEdgesFails(q) \/ DropNilsFails(q)
        PROVE  has' = has /\ notices' = notices /\ exposed' = exposed /\ changed' = changed
    BY <1>4, Zenon DEF SettleStep, StoreEdges, StoreEdgesFails, DropNils, DropNilsFails, LeaveGone,
                       Remark, FailPartial, Complete, source, store
  <1>5. CASE Abort \/ Crash \/ BatchFails \/ BulkFails \/ Beat
    BY <1>5 DEF Abort, Crash, BatchFails, BulkFails, Beat, source, store
  <1>. QED  BY <1>1, <1>2, <1>3, <1>4, <1>5 DEF WalkStep, Failure

\* What every step does to a root that is calm after it.
LEMMA CalmMoves ==
    ASSUME CoreInv, Next, NEW r \in Roots, Calm(r)'
    PROVE  CalmTo(r)
  <1>0. TypeOK /\ TypeNext /\ Clean /\ r \in Things /\ changed \in [Things -> Nat] /\ has \in [Roots -> SUBSET Versions]
    BY CoreTypes, CleanStep DEF CoreInv, TypeOK, Calm, Clean, Things
  <1>1. r \notin notices' /\ r \notin exposed'
    BY DEF Calm
  <1>2. CASE has'[r] = has[r] /\ r \notin notices /\ r \notin exposed /\ changed'[r] = changed[r]
    BY <1>0, <1>2 DEF CalmTo, Calm
  <1>3. CASE (WalkStep \/ Failure \/ Beat) /\ \A q \in Roots : ~RemoveRow(q)
    <2>1. has' = has /\ notices' = notices /\ exposed' = exposed /\ changed' = changed
      BY <1>3, WalkSource
    <2>. QED  BY <1>1, <1>2, <2>1
  <1>4. ASSUME NEW q \in Roots, RemoveRow(q)
        PROVE  CalmTo(r)
    <2>1. has' = has /\ notices' = notices /\ exposed' = exposed
      BY <1>4 DEF RemoveRow, source
    <2>2. Calm(r)
      BY <1>0, <1>1, <2>1 DEF Calm
    <2>3. CASE changed'[r] = changed[r]
      BY <1>1, <1>2, <2>1, <2>3
    <2>4. CASE changed'[r] # changed[r]
      <3>1. changed' = changed \/ changed' = [changed EXCEPT ![q] = 0]
        BY <1>4 DEF RemoveRow
      <3>2. q = r /\ changed'[r] = 0 /\ changed' # changed
        BY <1>0, <2>4, <3>1
      <3>3. DropsRow(rows[r], entry[r].mark) /\ rows' = [rows EXCEPT ![r] = NoRow] /\ Settle(r)
            /\ Completable(r) /\ w.how = "remove" /\ RemoveRow(r)
        BY <1>4, <3>2 DEF RemoveRow
      <3>4. rows'[r] = NoRow /\ ~Moved(r)
        BY <1>0, <3>3 DEF DropsRow, Moved, TypeOK
      <3>5. ~Open(entry'[r])
        BY <1>0, <3>3, SettleFacts, EntryTypes DEF Open
      <3>6. RowDropped(r)
        BY <3>3, <3>4, <3>5 DEF RowDropped
      <3>. QED  BY <2>1, <2>2, <3>2, <3>6 DEF CalmTo
    <2>. QED  BY <2>3, <2>4
  <1>5. ASSUME NEW q \in Roots, ChangeRoot(q)
        PROVE  CalmTo(r)
    <2>1. PICK vs : has' = [has EXCEPT ![q] = vs]
      BY <1>5 DEF ChangeRoot
    <2>2. notices' = notices \cup {q} /\ exposed' = exposed /\ changed' = changed
      BY <1>5 DEF ChangeRoot, store
    <2>3. q # r
      BY <1>1, <2>2
    <2>. QED  BY <1>0, <1>1, <1>2, <2>1, <2>2, <2>3
  <1>6. CASE Rest \/ (\E q \in Roots : LiveBegin(q)) \/ \E c \in Kids : ChangeKid(c)
    <2>1. has' = has /\ exposed' = exposed /\ changed' = changed
      BY <1>6 DEF Rest, vars, source, store, LiveBegin, ChangeKid
    <2>2. notices \subseteq notices'
      BY <1>6 DEF Rest, vars, source, LiveBegin, ChangeKid
    <2>. QED  BY <1>1, <1>2, <2>1, <2>2
  <1>7. ASSUME NEW q \in Roots, LiveEnd(q)
        PROVE  CalmTo(r)
    <2>. DEFINE gone == \A v \in Versions : ~live[q].out[v].found
                drops == gone /\ DropsRow(rows[q], live[q].mark)
    <2>1. has' = has /\ notices' = notices
      BY <1>7 DEF LiveEnd, source
    <2>2. exposed' = IF drops /\ Fetched(q) THEN exposed \cup {q} ELSE exposed
      BY <1>7, Zenon DEF LiveEnd
    <2>3. changed' = IF drops THEN [changed EXCEPT ![q] = 0] ELSE changed
      BY <1>7, Zenon DEF LiveEnd
    <2>4. Calm(r)
      BY <1>0, <1>1, <2>1, <2>2 DEF Calm
    <2>5. CASE changed'[r] = changed[r]
      BY <2>1, <2>4, <2>5 DEF CalmTo
    <2>6. CASE changed'[r] # changed[r]
      <3>1. q = r /\ drops /\ changed'[r] = 0
        BY <1>0, <2>3, <2>6
      <3>2. rows[r].mark = live[r].mark /\ gone /\ (Fetched(r) => r \in exposed')
        BY <2>2, <3>1 DEF DropsRow
      <3>3. rows'[r] = NoRow
        <4>1. PICK row : rows' = [rows EXCEPT ![q] = IF drops THEN NoRow ELSE row]
          BY <1>7, Zenon DEF LiveEnd
        <4>. QED  BY <1>0, <3>1, <4>1 DEF TypeOK
      <3>4. RowDropped(r)
        BY <1>7, <3>1, <3>2, <3>3 DEF RowDropped
      <3>. QED  BY <2>1, <2>4, <3>1, <3>4 DEF CalmTo
    <2>. QED  BY <2>5, <2>6
  <1>8. ASSUME NEW y \in Things, Register(y)
        PROVE  CalmTo(r)
    <2>1. has' = has /\ notices' = notices \ {y} /\ exposed' = exposed /\ changed' = [changed EXCEPT ![y] = seq + 1]
      BY <1>8 DEF Register
    <2>2. CASE y = r
      <3>1. RowMarked(r) /\ changed'[r] = seq + 1
        BY <1>0, <1>8, <2>1, <2>2, RegisterRow
      <3>. QED  BY <1>8, <2>1, <2>2, <3>1 DEF CalmTo
    <2>3. CASE y # r
      BY <1>0, <1>1, <1>2, <2>1, <2>3
    <2>. QED  BY <2>2, <2>3
  <1>. QED  BY <1>3, <1>4, <1>5, <1>6, <1>7, <1>8 DEF Next

-----------------------------------------------------------------------------
(* What a step does to what the rebuild knows of a root *)

\* The walk's answers about r are those it had, or the source's now; a walk
\* that starts anew has none.
WalkTo(r) ==
    /\ w'.start \in {0, w.start} \/ (w'.start = seq + 1 /\ seq' = seq + 1)
    /\ w'.start # w.start => Said(w', r) = {}
    /\ \A it \in Said(w', r) : it \in Said(w, r) \/ (it.body.found <=> it.v \in has[r])
    /\ w'.how = "remove" => w.how = "remove" \/ MayDelete

\* The entry goes: with a mark, unless one was lost, or because it is settled.
EntryShut(r) ==
    /\ ~Open(entry'[r])
    /\ Open(entry[r]) => RowMarked(r) \/ ~Clean' \/ Complete(r) \/ RemoveRow(r)

\* It stays, with the outcomes it had and those of the items at hand.
EntryKept(r) ==
    /\ Open(entry[r]) /\ Open(entry'[r])
    /\ entry'[r].occ = entry[r].occ /\ entry'[r].mark = entry[r].mark /\ entry'[r].start = entry[r].start
    /\ \A v \in entry'[r].nils : v \in entry[r].nils \/ \E it \in Said(w, r) : it.v = v /\ ~it.body.found
    /\ \A v \in Queue(w', r) : v \in Queue(w, r) \/ \E it \in Said(w, r) : it.v = v /\ it.body.found

\* It begins, without an outcome, at a new number.
EntryBegun(r) ==
    /\ ~Open(entry[r]) /\ Open(entry'[r]) /\ RowKept(r) /\ rows'[r].present
    /\ entry'[r].occ > seq /\ entry'[r].mark = rows[r].mark
    /\ entry'[r].start <= seq' /\ (w'.start # 0 => entry'[r].start <= w'.start)
    /\ entry'[r].nils = {} /\ Queue(w', r) = {} /\ r \notin w'.ids
    /\ Given(used.setup) => Said(w', r) = {}

EntryTo(r) ==
    /\ EntryShut(r) \/ EntryKept(r) \/ EntryBegun(r)
    /\ NilSum(used.setup, entry[r]) => NilSum(used.setup, entry'[r])

\* The drift check takes up every root of a walk that changed.
DriftTo(r) ==
    /\ r \in w'.ids /\ w'.pc \in Drifting /\ Open(entry'[r])
    /\ ~Given(used.setup) /\ changed[r] > entry[r].start /\ ~RowMarked(r)
    => r \in w'.todo \/ (w.pc \in Drifting /\ r \in w.ids /\ r \notin w.todo)

StepTo(r) == WalkTo(r) /\ EntryTo(r) /\ DriftTo(r)

\* An attempt that ends marks its open roots, or a mark is lost.
LEMMA ForgetTo ==
    ASSUME TypeOK, Forget, NEW r \in Roots, Open(entry[r]) => RowMarked(r) \/ ~Clean'
    PROVE  StepTo(r)
  <1>1. entry'[r] = NoEntry /\ ~Open(NoEntry)
    BY EntryTypes DEF Forget
  <1>2. w'.start = 0 /\ w'.page = <<>> /\ w'.inbox = <<>> /\ w'.how = "flush" /\ w'.ids = {}
    BY DEF Forget, IdleWalk
  <1>3. Said(w', r) = {}
    BY <1>2, EmptyFacts DEF Said
  <1>4. WalkTo(r)
    BY <1>2, <1>3 DEF WalkTo
  <1>5. EntryTo(r)
    BY <1>1 DEF EntryTo, EntryShut, NilSum
  <1>6. DriftTo(r)
    BY <1>2 DEF DriftTo
  <1>. QED  BY <1>4, <1>5, <1>6 DEF StepTo

\* A root's entry stays as it is.
LEMMA KeepTo ==
    ASSUME NEW r \in Roots, entry'[r] = entry[r], Queue(w', r) \in SUBSET Queue(w, r)
    PROVE  EntryTo(r)
  <1>1. CASE Open(entry[r])
    BY <1>1 DEF EntryTo, EntryKept
  <1>2. CASE ~Open(entry[r])
    BY <1>2 DEF EntryTo, EntryShut
  <1>. QED  BY <1>1, <1>2

\* The walk keeps its answers.
LEMMA SaidKept ==
    ASSUME NEW r \in Roots, w'.start = w.start, w'.how = w.how \/ w'.how = "flush",
           Said(w', r) \in SUBSET Said(w, r)
    PROVE  WalkTo(r)
  BY DEF WalkTo

\* Nothing is taken from the drift check.
LEMMA DriftKept ==
    ASSUME NEW r \in Roots, w'.pc \in Drifting => w'.pc = w.pc /\ w'.ids = w.ids /\ (r \in w.todo => r \in w'.todo)
    PROVE  DriftTo(r)
  BY DEF DriftTo

\* fail: its roots are marked or a mark is lost, the others are as its caller
\* leaves them.
LEMMA FailTo ==
    ASSUME TypeOK, NEW S \in SUBSET Roots, NEW base \in [Roots -> Entry], NEW next \in Walk,
           NEW cost \in Nat, Fail(S, base, next, cost), NEW r \in Roots
    PROVE  /\ r \in S => EntryTo(r) /\ ~Open(entry'[r])
           /\ r \notin S => entry'[r] = base[r]
           /\ w' \in Walk /\ Queue(w', r) \in SUBSET Queue(next, r) /\ Said(w', r) = Said(next, r)
           /\ w'.start = next.start /\ w'.how = next.how /\ w'.pc = next.pc /\ w'.ids = next.ids
           /\ w'.todo = next.todo
  <1>1. PICK lost \in SUBSET S, any \in BOOLEAN, mark \in BOOLEAN : FailsTo(S, base, next, lost, any, mark)
    BY FailFacts
  <1>2. PICK y : y = w'
    OBVIOUS
  <1>3. y = Failed(next, S, any, mark)
    BY <1>1, <1>2 DEF FailsTo
  <1>4. /\ y \in Walk /\ y.pc = next.pc /\ y.how = next.how /\ y.start = next.start /\ y.inbox = next.inbox
        /\ y.page = next.page /\ y.chunk = next.chunk /\ y.ids = next.ids /\ y.todo = next.todo
        /\ y.pending = Without(next.pending, S)
    BY <1>3, FailedFacts
  <1>5. Of(y.pending, r) \in SUBSET Of(next.pending, r)
    <2>1. y.pending = Without(next.pending, S) /\ next.pending \in Seq(Item)
      BY <1>4, WalkFacts
    <2>2. CASE r \in S
      <3>1. Of(y.pending, r) = {}
        BY <2>1, <2>2, WithoutFacts
      <3>. QED  BY <3>1
    <2>3. CASE r \notin S
      <3>1. Of(y.pending, r) = Of(next.pending, r)
        BY <2>1, <2>3, WithoutFacts
      <3>. QED  BY <3>1
    <2>. QED  BY <2>2, <2>3
  <1>6. Queue(y, r) \in SUBSET Queue(next, r)
    BY <1>4, <1>5 DEF Queue, Waiting
  <1>7. Said(y, r) = Said(next, r)
    BY <1>4 DEF Said
  <1>8. entry'[r] = IF r \in S THEN FailedEntry ELSE base[r]
    BY <1>1 DEF FailsTo
  <1>9. r \in S => EntryTo(r) /\ ~Open(entry'[r])
    <2>1. r \in S => RowMarked(r) \/ ~Clean'
      BY FailRow
    <2>. QED  BY <1>8, <2>1, EntryTypes DEF EntryTo, EntryShut, NilSum
  <1>. QED  BY <1>2, <1>4, <1>6, <1>7, <1>8, <1>9

\* Handing the queue to the flusher leaves what is queued.
LEMMA FlushQueue ==
    ASSUME NEW x \in Walk, NEW ret \in {"plan", "walk", "finish"}, x.pc = ret, NEW y, y = Flushing(x, ret), NEW r
    PROVE  /\ Queue(y, r) \in SUBSET Queue(x, r) /\ Said(y, r) = Said(x, r)
           /\ y.start = x.start /\ (y.how = x.how \/ y.how = "flush") /\ y.pc \notin Drifting
  <1>1. /\ y.start = x.start /\ y.inbox = x.inbox /\ y.page = x.page
        /\ x.pending = <<>> => y.pc = ret /\ y.how = x.how /\ y.chunk = x.chunk /\ y.pending = <<>>
        /\ x.pending # <<>> => y.pc = "bulk" /\ y.how = "flush" /\ y.chunk = x.pending /\ y.pending = <<>>
    BY FlushingFacts
  <1>2. Said(y, r) = Said(x, r)
    BY <1>1 DEF Said
  <1>3. CASE x.pending = <<>>
    BY <1>1, <1>2, <1>3 DEF Queue, Waiting, Drifting
  <1>4. CASE x.pending # <<>>
    BY <1>1, <1>2, <1>4, EmptyFacts DEF Queue, Waiting, Drifting
  <1>. QED  BY <1>3, <1>4

\* What the page loop's steps do.
LEMMA LoopTo ==
    ASSUME CoreInv, TypeNext, NEW r \in Roots,
           \/ StartAttempt \/ Execute \/ FlushBeforePlan \/ FetchPage \/ TakePage \/ PageConsumed \/ EndPlan
           \/ Finish \/ Crash \/ Abort \/ BulkFails
    PROVE  StepTo(r)
  <1>0. TypeOK /\ WalkInv /\ Placed(used.setup, w) /\ w \in Walk
    BY DEF CoreInv, WalkInv, WalkOK, TypeOK
  <1>1. ASSUME NEW x \in Walk, NEW ret \in {"plan", "walk", "finish"}, x.pc = ret, w' = Flushing(x, ret),
               entry' = entry, Queue(x, r) \in SUBSET Queue(w, r), Said(x, r) \in SUBSET Said(w, r),
               x.start = w.start, x.how = w.how
        PROVE  StepTo(r)
    <2>1. PICK y : y = Flushing(x, ret)
      OBVIOUS
    <2>2. /\ Queue(y, r) \in SUBSET Queue(x, r) /\ Said(y, r) = Said(x, r)
          /\ y.start = x.start /\ (y.how = x.how \/ y.how = "flush") /\ y.pc \notin Drifting
      BY <1>1, <2>1, FlushQueue
    <2>3. w' = y
      BY <1>1, <2>1
    <2>4. EntryTo(r)
      BY <1>1, <2>2, <2>3, KeepTo
    <2>5. WalkTo(r)
      BY <1>1, <2>2, <2>3, SaidKept
    <2>6. DriftTo(r)
      BY <2>2, <2>3 DEF DriftTo
    <2>. QED  BY <2>4, <2>5, <2>6 DEF StepTo
  <1>2. CASE Crash
    <2>1. used' = [used EXCEPT !.crashes = used.crashes + 1] /\ Forget
      BY <1>2 DEF Crash, Spend
    <2>2. used'.crashes = used.crashes + 1 /\ used.crashes \in 0 .. MaxCrashes
      BY <1>0, <2>1 DEF TypeOK, Used
    <2>3. MaxCrashes \in Nat
      BY <1>0, SetupFacts DEF MaxCrashes, IsSetup
    <2>4. ~Clean'
      BY <2>2, <2>3 DEF Clean
    <2>. QED  BY <1>0, <2>1, <2>4, ForgetTo
  <1>3. CASE Abort \/ BulkFails
    <2>1. Salvage(1)
      BY <1>3 DEF Abort, BulkFails
    <2>2. Open(entry[r]) => RowMarked(r) \/ ~Clean'
      BY <1>0, <2>1, SalvageRow
    <2>3. Forget
      BY <2>1 DEF Salvage
    <2>. QED  BY <1>0, <2>2, <2>3, ForgetTo
  <1>4. CASE Finish
    <2>1. CASE w.pending # <<>>
      <3>1. w' = Flushing(w, "finish") /\ w.pc = "finish" /\ entry' = entry
        BY <1>4, <2>1 DEF Finish
      <3>. QED  BY <1>0, <1>1, <3>1
    <2>2. CASE w.pending = <<>>
      <3>. DEFINE S == {q \in Roots : Unsettled(q)}
      <3>1. PICK lost \in SUBSET S :
              /\ used' = [used EXCEPT !.errors = @ + Cardinality(lost), !.lost = @ \/ lost # {}]
              /\ rows' = MarkedRows(S \ lost) /\ seq' = seq + Cardinality(S \ lost) /\ Forget
        BY <1>4, <2>2 DEF Finish
      <3>2. S \ lost \in SUBSET Roots /\ (Open(entry[r]) => r \in S)
        BY DEF Unsettled, Open
      <3>. HIDE DEF S
      <3>3. used'.lost = (used.lost \/ lost # {})
        BY <1>0, <3>1 DEF TypeOK, Used
      <3>4. r \in S \ lost => RowMarked(r)
        BY <1>0, <3>1, <3>2, MarkRow
      <3>5. Open(entry[r]) => RowMarked(r) \/ ~Clean'
        BY <3>2, <3>3, <3>4 DEF Clean
      <3>. QED  BY <1>0, <3>1, <3>5, ForgetTo
    <2>. QED  BY <2>1, <2>2
  <1>5. CASE FlushBeforePlan
    <2>1. w' = Flushing(w, "plan") /\ w.pc = "plan" /\ entry' = entry
      BY <1>5 DEF FlushBeforePlan
    <2>. QED  BY <1>0, <1>1, <2>1
  <1>6. CASE PageConsumed
    <2>1. entry' = entry
      BY <1>6 DEF PageConsumed
    <2>2. PICK y \in Walk :
            /\ w' = Flushing(y, "walk") \/ w' = y
            /\ w.pc = "walk" /\ y.pc = "walk" /\ w.page = <<>> /\ y.page = <<>>
            /\ y.start = w.start /\ SameHands(w, y) /\ y.inbox = w.inbox
      BY <1>0, <1>6, ConsumeWalk
    <2>3. Said(y, r) = Said(w, r)
      BY <2>2 DEF Said
    <2>4. Queue(y, r) = Queue(w, r)
      BY <2>2 DEF SameHands, Queue, Waiting
    <2>5. y.how = w.how
      BY <2>2 DEF SameHands
    <2>6. CASE w' = Flushing(y, "walk")
      BY <1>1, <2>1, <2>2, <2>3, <2>4, <2>5, <2>6
    <2>7. CASE w' = y
      <3>1. EntryTo(r)
        BY <2>1, <2>4, <2>7, KeepTo
      <3>2. WalkTo(r)
        BY <2>2, <2>3, <2>5, <2>7, SaidKept
      <3>3. DriftTo(r)
        BY <2>2, <2>7 DEF DriftTo, Drifting
      <3>. QED  BY <3>1, <3>2, <3>3 DEF StepTo
    <2>. QED  BY <2>2, <2>6, <2>7
  <1>7. CASE StartAttempt
    <2>1. entry' = entry /\ w.pc = "idle"
      BY <1>7 DEF StartAttempt
    <2>2. /\ w'.pc = FirstLoop /\ SameHands(IdleWalk, w') /\ w'.start = 0 /\ w'.inbox = <<>> /\ w'.page = <<>>
      BY <1>0, <1>7, StartWalk
    <2>3. w'.pending = <<>> /\ w'.how = "flush" /\ w'.chunk = <<>>
      BY <2>2 DEF SameHands, IdleWalk
    <2>4. Queue(w', r) = {} /\ Said(w', r) = {}
      BY <2>2, <2>3, EmptyFacts DEF Queue, Said
    <2>5. EntryTo(r)
      BY <2>1, <2>4, KeepTo
    <2>6. WalkTo(r)
      BY <2>2, <2>3, <2>4 DEF WalkTo
    <2>7. DriftTo(r)
      BY <2>2 DEF DriftTo, Drifting, FirstLoop
    <2>. QED  BY <2>5, <2>6, <2>7 DEF StepTo
  <1>8. CASE Execute
    <2>1. entry' = entry /\ seq' = seq + 1 /\ w' = [w EXCEPT !.pc = "walk", !.start = seq + 1]
      BY <1>8 DEF Execute
    <2>2. /\ w.pc = "plan" /\ w'.pc = "walk" /\ SameHands(w, w') /\ w'.inbox = w.inbox /\ w'.page = w.page
      BY <1>0, <1>8, ExecuteWalk
    <2>3. w'.start = seq + 1
      BY <1>0, <2>1 DEF Walk
    <2>4. w.start = 0 \/ Given(used.setup)
      BY <1>0, <2>2 DEF Placed, At, Flusher, Applying
    <2>5. ~Given(used.setup)
      BY <1>0, <2>2 DEF Placed, At, Flusher, Applying
    <2>6. w.inbox = <<>> /\ w.page = <<>>
      BY <1>0, <2>4, <2>5 DEF Placed
    <2>7. Said(w', r) = {}
      BY <2>2, <2>6, EmptyFacts DEF Said
    <2>8. Queue(w', r) = Queue(w, r)
      BY <2>2 DEF Queue, Waiting, SameHands
    <2>9. EntryTo(r)
      BY <2>1, <2>8, KeepTo
    <2>10. WalkTo(r)
      BY <2>1, <2>2, <2>3, <2>7 DEF WalkTo, SameHands
    <2>11. DriftTo(r)
      BY <2>2 DEF DriftTo, Drifting
    <2>. QED  BY <2>9, <2>10, <2>11 DEF StepTo
  <1>9. CASE EndPlan
    <2>1. entry' = entry
      BY <1>9 DEF EndPlan
    <2>2. /\ w.pc = "walk" /\ w.no = 0 /\ w.inbox = <<>> /\ w'.pc \in {"finish", "plan"} /\ w'.start = 0
          /\ SameHands(w, w') /\ w'.inbox = w.inbox /\ w'.page = w.page
      BY <1>0, <1>9, EndWalk
    <2>3. ~Given(used.setup)
      BY <1>0, <1>9, StateSets DEF EndPlan
    <2>4. w.page = <<>>
      BY <1>0, <2>2, <2>3 DEF Placed
    <2>5. Said(w', r) = {}
      BY <2>2, <2>4, EmptyFacts DEF Said
    <2>6. Queue(w', r) = Queue(w, r)
      BY <2>2 DEF Queue, Waiting, SameHands
    <2>7. EntryTo(r)
      BY <2>1, <2>6, KeepTo
    <2>8. WalkTo(r)
      BY <2>2, <2>5 DEF WalkTo, SameHands
    <2>9. DriftTo(r)
      BY <2>2 DEF DriftTo, Drifting
    <2>. QED  BY <2>7, <2>8, <2>9 DEF StepTo
  <1>10. CASE TakePage
    <2>1. entry' = entry
      BY <1>10 DEF TakePage
    <2>2. /\ w.pc = "walk" /\ w'.pc = "walk" /\ w.no = 0 /\ w.inbox # <<>> /\ w'.start = w.start /\ SameHands(w, w')
          /\ w'.inbox = Tail(w.inbox) /\ w'.page = Head(w.inbox).items
      BY <1>0, <1>10, TakeWalk
    <2>3. w.inbox \in Seq(Page)
      BY <1>0, WalkFacts
    <2>4. Range(w.inbox) = {Head(w.inbox)} \cup Range(Tail(w.inbox))
      BY <2>2, <2>3, TailFacts
    <2>5. Said(w', r) \in SUBSET Said(w, r)
      BY <2>2, <2>4 DEF Said
    <2>6. Queue(w', r) = Queue(w, r)
      BY <2>2 DEF Queue, Waiting, SameHands
    <2>7. EntryTo(r)
      BY <2>1, <2>6, KeepTo
    <2>8. WalkTo(r)
      BY <2>2, <2>5, SaidKept DEF SameHands
    <2>9. DriftTo(r)
      BY <2>2 DEF DriftTo, Drifting
    <2>. QED  BY <2>7, <2>8, <2>9 DEF StepTo
  <1>11. CASE FetchPage
    <2>1. entry' = entry
      BY <1>11 DEF FetchPage
    <2>2. w.start # 0 /\ w'.pc = w.pc /\ w'.start = w.start /\ SameHands(w, w') /\ w'.page = w.page
      BY <1>0, <1>11, FetchWalk
    <2>3. PICK items \in Seq(Item) :
            /\ w' = [w EXCEPT !.next = w.next + 1, !.inbox = Append(w.inbox, [no |-> w.next, items |-> items])]
            /\ [no |-> w.next, items |-> items] \in Page
            /\ \A it \in Range(items) : it.v = Plan /\ it.body = Truth(it.id, Plan)
      BY <1>0, <1>11, FetchFacts
    <2>4. PICK p \in Page : p = [no |-> w.next, items |-> items]
      BY <2>3
    <2>5. w'.inbox = Append(w.inbox, p) /\ p.items = items
      BY <1>0, <2>3, <2>4 DEF Walk
    <2>6. Range(w'.inbox) = Range(w.inbox) \cup {p}
      BY <1>0, <2>5, WalkFacts, AppendFacts
    <2>7. \A it \in Said(w', r) : it \in Said(w, r) \/ (it \in Range(items) /\ it.id = r)
      BY <2>2, <2>5, <2>6 DEF Said
    <2>8. Plan \in Versions
      BY <1>0, <2>2, PlanFacts
    <2>9. \A it \in Range(items) : it.id = r => (it.body.found <=> it.v \in has[r])
      BY <1>0, <2>3, <2>8, TruthFacts
    <2>10. WalkTo(r)
      BY <2>2, <2>7, <2>9 DEF WalkTo, SameHands
    <2>11. Queue(w', r) = Queue(w, r)
      BY <2>2 DEF Queue, Waiting, SameHands
    <2>12. EntryTo(r)
      BY <2>1, <2>11, KeepTo
    <2>13. DriftTo(r)
      BY <2>2, DriftKept DEF SameHands
    <2>. QED  BY <2>10, <2>12, <2>13 DEF StepTo
  <1>. QED  BY <1>2, <1>3, <1>4, <1>5, <1>6, <1>7, <1>8, <1>9, <1>10, <1>11

\* What the batch loop's steps do.
LEMMA BatchTo ==
    ASSUME CoreInv, TypeNext, NEW r \in Roots, BeginBatch \/ BatchFails \/ AskPlans \/ BatchDone \/ EndBatches
    PROVE  StepTo(r)
  <1>. DEFINE s == used.setup
  <1>0. /\ TypeOK /\ WalkInv /\ Placed(s, w) /\ w \in Walk /\ entry \in [Roots -> Entry] /\ 1 \in Nat
        /\ RootOK(s, w, entry[r], docs[r], r) /\ rows \in [Roots -> Row] /\ seq \in Nat
    BY TypeFacts DEF CoreInv, WalkInv, WalkOK, TypeOK, RootInv, TypeNow
  <1>1. /\ w.pc \in {"batch", "ask", "walk"} /\ Given(s) /\ Batches = s.batches
        /\ w.pc # "walk" => w.page = <<>>
        /\ w.ids = {} /\ w.inbox = <<>> /\ w.start = 0 /\ w.how = "flush"
    <2>1. w.pc \in {"batch", "ask"} \/ (w.pc = "walk" /\ Given(s))
      BY <1>0, StateSets DEF BeginBatch, BatchFails, AskPlans, BatchDone, EndBatches
    <2>2. At(w) = w.pc /\ w.pc \notin Flusher
      BY <2>1 DEF At, Flusher, Applying
    <2>3. Given(s)
      BY <1>0, <2>1, <2>2 DEF Placed
    <2>4. w.ids = {} /\ w.inbox = <<>> /\ w.start = 0 /\ w.how = "flush" /\ (w.pc # "walk" => w.page = <<>>)
      BY <1>0, <2>1, <2>2, <2>3 DEF Placed, Flusher
    <2>. QED  BY <2>1, <2>3, <2>4 DEF Batches
  <1>2. ASSUME NEW x \in Walk, x.pc \in {"batch", "ask", "walk", "finish"}, x.pending = w.pending
        PROVE  Queue(x, r) \in SUBSET Queue(w, r)
    BY <1>2 DEF Queue, Waiting
  <1>3. ASSUME NEW x \in Walk, x.pc \in {"batch", "finish"}, x.pending = w.pending, x.start = w.start, x.how = w.how,
               x.page = w.page, x.inbox = w.inbox, w' = x, entry' = entry
        PROVE  StepTo(r)
    <2>1. Said(w', r) = Said(w, r)
      BY <1>3 DEF Said
    <2>2. WalkTo(r)
      BY <1>3, <2>1, SaidKept
    <2>3. EntryTo(r)
      BY <1>2, <1>3, KeepTo
    <2>4. DriftTo(r)
      BY <1>3 DEF DriftTo, Drifting
    <2>. QED  BY <2>2, <2>3, <2>4 DEF StepTo
  <1>4. ASSUME NEW S \in SUBSET Roots, NEW x \in Walk, NEW cost \in Nat, Fail(S, entry, x, cost),
               x.pc \in {"batch", "walk"}, x.pending = w.pending, x.start = w.start, x.how = w.how,
               \A it \in Said(x, r) : it \in Said(w, r) \/ (it.body.found <=> it.v \in has[r])
        PROVE  StepTo(r)
    <2>1. /\ r \in S => EntryTo(r)
          /\ r \notin S => entry'[r] = entry[r]
          /\ Queue(w', r) \in SUBSET Queue(x, r) /\ Said(w', r) = Said(x, r)
          /\ w'.start = x.start /\ w'.how = x.how /\ w'.pc = x.pc
      BY <1>0, <1>4, FailTo
    <2>2. Queue(x, r) \in SUBSET Queue(w, r)
      BY <1>2, <1>4
    <2>3. EntryTo(r)
      <3>1. CASE r \in S
        BY <2>1, <3>1
      <3>2. CASE r \notin S
        <4>1. entry'[r] = entry[r] /\ Queue(w', r) \in SUBSET Queue(w, r)
          BY <2>1, <2>2, <3>2
        <4>. QED  BY <4>1, KeepTo
      <3>. QED  BY <3>1, <3>2
    <2>4. WalkTo(r)
      BY <1>4, <2>1 DEF WalkTo
    <2>5. DriftTo(r)
      BY <1>4, <2>1 DEF DriftTo, Drifting
    <2>. QED  BY <2>3, <2>4, <2>5 DEF StepTo
  <1>5. CASE BatchDone
    <2>1. w' = [w EXCEPT !.pc = "batch", !.next = w.next + 1] /\ entry' = entry
      BY <1>5 DEF BatchDone, NextBatch
    <2>2. PICK x \in Walk : x = w'
      BY DEF TypeNext
    <2>3. x.pc = "batch" /\ x.pending = w.pending /\ x.start = w.start /\ x.how = w.how /\ x.page = w.page /\ x.inbox = w.inbox
      BY <1>0, <2>1, <2>2 DEF Walk
    <2>. QED  BY <1>3, <2>1, <2>2, <2>3
  <1>6. CASE EndBatches
    <2>1. w' = [w EXCEPT !.pc = "finish"] /\ entry' = entry
      BY <1>6 DEF EndBatches
    <2>2. PICK x \in Walk : x = w'
      BY DEF TypeNext
    <2>3. x.pc = "finish" /\ x.pending = w.pending /\ x.start = w.start /\ x.how = w.how /\ x.page = w.page /\ x.inbox = w.inbox
      BY <1>0, <2>1, <2>2 DEF Walk
    <2>. QED  BY <1>3, <2>1, <2>2, <2>3
  <1>7. CASE BatchFails
    <2>1. Fail(Batch, entry, NextBatch, 1) /\ w.pc \in {"batch", "ask"} /\ w.next <= Len(Batches)
      BY <1>7 DEF BatchFails
    <2>2. Batch \in SUBSET Roots
      BY <1>0, <2>1, BatchIds
    <2>3. PICK x \in Walk : x = NextBatch
      BY <1>0, <2>1, NextBatchFacts
    <2>4. x = [w EXCEPT !.pc = "batch", !.next = w.next + 1]
      BY <2>3 DEF NextBatch
    <2>5. x.pc = "batch" /\ x.pending = w.pending /\ x.start = w.start /\ x.how = w.how /\ x.page = w.page /\ x.inbox = w.inbox
      BY <1>0, <2>4 DEF Walk
    <2>6. Said(x, r) = Said(w, r)
      BY <2>5 DEF Said
    <2>. QED  BY <1>0, <1>4, <2>1, <2>2, <2>3, <2>5, <2>6
  <1>8. CASE AskPlans
    <2>1. w.pc = "ask" /\ w.next <= Len(Batches)
      BY <1>0, <1>1, <1>8 DEF Placed, At, Flusher, Applying, AskPlans
    <2>2. Batch \in SUBSET Roots
      BY <1>0, <2>1, BatchIds
    <2>3. PICK errs \in SUBSET Batch :
            Fail(errs, entry, [w EXCEPT !.pc = "walk", !.page = BatchItems(Batch \ errs)], Cardinality(errs))
      BY <1>8 DEF AskPlans, BatchItems
    <2>4. errs \in SUBSET Roots /\ Batch \ errs \in SUBSET Roots /\ Cardinality(errs) \in Nat
      BY <1>0, <2>2, StateSets
    <2>5. PICK q : q = BatchItems(Batch \ errs)
      OBVIOUS
    <2>6. q \in Seq(Item) /\ \A it \in Range(q) : it.body = Truth(it.id, it.v)
      BY <1>0, <2>4, <2>5, BatchFacts
    <2>7. PICK x : x = [w EXCEPT !.pc = "walk", !.page = q]
      OBVIOUS
    <2>8. /\ x \in Walk /\ x.pc = "walk" /\ x.start = w.start /\ x.how = w.how
          /\ x.inbox = w.inbox /\ x.page = q /\ x.pending = w.pending
      BY <1>0, <2>6, <2>7 DEF Walk
    <2>9. Said(x, r) \in SUBSET {it \in Range(q) : it.id = r}
      BY <1>1, <2>8, EmptyFacts DEF Said
    <2>10. \A it \in Said(x, r) : it.body.found <=> it.v \in has[r]
      <3>1. \A it \in Range(q) : it.v \in Versions
        BY <1>0, <2>6, ItemFacts
      <3>. QED  BY <1>0, <2>6, <2>9, <3>1, TruthFacts
    <2>11. Fail(errs, entry, x, Cardinality(errs))
      BY <2>3, <2>5, <2>7
    <2>. QED  BY <1>4, <2>4, <2>8, <2>10, <2>11
  <1>9. CASE BeginBatch
    <2>1. /\ w.pc = "batch" /\ w.next <= Len(Batches) /\ w' = [w EXCEPT !.pc = "ask"]
          /\ rows' = [q \in Roots |-> IF q \in Batch THEN [rows[q] EXCEPT !.present = TRUE] ELSE rows[q]]
      BY <1>9 DEF BeginBatch
    <2>2. PICK x \in Walk : x = w'
      BY DEF TypeNext
    <2>3. /\ x.pc = "ask" /\ x.pending = w.pending /\ x.start = w.start /\ x.how = w.how /\ x.page = w.page
          /\ x.inbox = w.inbox /\ x.ids = w.ids
      BY <1>0, <2>1, <2>2 DEF Walk
    <2>4. Said(x, r) = Said(w, r) /\ Said(x, r) = {}
      BY <1>1, <2>1, <2>3, EmptyFacts DEF Said
    <2>5. WalkTo(r)
      BY <2>2, <2>3, <2>4, SaidKept
    <2>6. DriftTo(r)
      BY <2>2, <2>3 DEF DriftTo, Drifting
    <2>7. Queue(x, r) \in SUBSET Queue(w, r)
      BY <1>2, <2>3
    <2>8. CASE r \notin Batch
      <3>1. entry'[r] = entry[r]
        BY <1>0, <1>9, <2>8, BeginBatchFacts
      <3>. QED  BY <2>2, <2>5, <2>6, <2>7, <3>1, KeepTo DEF StepTo
    <2>9. CASE r \in Batch
      <3>1. /\ w.next \in DOMAIN s.batches /\ Batch = s.batches[w.next] /\ Batch \in SUBSET Roots
        BY <1>0, <2>1, BatchIds
      <3>2. ~entry[r].tracked
        <4>1. SUFFICES ASSUME entry[r].tracked
                       PROVE  FALSE
          OBVIOUS
        <4>2. PICK i \in DOMAIN s.batches : r \in s.batches[i] /\ i <= w.next /\ (At(w) = "batch" => i < w.next)
          BY <1>0, <1>1, <4>1 DEF RootOK, Begun
        <4>3. i < w.next /\ w.next \in Nat /\ i \in Nat
          <5>1. s.batches \in Seq(SUBSET s.roots) /\ w.next \in Nat
            BY <1>0, SetupFacts, SetFacts, WalkFacts
          <5>2. i \in Nat
            BY <5>1
          <5>. QED  BY <2>1, <4>2, <5>1, <5>2 DEF At, Flusher, Applying
        <4>4. \A k, j \in DOMAIN s.batches : k # j => s.batches[k] \cap s.batches[j] = {}
          BY <1>0, SetupFacts DEF IsSetup
        <4>. QED  BY <2>9, <3>1, <4>2, <4>3, <4>4
      <3>3. ~Open(entry[r])
        BY <3>2 DEF Open
      <3>4. PICK n \in Nat, e \in EntryIn(s) :
              /\ e = entry'[r] /\ n > seq /\ n <= seq' /\ Open(e) /\ e.occ = n /\ e.nils = {}
              /\ e.lastDoc = 0 /\ e.remaining = Cardinality(Selected)
              /\ e.mark = rows[r].mark /\ e.start = n
        BY <1>0, <1>9, <2>9, BeginBatchFacts
      <3>5. rows'[r] = [rows[r] EXCEPT !.present = TRUE] /\ rows[r] \in Row
        BY <1>0, <2>1, <2>9
      <3>6. rows'[r].present /\ rows'[r].mark = rows[r].mark /\ rows'[r].stale = rows[r].stale
        BY <3>5 DEF Row
      <3>7. RowKept(r)
        BY <3>6 DEF RowKept
      <3>8. Queue(x, r) = {}
        <4>1. Of(w.pending, r) = {}
          BY <1>0, <3>3 DEF RootOK, Handled
        <4>. QED  BY <2>3, <4>1 DEF Queue, Waiting
      <3>9. w'.start = 0 /\ w'.ids = {}
        BY <1>1, <2>2, <2>3
      <3>10. EntryBegun(r)
        BY <2>2, <2>4, <3>3, <3>4, <3>6, <3>7, <3>8, <3>9 DEF EntryBegun
      <3>11. NilSum(s, entry'[r])
        <4>1. Cardinality({}) = 0 /\ Cardinality(s.selected) \in Nat /\ Selected = s.selected
          BY <1>0, FS_EmptySet, StateSets
        <4>. QED  BY <3>4, <4>1 DEF NilSum
      <3>12. EntryTo(r)
        BY <3>10, <3>11 DEF EntryTo
      <3>. QED  BY <2>5, <2>6, <3>12 DEF StepTo
    <2>. QED  BY <2>8, <2>9
  <1>. QED  BY <1>5, <1>6, <1>7, <1>8, <1>9

\* What the items' steps do.
LEMMA ItemTo ==
    ASSUME CoreInv, TypeNext, w.start <= seq, NEW q \in Roots, NEW r \in Roots, ItemStep(q) \/ BeginItemFails(q)
    PROVE  StepTo(r)
  <1>. DEFINE s == used.setup
  <1>0. /\ TypeOK /\ WalkInv /\ RootInv /\ Placed(s, w) /\ w \in Walk /\ entry \in [Roots -> Entry]
        /\ RootOK(s, w, entry[r], docs[r], r) /\ rows \in [Roots -> Row] /\ seq \in Nat /\ seq' \in Nat
        /\ {q} \in SUBSET Roots /\ 0 \in Nat /\ 1 \in Nat /\ w.start \in Nat
    BY TypeFacts, WalkFacts DEF CoreInv, WalkInv, WalkOK, TypeOK, RootInv, TypeNow, TypeNext
  <1>1. w.pc = "walk" /\ w.page # <<>> /\ Head(w.page).id = q /\ AtItem(q)
    BY DEF ItemStep, BeginItem, AddDoc, SkipItem, Contradiction, CountNil, BeginItemFails, AtItem
  <1>2. PICK it \in Item : it = Head(w.page)
    BY <1>0, <1>1, HeadFacts
  <1>3. it.id = q /\ it \in Range(w.page) /\ it.v \in Selected /\ it \in Said(w, q) /\ it.v \in Nat \ {0}
    <2>1. it.id = q /\ it \in Range(w.page) /\ it.v \in Selected
      BY <1>0, <1>1, <1>2, HeadFacts
    <2>2. it.v \in Nat \ {0}
      BY <1>0, <2>1, StateSets
    <2>. QED  BY <2>1, <2>2 DEF Said
  <1>4. PICK x \in Walk : x = ItemDone
    BY <1>0, <1>1, ItemWalk
  <1>5. /\ x.pc = "walk" /\ x.page = Tail(w.page) /\ x.pending = w.pending /\ x.chunk = w.chunk /\ x.start = w.start
        /\ x.inbox = w.inbox /\ x.ids = w.ids /\ x.todo = w.todo /\ x.how = w.how /\ WalkOK(s, x)
    BY <1>0, <1>1, <1>4, ItemWalk
  <1>6. Said(x, r) \in SUBSET Said(w, r) /\ Queue(x, r) = Queue(w, r)
    <2>1. Range(x.page) \in SUBSET Range(w.page)
      BY <1>0, <1>1, <1>5, HeadFacts
    <2>2. Said(x, r) \in SUBSET Said(w, r)
      BY <1>5, <2>1 DEF Said
    <2>3. Queue(x, r) = Queue(w, r)
      BY <1>1, <1>5 DEF Queue, Waiting
    <2>. QED  BY <2>2, <2>3
  <1>7. ASSUME NEW base \in [Roots -> Entry], NEW cost \in Nat, Fail({q}, base, x, cost), q # r => base[r] = entry[r]
        PROVE  StepTo(r)
    <2>1. /\ r \in {q} => EntryTo(r)
          /\ r \notin {q} => entry'[r] = base[r]
          /\ Queue(w', r) \in SUBSET Queue(x, r) /\ Said(w', r) = Said(x, r)
          /\ w'.start = x.start /\ w'.how = x.how /\ w'.pc = x.pc
      <3>1. TypeOK /\ {q} \in SUBSET Roots
        BY <1>0
      <3>. QED  BY <1>7, <3>1, FailTo
    <2>2. EntryTo(r)
      <3>1. CASE q = r
        BY <2>1, <3>1
      <3>2. CASE q # r
        <4>1. entry'[r] = entry[r] /\ Queue(w', r) \in SUBSET Queue(w, r)
          BY <1>6, <1>7, <2>1, <3>2
        <4>. QED  BY <4>1, KeepTo
      <3>. QED  BY <3>1, <3>2
    <2>3. WalkTo(r)
      BY <1>5, <1>6, <2>1, SaidKept
    <2>4. DriftTo(r)
      BY <1>5, <2>1 DEF DriftTo, Drifting
    <2>. QED  BY <2>2, <2>3, <2>4 DEF StepTo
  <1>8. CASE BeginItemFails(q)
    <2>1. Fail({q}, entry, x, 1)
      BY <1>4, <1>8 DEF BeginItemFails
    <2>. QED  BY <1>0, <1>7, <2>1
  <1>9. CASE Contradiction(q)
    <2>1. Fail({q}, entry, x, 0)
      BY <1>4, <1>9 DEF Contradiction
    <2>. QED  BY <1>0, <1>7, <2>1
  <1>10. CASE SkipItem(q)
    <2>1. w' = x /\ entry' = entry
      BY <1>4, <1>10 DEF SkipItem
    <2>2. EntryTo(r)
      BY <1>6, <2>1, KeepTo
    <2>3. WalkTo(r)
      BY <1>5, <1>6, <2>1, SaidKept
    <2>4. DriftTo(r)
      BY <1>5, <2>1 DEF DriftTo, Drifting
    <2>. QED  BY <2>2, <2>3, <2>4 DEF StepTo
  <1>11. CASE BeginItem(q)
    <2>1. w' = w /\ rows' = [rows EXCEPT ![q].present = TRUE] /\ seq' = seq + 1 /\ ~entry[q].tracked
      BY <1>11 DEF BeginItem
    <2>2. WalkTo(r)
      BY <2>1, SaidKept
    <2>3. DriftTo(r)
      BY <1>1, <2>1 DEF DriftTo, Drifting
    <2>4. CASE q # r
      <3>1. entry'[r] = entry[r] /\ Queue(w', r) \in SUBSET Queue(w, r)
        BY <1>0, <1>11, <2>1, <2>4, BeginItemFacts
      <3>2. EntryTo(r)
        BY <3>1, KeepTo
      <3>. QED  BY <2>2, <2>3, <3>2 DEF StepTo
    <2>5. CASE q = r
      <3>1. /\ Open(entry'[r]) /\ entry'[r].occ = seq + 1 /\ entry'[r].nils = {} /\ entry'[r].lastDoc = 0
            /\ entry'[r].remaining = Cardinality(w.left) /\ (entry'[r].partial <=> w.left # Selected)
            /\ entry'[r].mark = rows[r].mark /\ entry'[r].start = w.start
        BY <1>0, <1>11, <2>5, BeginItemFacts
      <3>2. ~Open(entry[r]) /\ ~entry[r].tracked
        BY <2>1, <2>5 DEF Open
      <3>3. ~Given(s)
        <4>1. Head(w.page).v \in Coming(s, w, r)
          BY <1>0, <1>1, <2>5, ItemComing
        <4>2. Given(s) => entry[r].tracked
          BY <1>0, <4>1 DEF RootOK, Books
        <4>. QED  BY <3>2, <4>2
      <3>4. Queue(w', r) = {}
        <4>1. Of(w.pending, r) = {}
          BY <1>0, <3>2 DEF RootOK, Handled
        <4>. QED  BY <1>1, <2>1, <4>1 DEF Queue, Waiting
      <3>5. r \notin w'.ids
        BY <1>0, <1>1, <2>1 DEF Placed, Flusher, Applying
      <3>6. rows'[r].present /\ rows'[r].mark = rows[r].mark /\ rows'[r].stale = rows[r].stale
        BY <1>0, <2>1, <2>5 DEF Row
      <3>7. RowKept(r)
        BY <3>6 DEF RowKept
      <3>8. w.start <= seq' /\ w.start <= w'.start /\ seq + 1 > seq
        BY <1>0, <2>1
      <3>9. EntryBegun(r)
        BY <3>1, <3>2, <3>3, <3>4, <3>5, <3>6, <3>7, <3>8 DEF EntryBegun
      <3>10. NilSum(s, entry'[r])
        <4>1. Cardinality({}) = 0 /\ Cardinality(s.selected) \in Nat /\ Selected = s.selected
          BY <1>0, FS_EmptySet, StateSets
        <4>. QED  BY <3>1, <4>1 DEF NilSum
      <3>11. EntryTo(r)
        BY <3>9, <3>10 DEF EntryTo
      <3>. QED  BY <2>2, <2>3, <3>11 DEF StepTo
    <2>. QED  BY <2>4, <2>5
  <1>12. CASE AddDoc(q)
    <2>1. /\ it.body.found /\ Unsettled(q) /\ entry' = [entry EXCEPT ![q].lastDoc = it.v]
      BY <1>2, <1>12 DEF AddDoc
    <2>2. New(it.body)
      BY <1>0, <1>3 DEF WalkInv, WalkOK, AllNew
    <2>3. PICK y : y = Queued(x, it)
      OBVIOUS
    <2>4. w' = Flushing(y, "walk") \/ w' = y
      BY <1>2, <1>4, <1>12, <2>3 DEF AddDoc, Queued
    <2>5. /\ y \in Walk /\ Range(y.pending) = Range(x.pending) \cup {it} /\ y.pc = x.pc /\ y.how = x.how
          /\ y.start = x.start /\ y.inbox = x.inbox /\ y.page = x.page
      <3>2. x.pending \in Seq(Item)
        BY WalkFacts
      <3>3. PICK p : p = Append(x.pending, it)
        OBVIOUS
      <3>4. p \in Seq(Item) /\ Range(p) = Range(x.pending) \cup {it}
        BY <3>2, <3>3, AppendFacts
      <3>5. y = [x EXCEPT !.pending = p]
        BY <2>3, <3>3 DEF Queued
      <3>6. /\ y \in Walk /\ y.pending = p /\ y.pc = x.pc /\ y.how = x.how /\ y.start = x.start
            /\ y.inbox = x.inbox /\ y.page = x.page
        BY <3>4, <3>5, ZenonT(60) DEF Walk
      <3>. QED  BY <3>4, <3>6
    <2>6. \A v \in Queue(y, r) : v \in Queue(w, r) \/ (it.v = v /\ q = r)
      <3>1. \A v \in Of(y.pending, r) : v \in Of(x.pending, r) \/ (it.v = v /\ q = r)
        BY <1>3, <2>5 DEF Of
      <3>2. Queue(y, r) = Of(y.pending, r) /\ Queue(w, r) = Of(x.pending, r)
        BY <1>1, <1>5, <2>5 DEF Queue, Waiting
      <3>. QED  BY <3>1, <3>2
    <2>7. PICK z : z = Flushing(y, "walk")
      OBVIOUS
    <2>8. /\ Queue(z, r) \in SUBSET Queue(y, r) /\ Said(z, r) = Said(y, r)
          /\ z.start = y.start /\ (z.how = y.how \/ z.how = "flush") /\ z.pc \notin Drifting
      BY <1>5, <2>5, <2>7, FlushQueue
    <2>9. Said(y, r) = Said(x, r)
      BY <2>5 DEF Said
    <2>10. /\ Queue(w', r) \in SUBSET Queue(y, r) /\ Said(w', r) = Said(y, r)
           /\ w'.start = w.start /\ (w'.how = w.how \/ w'.how = "flush") /\ w'.pc \notin Drifting
      <3>1. CASE w' = z
        BY <1>5, <2>5, <2>8, <3>1
      <3>2. CASE w' = y
        BY <1>5, <2>5, <3>2 DEF Drifting
      <3>. QED  BY <2>4, <2>7, <3>1, <3>2
    <2>11. WalkTo(r)
      BY <1>6, <2>9, <2>10, SaidKept
    <2>12. DriftTo(r)
      BY <2>10 DEF DriftTo
    <2>13. CASE q # r
      <3>1. entry'[r] = entry[r] /\ Queue(w', r) \in SUBSET Queue(w, r)
        BY <1>0, <2>1, <2>6, <2>10, <2>13
      <3>2. EntryTo(r)
        BY <3>1, KeepTo
      <3>. QED  BY <2>11, <2>12, <3>2 DEF StepTo
    <2>14. CASE q = r
      <3>1. PICK e \in Entry : e = entry[r]
        BY <1>0
      <3>2. entry'[r] = [e EXCEPT !.lastDoc = it.v]
        BY <1>0, <2>1, <2>14, <3>1
      <3>3. PICK f : f = entry'[r]
        OBVIOUS
      <3>4. /\ f.tracked = e.tracked /\ f.failed = e.failed /\ f.settled = e.settled /\ f.occ = e.occ
            /\ f.mark = e.mark /\ f.start = e.start /\ f.nils = e.nils /\ f.lastDoc = it.v
        BY <3>2, <3>3 DEF Entry
      <3>5. Open(e)
        BY <2>1, <2>14, <3>1 DEF Unsettled, Open
      <3>6. Open(f)
        BY <3>4, <3>5 DEF Open
      <3>7. \A v \in Queue(w', r) : v \in Queue(w, r) \/ \E i \in Said(w, r) : i.v = v /\ i.body.found
        BY <1>3, <2>1, <2>6, <2>10, <2>14
      <3>8. EntryKept(r)
        BY <3>1, <3>3, <3>4, <3>5, <3>6, <3>7 DEF EntryKept
      <3>9. NilSum(s, entry'[r])
        BY <1>3, <3>3, <3>4 DEF NilSum
      <3>10. EntryTo(r)
        BY <3>8, <3>9 DEF EntryTo
      <3>. QED  BY <2>11, <2>12, <3>10 DEF StepTo
    <2>. QED  BY <2>13, <2>14
  <1>13. CASE CountNil(q)
    <2>. DEFINE e == [entry[q] EXCEPT !.nils = @ \cup {Head(w.page).v}, !.remaining = @ - 1]
                base == [entry EXCEPT ![q] = e]
    <2>1. IF e.remaining = 0 /\ e.partial
          THEN Fail({q}, base, ItemDone, 0)
          ELSE /\ entry' = base
               /\ w' = IF e.remaining > 0 \/ q \in IdsIn(w.pending) THEN ItemDone
                       ELSE [ItemDone EXCEPT !.pc = "nils", !.how = Settling(e), !.ret = "walk",
                                             !.ids = {q}, !.todo = {q}]
      BY <1>13, Zenon DEF CountNil
    <2>2. e = WithNil(entry[q], it.v)
      BY <1>2 DEF WithNil
    <2>3. WithNil(entry[q], it.v) \in EntryIn(s) /\ Open(WithNil(entry[q], it.v)) /\ entry[q].remaining >= 1
      BY <1>0, <1>2, <1>13, NilOwed
    <2>4. e \in Entry /\ Open(e)
      BY <2>2, <2>3, EntrySets
    <2>5. ~it.body.found /\ Unsettled(q) /\ it.v \notin entry[q].nils
      BY <1>2, <1>13, Zenon DEF CountNil
    <2>6. PICK f \in Entry : f = e
      BY <2>4
    <2>7. base = [entry EXCEPT ![q] = f]
      BY <2>6
    <2>8. f = [entry[q] EXCEPT !.nils = @ \cup {it.v}, !.remaining = @ - 1]
      BY <1>2, <2>6
    <2>. HIDE DEF base, e
    <2>9. base \in [Roots -> Entry] /\ base[q] = f /\ (q # r => base[r] = entry[r])
      BY <1>0, <2>7
    <2>10. CASE e.remaining = 0 /\ e.partial
      <3>1. Fail({q}, base, x, 0)
        BY <1>4, <2>1, <2>10
      <3>. QED  BY <1>0, <1>7, <2>9, <3>1
    <2>11. CASE ~(e.remaining = 0 /\ e.partial)
      <3>1. PICK how : how = Settling(e)
        OBVIOUS
      <3>2. how \in {"nil", "leave", "remove"} /\ (how = "remove" => MayDelete)
        BY <3>1 DEF Settling
      <3>3. (w' = x \/ w' = Nilled(x, how, q)) /\ entry' = base
        BY <1>4, <2>1, <2>11, <3>1 DEF Nilled
      <3>4. PICK y \in Walk : y = w'
        BY DEF TypeNext
      <3>5. /\ y.pc \notin Drifting /\ (y.how = w.how \/ y.how = how) /\ y.start = w.start /\ y.page = x.page
            /\ y.inbox = x.inbox /\ y.pending = x.pending /\ ~Waiting(y)
        <4>1. CASE y = x
          BY <1>5, <4>1 DEF Drifting, Waiting
        <4>2. CASE y = Nilled(x, how, q)
          <5>1. /\ y.pc = "nils" /\ y.how = how /\ y.start = x.start /\ y.page = x.page
                /\ y.inbox = x.inbox /\ y.pending = x.pending
            BY <1>5, <3>2, <4>2, NilWalk
          <5>. QED  BY <1>5, <5>1 DEF Drifting, Waiting
        <4>. QED  BY <3>3, <3>4, <4>1, <4>2
      <3>6. Said(y, r) = Said(x, r)
        BY <3>5 DEF Said
      <3>7. Queue(y, r) \in SUBSET Queue(w, r)
        BY <1>5, <3>5 DEF Queue
      <3>8. WalkTo(r)
        BY <1>6, <3>2, <3>4, <3>5, <3>6 DEF WalkTo
      <3>9. DriftTo(r)
        BY <3>4, <3>5 DEF DriftTo
      <3>10. CASE q # r
        <4>1. entry'[r] = entry[r]
          BY <2>9, <3>3, <3>10
        <4>2. EntryTo(r)
          BY <3>4, <3>7, <4>1, KeepTo
        <4>. QED  BY <3>8, <3>9, <4>2 DEF StepTo
      <3>11. CASE q = r
        <4>1. PICK o \in Entry : o = entry[r]
          BY <1>0
        <4>2. f = [o EXCEPT !.nils = @ \cup {it.v}, !.remaining = @ - 1]
          BY <2>8, <3>11, <4>1
        <4>3. /\ f.occ = o.occ /\ f.mark = o.mark /\ f.start = o.start /\ f.nils = o.nils \cup {it.v}
              /\ f.lastDoc = o.lastDoc /\ f.partial = o.partial /\ f.remaining = o.remaining - 1
          BY <4>2 DEF Entry
        <4>4. Open(o) /\ Open(f) /\ entry'[r] = f
          <5>1. entry'[r] = f
            BY <2>9, <3>3, <3>11
          <5>2. Open(o)
            BY <2>5, <3>11, <4>1 DEF Unsettled, Open
          <5>. QED  BY <2>4, <2>6, <5>1, <5>2
        <4>5. EntryKept(r)
          BY <1>3, <2>5, <3>4, <3>7, <3>11, <4>1, <4>3, <4>4 DEF EntryKept
        <4>6. NilSum(s, o) => NilSum(s, f)
          <5>1. o.nils \in SUBSET Selected /\ IsFiniteSet(o.nils) /\ Cardinality(o.nils) \in Nat
            BY <1>0, <4>1, StateSets DEF Entry
          <5>2. Cardinality(f.nils) = Cardinality(o.nils) + 1
            <6>1. it.v \notin o.nils
              BY <2>5, <3>11, <4>1
            <6>2. Cardinality(o.nils \cup {it.v}) = Cardinality(o.nils) + 1
              BY <5>1, <6>1, FS_AddElement
            <6>. QED  BY <4>3, <6>2
          <5>3. o.remaining \in Nat
            <6>1. o \in EntryIn(s)
              BY EntrySets
            <6>. QED  BY <1>0, <6>1, SetupFacts, EntryFacts
          <5>. QED  BY <4>3, <4>4, <5>1, <5>2, <5>3 DEF NilSum
        <4>7. EntryTo(r)
          BY <4>1, <4>4, <4>5, <4>6 DEF EntryTo
        <4>. QED  BY <3>8, <3>9, <4>7 DEF StepTo
      <3>. QED  BY <3>10, <3>11
    <2>. QED  BY <2>10, <2>11
  <1>. QED  BY <1>8, <1>9, <1>10, <1>11, <1>12, <1>13 DEF ItemStep

\* What counting a root's documents leaves of its entry.
LEMMA CountTo ==
    ASSUME CoreInv, w.pc = "edges", NEW r \in Roots, NEW f, f = Counted(entry[r], Landed(r)), Open(entry[r])
    PROVE  /\ Open(f) /\ f.occ = entry[r].occ /\ f.mark = entry[r].mark /\ f.start = entry[r].start
           /\ f.nils = entry[r].nils
           /\ NilSum(used.setup, entry[r]) => NilSum(used.setup, f)
  <1>1. PICK e \in Entry : e = entry[r]
    BY DEF CoreInv, TypeOK
  <1>2. PICK k, m : f = e \/ f = [e EXCEPT !.remaining = k, !.lastCounted = m]
    BY <1>1 DEF Counted
  <1>3. /\ f.tracked = e.tracked /\ f.failed = e.failed /\ f.settled = e.settled /\ f.occ = e.occ
        /\ f.mark = e.mark /\ f.start = e.start /\ f.nils = e.nils /\ f.lastDoc = e.lastDoc /\ f.partial = e.partial
    BY <1>2 DEF Entry
  <1>4. CASE e.lastDoc # 0
    BY <1>1, <1>3, <1>4 DEF Open, NilSum
  <1>5. CASE e.lastDoc = 0
    <2>1. TypeOK /\ RootOK(used.setup, w, e, docs[r], r)
      BY <1>1 DEF CoreInv, RootInv
    <2>2. \A v \in Queue(w, r) : v <= 0
      BY <1>1, <1>5, <2>1 DEF RootOK, Books, Accounted
    <2>3. Queue(w, r) \in SUBSET (Nat \ {0})
      <3>1. Queue(w, r) \in SUBSET Selected /\ Selected \subseteq Versions /\ Versions \subseteq Nat \ {0}
        BY <2>1, RootTypes, StateSets
      <3>. QED  BY <3>1
    <2>4. Queue(w, r) = {}
      BY <2>2, <2>3
    <2>5. Of(w.chunk, r) = {}
      BY <2>4 DEF Queue, Waiting
    <2>6. Landed(r) = {}
      <3>1. SUFFICES ASSUME NEW v \in Selected, <<r, v>> \in ChunkKeys
                     PROVE  FALSE
        BY DEF Landed
      <3>2. PICK i \in DOMAIN w.chunk : w.chunk[i].id = r /\ w.chunk[i].v = v
        BY <3>1 DEF ChunkKeys
      <3>3. w.chunk[i] \in Range(w.chunk)
        BY DEF Range
      <3>. QED  BY <2>5, <3>2, <3>3 DEF Of
    <2>7. Cardinality(Landed(r) \ {e.lastCounted}) = 0
      BY <2>6, FS_EmptySet
    <2>8. f = e
      BY <1>1, <2>7 DEF Counted
    <2>. QED  BY <1>1, <2>8
  <1>. QED  BY <1>4, <1>5

\* What the flusher's steps do.
LEMMA FlusherTo ==
    ASSUME CoreInv, TypeNext, NEW r \in Roots,
           \/ BulkUpsert \/ CountDocs \/ CheckDrift \/ Narrow \/ CheckDriftFails
           \/ \E q \in Roots : SettleStep(q) \/ StoreEdgesFails(q) \/ DropNilsFails(q)
    PROVE  StepTo(r)
  <1>0. TypeOK /\ WalkInv /\ w \in Walk /\ entry \in [Roots -> Entry] /\ 0 \in Nat /\ 1 \in Nat
    BY DEF CoreInv, TypeOK
  <1>1. ASSUME NEW y \in Walk, SameWalk(w, y), Waiting(y) => Waiting(w)
        PROVE  Queue(y, r) \in SUBSET Queue(w, r) /\ Said(y, r) = Said(w, r)
    BY <1>1 DEF SameWalk, Queue, Said
  <1>2. ASSUME NEW S \in SUBSET Roots, NEW base \in [Roots -> Entry], NEW y \in Walk, NEW cost \in Nat,
               Fail(S, base, y, cost), SameWalk(w, y), Waiting(y) => Waiting(w),
               r \notin S => base[r] = entry[r] /\ (y.pc \in Drifting => y.pc = w.pc /\ (r \in w.todo => r \in y.todo))
        PROVE  StepTo(r)
    <2>1. /\ r \in S => EntryTo(r) /\ ~Open(entry'[r])
          /\ r \notin S => entry'[r] = base[r]
          /\ w' \in Walk /\ Queue(w', r) \in SUBSET Queue(y, r) /\ Said(w', r) = Said(y, r)
          /\ w'.start = y.start /\ w'.how = y.how /\ w'.pc = y.pc /\ w'.ids = y.ids
          /\ w'.todo = y.todo
      BY <1>0, <1>2, FailTo
    <2>2. Queue(y, r) \in SUBSET Queue(w, r) /\ Said(y, r) = Said(w, r)
      BY <1>1, <1>2
    <2>3. y.start = w.start /\ y.how = w.how /\ y.ids = w.ids
      BY <1>2 DEF SameWalk
    <2>4. WalkTo(r)
      BY <2>1, <2>2, <2>3, SaidKept
    <2>5. CASE r \in S
      <3>1. DriftTo(r)
        BY <2>1, <2>5 DEF DriftTo
      <3>. QED  BY <2>1, <2>4, <2>5, <3>1 DEF StepTo
    <2>6. CASE r \notin S
      <3>1. EntryTo(r)
        BY <1>2, <2>1, <2>2, <2>6, KeepTo
      <3>2. DriftTo(r)
        BY <1>2, <2>1, <2>3, <2>6, DriftKept
      <3>. QED  BY <2>4, <3>1, <3>2 DEF StepTo
    <2>. QED  BY <2>5, <2>6
  <1>3. CASE \/ BulkUpsert \/ CheckDrift \/ CheckDriftFails \/ Narrow
             \/ \E q \in Roots : StoreEdges(q) \/ DropNils(q)
    <2>1. /\ SameWalk(w, w') /\ w.pc \in Flusher /\ w'.pc \in Flusher
          /\ w.pc \in Applying => w'.pc \in Applying
      BY <1>0, <1>3, WalkFlusher
    <2>2. entry' = entry
      BY <1>3, Zenon DEF BulkUpsert, CheckDrift, CheckDriftFails, Narrow, StoreEdges, DropNils
    <2>3. PICK y \in Walk : y = w'
      BY DEF TypeNext
    <2>4. Waiting(y) => Waiting(w)
      BY <2>1, <2>3 DEF Waiting, Flusher, Applying
    <2>5. Queue(y, r) \in SUBSET Queue(w, r) /\ Said(y, r) = Said(w, r)
      BY <1>1, <2>1, <2>3, <2>4
    <2>6. EntryTo(r)
      BY <2>2, <2>3, <2>5, KeepTo
    <2>7. WalkTo(r)
      BY <2>1, <2>3, <2>5, SaidKept DEF SameWalk
    <2>8. DriftTo(r)
      <3>1. SUFFICES ASSUME r \in w'.ids, w'.pc \in Drifting, Open(entry'[r]), ~Given(used.setup),
                            changed[r] > entry[r].start
                     PROVE  r \in w'.todo \/ (w.pc \in Drifting /\ r \in w.ids /\ r \notin w.todo)
        BY DEF DriftTo
      <3>2. r \in w.ids /\ Unsettled(r) /\ ~Targeted /\ ChangedSince(r)
        BY <1>0, <2>1, <2>2, <3>1, StateSets DEF SameWalk, Unsettled, Open, ChangedSince
      <3>3. r \in Checked
        BY <3>2 DEF Checked
      <3>4. CASE BulkUpsert
        <4>1. PICK a, b : w' = [w EXCEPT !.pc = "edges", !.rejected = a, !.todo = b]
          BY <3>4 DEF BulkUpsert
        <4>2. w'.pc = "edges"
          BY <1>0, <4>1 DEF Walk
        <4>. QED  BY <3>1, <4>2 DEF Drifting
      <3>5. ASSUME NEW q \in Roots, StoreEdges(q) \/ DropNils(q)
            PROVE  FALSE
        <4>1. w' = [w EXCEPT !.todo = @ \ {q}] /\ w.pc \notin Drifting
          BY <3>5 DEF StoreEdges, DropNils, Took, Drifting
        <4>2. w'.pc = w.pc
          BY <1>0, <4>1, TookFacts
        <4>. QED  BY <3>1, <4>1, <4>2
      <3>6. CASE CheckDrift
        <4>1. PICK c, p, h : w' = [w EXCEPT !.pc = p, !.hit = h, !.todo = IF c THEN Checked ELSE {}]
                             /\ c = (\E q \in Checked : ChangedSince(q))
          BY <3>6, Zenon DEF CheckDrift
        <4>2. c
          BY <3>2, <3>3, <4>1
        <4>3. w'.todo = Checked
          BY <1>0, <4>1, <4>2 DEF Walk
        <4>. QED  BY <3>3, <4>3
      <3>7. CASE CheckDriftFails
        <4>1. PICK p : w' = [w EXCEPT !.pc = p, !.hit = FALSE, !.todo = Checked]
          BY <3>7, Zenon DEF CheckDriftFails
        <4>2. w'.todo = Checked
          BY <1>0, <4>1 DEF Walk
        <4>. QED  BY <3>3, <4>2
      <3>8. CASE Narrow
        <4>1. w.pc = "narrow"
          BY <3>8 DEF Narrow
        <4>2. PICK errs \in SUBSET w.todo :
                w' = [w EXCEPT !.pc = "remark",
                        !.todo = IF w.hit /\ {q \in w.todo \ errs : ChangedSince(q)} = {} THEN w.todo
                                 ELSE errs \cup {q \in w.todo \ errs : ChangedSince(q)}]
          BY <3>8 DEF Narrow
        <4>3. PICK T : T = {q \in w.todo \ errs : ChangedSince(q)}
          OBVIOUS
        <4>4. w'.todo = IF w.hit /\ T = {} THEN w.todo ELSE errs \cup T
          BY <1>0, <4>2, <4>3 DEF Walk
        <4>5. r \in w.todo => r \in errs \/ r \in T
          BY <3>2, <4>3
        <4>. QED  BY <3>2, <4>1, <4>4, <4>5 DEF Drifting
      <3>. QED  BY <1>3, <3>4, <3>5, <3>6, <3>7, <3>8
    <2>. QED  BY <2>6, <2>7, <2>8 DEF StepTo
  <1>4. CASE CountDocs
    <2>1. w.pc = "edges"
      BY <1>4 DEF CountDocs
    <2>2. PICK R \in SUBSET Roots, base \in [Roots -> Entry], T \in SUBSET Roots, y \in Walk : CountsTo(R, base, T, y)
      BY <1>0, <1>4, CountFacts
    <2>3. Fail(R, base, y, 0) /\ SameWalk(w, y) /\ y.pc = "nils"
      BY <2>2 DEF CountsTo
    <2>4. Waiting(y) => Waiting(w)
      BY <2>3 DEF Waiting
    <2>5. CASE r \in R \/ base[r] = entry[r]
      BY <1>0, <1>2, <2>3, <2>4, <2>5 DEF Drifting
    <2>6. CASE r \notin R /\ base[r] # entry[r]
      <3>1. Open(entry[r]) /\ base[r] = Counted(entry[r], Landed(r))
        BY <2>2, <2>6 DEF CountsTo
      <3>2. /\ entry'[r] = base[r]
            /\ Queue(w', r) \in SUBSET Queue(y, r) /\ Said(w', r) = Said(y, r)
            /\ w'.start = y.start /\ w'.how = y.how /\ w'.pc = y.pc
        <4>1. TypeOK /\ 0 \in Nat /\ Fail(R, base, y, 0)
          BY <1>0, <2>3
        <4>2. /\ r \notin R => entry'[r] = base[r]
              /\ Queue(w', r) \in SUBSET Queue(y, r) /\ Said(w', r) = Said(y, r)
              /\ w'.start = y.start /\ w'.how = y.how /\ w'.pc = y.pc
          BY <4>1, FailTo
        <4>. QED  BY <2>6, <4>2
      <3>3. Queue(y, r) \in SUBSET Queue(w, r) /\ Said(y, r) = Said(w, r)
        BY <1>1, <2>3, <2>4
      <3>4. y.start = w.start /\ y.how = w.how
        BY <2>3 DEF SameWalk
      <3>5. WalkTo(r)
        BY <3>2, <3>3, <3>4, SaidKept
      <3>6. DriftTo(r)
        BY <2>3, <3>2 DEF DriftTo, Drifting
      <3>7. PICK f : f = entry'[r]
        OBVIOUS
      <3>8. f = Counted(entry[r], Landed(r))
        BY <3>1, <3>2, <3>7
      <3>9. /\ Open(f) /\ f.occ = entry[r].occ /\ f.mark = entry[r].mark /\ f.start = entry[r].start
            /\ f.nils = entry[r].nils
            /\ NilSum(used.setup, entry[r]) => NilSum(used.setup, f)
        BY <2>1, <3>1, <3>8, CountTo
      <3>10. EntryKept(r)
        BY <3>1, <3>2, <3>3, <3>7, <3>9 DEF EntryKept
      <3>11. EntryTo(r)
        BY <3>7, <3>9, <3>10 DEF EntryTo
      <3>. QED  BY <3>5, <3>6, <3>11 DEF StepTo
    <2>. QED  BY <2>5, <2>6
  <1>5. ASSUME NEW q \in Roots,
               \/ StoreEdgesFails(q) \/ DropNilsFails(q) \/ LeaveGone(q) \/ Remark(q)
               \/ Complete(q) \/ FailPartial(q) \/ RemoveRow(q)
        PROVE  StepTo(r)
    <2>0. SameWalk(w, w)
      BY DEF SameWalk
    <2>1. PICK y : y = Took(q)
      OBVIOUS
    <2>2. y = [w EXCEPT !.todo = @ \ {q}]
      BY <2>1 DEF Took
    <2>3. y \in Walk /\ SameWalk(w, y) /\ y.pc = w.pc /\ y.todo = w.todo \ {q}
      BY <1>0, <2>2, TookFacts
    <2>4. {q} \in SUBSET Roots /\ Cardinality({q}) = 1
      BY FS_Singleton
    <2>5. ASSUME NEW cost \in Nat, Fail({q}, entry, w, cost) \/ Fail({q}, entry, y, cost)
          PROVE  StepTo(r)
      <3>1. Waiting(y) => Waiting(w)
        BY <2>3 DEF Waiting
      <3>2. r \notin {q} => (r \in w.todo => r \in y.todo)
        BY <2>3
      <3>3. CASE Fail({q}, entry, w, cost)
        BY <1>0, <1>2, <2>0, <2>4, <3>3
      <3>4. CASE Fail({q}, entry, y, cost)
        BY <1>0, <1>2, <2>3, <2>4, <3>1, <3>2, <3>4
      <3>. QED  BY <2>5, <3>3, <3>4
    <2>6. ASSUME rows' = MarkedRows({q}), seq' = seq + 1
          PROVE  q = r => RowMarked(r)
      BY <1>0, <2>4, <2>6, MarkRow
    <2>7. ASSUME Settle(q), w' = w, q = r => RowMarked(r) \/ Complete(r) \/ RemoveRow(r)
          PROVE  StepTo(r)
      <3>1. WalkTo(r)
        BY <2>7, SaidKept
      <3>2. DriftTo(r)
        BY <2>7, DriftKept
      <3>3. EntryTo(r)
        <4>1. CASE q # r
          <5>1. entry'[r] = entry[r]
            BY <1>0, <2>7, <4>1, SettleFacts
          <5>. QED  BY <2>7, <5>1, KeepTo
        <4>2. CASE q = r
          <5>1. ~Open(entry'[r])
            BY <1>0, <2>7, <4>2, SettleFacts, EntryTypes DEF Open
          <5>. QED  BY <2>7, <4>2, <5>1 DEF EntryTo, EntryShut, NilSum
        <4>. QED  BY <4>1, <4>2
      <3>. QED  BY <3>1, <3>2, <3>3 DEF StepTo
    <2>8. CASE StoreEdgesFails(q) \/ DropNilsFails(q) \/ FailPartial(q)
      BY <1>0, <2>1, <2>5, <2>8 DEF StoreEdgesFails, DropNilsFails, FailPartial
    <2>9. CASE LeaveGone(q)
      <3>1. (rows' = MarkedRows({q}) /\ seq' = seq + 1 /\ Settle(q) /\ w' = w) \/ Fail({q}, entry, w, 1)
        BY <2>9 DEF LeaveGone
      <3>. QED  BY <1>0, <2>5, <2>6, <2>7, <3>1
    <2>10. CASE Remark(q)
      <3>1. (rows' = MarkedRows({q}) /\ seq' = seq + 1 /\ w' = y /\ entry' = entry) \/ Fail({q}, entry, y, 1)
        BY <2>1, <2>10 DEF Remark
      <3>2. CASE rows' = MarkedRows({q}) /\ seq' = seq + 1 /\ w' = y /\ entry' = entry
        <4>1. Waiting(y) => Waiting(w)
          BY <2>3 DEF Waiting
        <4>2. Queue(y, r) \in SUBSET Queue(w, r) /\ Said(y, r) = Said(w, r)
          BY <1>1, <2>3, <4>1
        <4>3. EntryTo(r)
          BY <3>2, <4>2, KeepTo
        <4>4. WalkTo(r)
          BY <2>3, <3>2, <4>2, SaidKept DEF SameWalk
        <4>5. CASE q = r
          <5>1. RowMarked(r)
            BY <2>6, <3>2, <4>5
          <5>2. DriftTo(r)
            BY <5>1 DEF DriftTo
          <5>. QED  BY <4>3, <4>4, <5>2 DEF StepTo
        <4>6. CASE q # r
          <5>1. DriftTo(r)
            BY <2>3, <3>2, <4>6, DriftKept DEF SameWalk
          <5>. QED  BY <4>3, <4>4, <5>1 DEF StepTo
        <4>. QED  BY <4>5, <4>6
      <3>. QED  BY <1>0, <2>5, <3>1, <3>2
    <2>11. CASE Complete(q)
      <3>1. Settle(q) /\ w' = w
        BY <2>11 DEF Complete
      <3>. QED  BY <2>7, <2>11, <3>1
    <2>12. CASE RemoveRow(q)
      <3>1. (Settle(q) /\ w' = w) \/ Fail({q}, entry, w, 1)
        BY <2>12 DEF RemoveRow
      <3>. QED  BY <1>0, <2>5, <2>7, <2>12, <3>1
    <2>. QED  BY <1>5, <2>8, <2>9, <2>10, <2>11, <2>12
  <1>. QED  BY <1>3, <1>4, <1>5 DEF SettleStep

\* What every step does to what the rebuild knows of a root.
LEMMA StepMoves ==
    ASSUME CoreInv, Next, w.start <= seq, NEW r \in Roots
    PROVE  StepTo(r)
  <1>0. TypeOK /\ TypeNext /\ w \in Walk
    BY CoreTypes DEF CoreInv, TypeOK
  <1>1. CASE w' = w /\ entry' = entry
    <2>1. EntryTo(r)
      BY <1>1, KeepTo
    <2>2. WalkTo(r)
      BY <1>1, SaidKept
    <2>3. DriftTo(r)
      BY <1>1, DriftKept
    <2>. QED  BY <2>1, <2>2, <2>3 DEF StepTo
  <1>2. CASE FlusherReturns
    <2>1. /\ w.pc \in Applying /\ w'.pc = w.ret /\ w'.start = w.start /\ w'.inbox = w.inbox
          /\ w'.page = w.page /\ w'.pending = w.pending /\ w.ret \in {"plan", "walk", "finish"}
      BY <1>0, <1>2, ReturnWalk, WalkFacts
    <2>2. w'.how = "flush"
      <3>1. PICK p : w' = [w EXCEPT !.pc = p, !.how = "flush", !.ret = "walk", !.ids = {}, !.chunk = <<>>, !.hit = FALSE]
        BY <1>2 DEF FlusherReturns
      <3>. QED  BY <1>0, <3>1 DEF Walk
    <2>3. Queue(w', r) \in SUBSET Queue(w, r) /\ Said(w', r) = Said(w, r)
      BY <2>1 DEF Queue, Waiting, Said
    <2>4. entry' = entry
      BY <1>2 DEF FlusherReturns
    <2>5. EntryTo(r)
      BY <2>3, <2>4, KeepTo
    <2>6. WalkTo(r)
      BY <2>1, <2>2, <2>3, SaidKept
    <2>7. DriftTo(r)
      BY <2>1 DEF DriftTo, Drifting
    <2>. QED  BY <2>5, <2>6, <2>7 DEF StepTo
  <1>3. CASE \/ StartAttempt \/ Execute \/ FlushBeforePlan \/ FetchPage \/ TakePage \/ PageConsumed \/ EndPlan
             \/ Finish \/ Crash \/ Abort \/ BulkFails
    BY <1>0, <1>3, LoopTo
  <1>4. CASE BeginBatch \/ BatchFails \/ AskPlans \/ BatchDone \/ EndBatches
    BY <1>0, <1>4, BatchTo
  <1>5. CASE \E q \in Roots : ItemStep(q) \/ BeginItemFails(q)
    BY <1>0, <1>5, ItemTo
  <1>6. CASE \/ BulkUpsert \/ CountDocs \/ CheckDrift \/ Narrow \/ CheckDriftFails
             \/ \E q \in Roots : SettleStep(q) \/ StoreEdgesFails(q) \/ DropNilsFails(q)
    BY <1>0, <1>6, FlusherTo
  <1>7. CASE \/ Beat \/ Rest \/ \E q \in Roots : ChangeRoot(q) \/ LiveBegin(q) \/ LiveEnd(q)
             \/ \E c \in Kids : ChangeKid(c)
             \/ \E y \in Things : Register(y)
    <2>1. w' = w /\ entry' = entry
      BY <1>7, Zenon DEF Beat, Rest, vars, ChangeRoot, LiveBegin, LiveEnd, ChangeKid, Register
    <2>. QED  BY <1>1, <2>1
  <1>. QED  BY <1>2, <1>3, <1>4, <1>5, <1>6, <1>7 DEF Next, WalkStep, LoopStep, FlushStep, Failure

-----------------------------------------------------------------------------
(* The invariant of a row *)

\* A root's live build begins.
LiveBegun(r) ==
    /\ rows[r].stale /\ rows' = rows /\ seq' = seq + 1 /\ entry' = entry /\ docs' = docs
    /\ live'[r].idx = seq + 1 /\ live'[r].mark = rows[r].mark
    /\ \A v \in Versions : live'[r].out[v] = Truth(r, v)

\* What every step does to a root's live build.
LEMMA LiveMoves ==
    ASSUME CoreInv, Next, NEW r \in Roots
    PROVE  live'[r] = live[r] \/ live'[r].idx = 0 \/ LiveBegun(r)
  <1>0. TypeOK /\ live \in [Roots -> Live]
    BY DEF CoreInv, TypeOK
  <1>1. CASE live' = live
    BY <1>1
  <1>2. CASE LoopStep
    BY <1>1, <1>2 DEF LoopStep, StartAttempt, Execute, FlushBeforePlan, FetchPage, TakePage, PageConsumed,
                      EndPlan, BeginBatch, AskPlans, BatchDone, EndBatches, Finish
  <1>3. CASE FlushStep \/ CheckDriftFails
    <2>1. live' = live
      BY <1>3, Zenon DEF FlushStep, BulkUpsert, CountDocs, CheckDrift, Narrow, FlusherReturns, CheckDriftFails
    <2>. QED  BY <1>1, <2>1
  <1>4. ASSUME NEW q \in Roots, ItemStep(q) \/ BeginItemFails(q) \/ SettleStep(q) \/ StoreEdgesFails(q) \/ DropNilsFails(q)
        PROVE  live' = live
    BY <1>4, Zenon DEF ItemStep, BeginItem, BeginItemFails, AddDoc, SkipItem, Contradiction, CountNil,
                       SettleStep, StoreEdges, StoreEdgesFails, DropNils, DropNilsFails, LeaveGone, Remark,
                       Complete, FailPartial, RemoveRow
  <1>5. CASE Abort \/ Crash \/ BatchFails \/ BulkFails
    BY <1>1, <1>5 DEF Abort, Crash, BatchFails, BulkFails
  <1>6. CASE \/ Beat \/ Rest \/ \E q \in Roots : ChangeRoot(q)
             \/ \E c \in Kids : ChangeKid(c)
             \/ \E y \in Things : Register(y)
    BY <1>1, <1>6 DEF Beat, Rest, vars, ChangeRoot, ChangeKid, Register
  <1>7. ASSUME NEW q \in Roots, LiveBegin(q)
        PROVE  live'[r] = live[r] \/ LiveBegun(r)
    <2>. DEFINE l == [idx |-> seq + 1, mark |-> rows[q].mark, out |-> [v \in Versions |-> Truth(q, v)]]
    <2>1. live' = [live EXCEPT ![q] = l] /\ entry' = entry /\ docs' = docs /\ seq' = seq + 1 /\ rows' = rows
          /\ rows[q].stale
      BY <1>7 DEF LiveBegin, store
    <2>2. l.idx = seq + 1 /\ l.mark = rows[q].mark /\ \A v \in Versions : l.out[v] = Truth(q, v)
      OBVIOUS
    <2>. HIDE DEF l
    <2>3. live'[r] = IF r = q THEN l ELSE live[r]
      BY <1>0, <2>1
    <2>. QED  BY <2>1, <2>2, <2>3 DEF LiveBegun
  <1>8. ASSUME NEW q \in Roots, LiveEnd(q)
        PROVE  live'[r] = live[r] \/ live'[r].idx = 0
    <2>1. live' = [live EXCEPT ![q] = NoLive] /\ NoLive.idx = 0
      BY <1>8 DEF LiveEnd, NoLive
    <2>. QED  BY <1>0, <2>1
  <1>. QED  BY <1>1, <1>2, <1>3, <1>4, <1>5, <1>6, <1>7, <1>8 DEF Next, WalkStep, Failure

\* The types of what a row's invariant is about.
LEMMA RowNow ==
    ASSUME CoreInv, NEW r \in Roots
    PROVE  /\ seq \in Nat /\ rows[r].mark \in Nat /\ rows[r].present \in BOOLEAN /\ changed[r] \in Nat
           /\ live[r].idx \in Nat /\ live[r].mark \in Nat /\ w.start \in Nat
           /\ entry[r].occ \in Nat /\ entry[r].mark \in Nat /\ entry[r].start \in Nat
           /\ \A v \in Versions : docs[r][v].ver \in Nat
           /\ \A v \in Versions : docs[r][v].ver <= seq
           /\ live[r].idx <= seq /\ entry[r].occ <= seq
           /\ live[r].idx # 0 => live[r].idx # entry[r].occ
           /\ live[r] # NoLive => live[r].idx # 0
  <1>1. TypeOK /\ TypeNow /\ Drawn(used.setup, entry[r], docs[r], live[r], seq) /\ r \in Things
    BY TypeFacts DEF CoreInv, DrawnInv, Things
  <1>2. rows[r] \in Row /\ live[r] \in Live /\ entry[r] \in Entry /\ changed[r] \in Nat /\ seq \in Nat
    BY <1>1 DEF TypeNow
  <1>3. w.start \in Nat
    BY <1>1, WalkFacts DEF TypeNow
  <1>4. \A v \in Versions : docs[r][v].ver \in Nat
    BY <1>1 DEF TypeNow, Doc
  <1>5. NoLive = NoLiveIn(used.setup) /\ NoLive.idx = 0
    BY DEF NoLive, NoLiveIn, Versions
  <1>6. /\ \A v \in Versions : docs[r][v].ver <= seq
        /\ live[r].idx <= seq /\ entry[r].occ <= seq
        /\ live[r] = NoLive \/ (live[r].idx > 1 /\ live[r].idx # entry[r].occ)
    BY <1>1, <1>5 DEF Drawn, Versions
  <1>. QED  BY <1>2, <1>3, <1>4, <1>5, <1>6 DEF Row, Live, Entry

\* The same of the next state.
LEMMA RowNext ==
    ASSUME CoreInv, Next, NEW r \in Roots
    PROVE  /\ seq' \in Nat /\ seq' >= seq /\ rows'[r].mark \in Nat /\ rows'[r].present \in BOOLEAN
           /\ live'[r].idx \in Nat /\ live'[r].mark \in Nat /\ w'.start \in Nat
           /\ entry'[r].occ \in Nat /\ entry'[r].mark \in Nat /\ entry'[r].start \in Nat
           /\ \A v \in Versions : docs'[r][v].ver \in Nat
           /\ changed'[r] \in Nat
           /\ used'.setup = used.setup /\ Roots' = Roots /\ Versions' = Versions /\ Selected' = Selected
  <1>1. TypeNext /\ r \in Things
    BY CoreTypes DEF Things
  <1>2. rows'[r] \in Row /\ live'[r] \in Live /\ entry'[r] \in Entry /\ seq' \in Nat /\ changed'[r] \in Nat
    BY <1>1 DEF TypeNext
  <1>3. w'.start \in Nat
    BY <1>1, WalkFacts DEF TypeNext
  <1>4. \A v \in Versions : docs'[r][v].ver \in Nat
    BY <1>1 DEF TypeNext, Doc
  <1>5. seq' >= seq
    BY <1>1, OccStep DEF CoreInv, OccTo
  <1>6. used'.setup = used.setup /\ Roots' = Roots /\ Versions' = Versions /\ Selected' = Selected
    BY <1>1, SetsKept DEF TypeNext
  <1>. QED  BY <1>2, <1>3, <1>4, <1>5, <1>6 DEF Row, Live, Entry

\* Numbers stay drawn.
LEMMA NumberedStep ==
    ASSUME CoreInv, Next, NEW r \in Roots, Numbered(r)
    PROVE  Numbered(r)'
  <1>1. w.start <= seq
    BY DEF Numbered
  <1>2. StepTo(r) /\ RowTo(r) /\ (live'[r] = live[r] \/ live'[r].idx = 0 \/ LiveBegun(r))
    BY <1>1, StepMoves, RowMoves, LiveMoves
  <1>3. /\ seq \in Nat /\ rows[r].mark \in Nat /\ w.start \in Nat /\ entry[r].start \in Nat
        /\ live[r].idx \in Nat /\ live[r].mark \in Nat /\ entry[r].occ \in Nat /\ entry[r].mark \in Nat
    BY RowNow
  <1>4. /\ seq' \in Nat /\ seq' >= seq /\ rows'[r].mark \in Nat /\ w'.start \in Nat /\ entry'[r].start \in Nat
        /\ live'[r].idx \in Nat /\ live'[r].mark \in Nat /\ entry'[r].occ \in Nat /\ entry'[r].mark \in Nat
    BY RowNext
  <1>5. rows'[r].mark <= seq' /\ (rows'[r].stale => rows'[r].mark > 0 /\ rows'[r].present)
    <2>1. CASE RowKept(r)
      BY <1>3, <1>4, <2>1 DEF RowKept, Numbered
    <2>2. CASE RowMarked(r)
      BY <1>3, <1>4, <2>2 DEF RowMarked
    <2>3. CASE RowDropped(r)
      BY <1>4, <2>3 DEF RowDropped, NoRow
    <2>. QED  BY <1>2, <2>1, <2>2, <2>3 DEF RowTo
  <1>6. w'.start <= seq'
    <2>1. w'.start \in {0, w.start} \/ (w'.start = seq + 1 /\ seq' = seq + 1)
      BY <1>2 DEF StepTo, WalkTo
    <2>. QED  BY <1>1, <1>3, <1>4, <2>1
  <1>7. live'[r].idx # 0 => live'[r].mark > 0 /\ live'[r].mark < live'[r].idx
    <2>1. CASE live'[r] = live[r]
      BY <2>1 DEF Numbered
    <2>2. CASE LiveBegun(r)
      BY <1>3, <2>2 DEF LiveBegun, Numbered
    <2>. QED  BY <1>2, <2>1, <2>2
  <1>8. Open(entry'[r]) => /\ entry'[r].mark < entry'[r].occ /\ entry'[r].start <= seq'
                           /\ w'.start # 0 => entry'[r].start <= w'.start
    <2>1. CASE EntryShut(r)
      BY <2>1 DEF EntryShut
    <2>2. CASE EntryKept(r)
      <3>1. /\ entry'[r].occ = entry[r].occ /\ entry'[r].mark = entry[r].mark /\ entry'[r].start = entry[r].start
            /\ entry[r].mark < entry[r].occ /\ entry[r].start <= seq
            /\ w.start # 0 => entry[r].start <= w.start
        BY <2>2 DEF EntryKept, Numbered
      <3>2. w'.start \in {0, w.start} \/ (w'.start = seq + 1 /\ seq' = seq + 1)
        BY <1>2 DEF StepTo, WalkTo
      <3>. QED  BY <1>3, <1>4, <3>1, <3>2
    <2>3. CASE EntryBegun(r)
      <3>1. rows[r].mark <= seq
        BY DEF Numbered
      <3>2. /\ entry'[r].occ > seq /\ entry'[r].mark = rows[r].mark
            /\ entry'[r].start <= seq' /\ (w'.start # 0 => entry'[r].start <= w'.start)
        BY <2>3 DEF EntryBegun
      <3>. QED  BY <1>3, <1>4, <3>1, <3>2
    <2>. QED  BY <1>2, <2>1, <2>2, <2>3 DEF StepTo, EntryTo
  <1>. QED  BY <1>5, <1>6, <1>7, <1>8 DEF Numbered

\* An open root's row is not dropped: a live delete of it exposes it.
LEMMA KeptCalm ==
    ASSUME CoreInv, Next, NEW r \in Roots, Numbered(r), Calm(r)', EntryKept(r)
    PROVE  /\ has'[r] = has[r]
           /\ \/ RowMarked(r) /\ Moved(r)' /\ rows'[r].mark > entry'[r].occ
              \/ /\ RowKept(r) /\ Calm(r) /\ (Moved(r)' <=> Moved(r)) /\ changed'[r] = changed[r]
  <1>1. RowTo(r) /\ CalmTo(r) /\ TypeOK /\ TypeNext
    BY RowMoves, CalmMoves, CoreTypes DEF CoreInv
  <1>2. /\ entry'[r].occ = entry[r].occ /\ entry'[r].mark = entry[r].mark /\ entry[r].mark < entry[r].occ
        /\ Open(entry[r]) /\ Open(entry'[r])
    BY DEF EntryKept, Numbered
  <1>3. seq \in Nat /\ entry[r].occ \in Nat /\ entry[r].mark \in Nat /\ entry[r].occ <= seq
    BY RowNow
  <1>4. rows'[r].mark \in Nat
    BY RowNext
  <1>5. ~RowDropped(r)
    <2>1. Fetched(r)
      BY <1>2 DEF Fetched, Unsettled, Open
    <2>. QED  BY <1>2, <2>1 DEF RowDropped, Calm
  <1>6. CASE RowMarked(r)
    <2>1. rows'[r].mark > seq
      BY <1>6 DEF RowMarked
    <2>2. rows'[r].mark > entry'[r].occ /\ rows'[r].mark # entry'[r].mark
      BY <1>2, <1>3, <1>4, <2>1
    <2>. QED  BY <1>1, <1>6, <2>2 DEF Moved, CalmTo
  <1>7. CASE RowKept(r) /\ ~RowMarked(r)
    <2>1. Calm(r) /\ has'[r] = has[r]
      BY <1>1, <1>7 DEF CalmTo
    <2>2. ~Register(r)
      BY <1>1, <1>7, RegisterRow DEF Things
    <2>3. changed'[r] = changed[r]
      BY <1>1, <1>5, <2>2 DEF CalmTo
    <2>. QED  BY <1>2, <1>7, <2>1, <2>3 DEF Moved, RowKept
  <1>. QED  BY <1>1, <1>5, <1>6, <1>7 DEF RowTo

\* An open root keeps its row, and is marked or as the rebuild began it.
LEMMA MarkedSinceStep ==
    ASSUME CoreInv, Next, NEW r \in Roots, RowInv(r)
    PROVE  MarkedSince(r)'
  <1>1. SUFFICES ASSUME Calm(r)', Open(entry'[r])
                 PROVE  /\ rows'[r].present
                        /\ Moved(r)' => rows'[r].mark > entry'[r].occ
                        /\ live'[r].idx > entry'[r].occ /\ ~Moved(r)' => live'[r].mark = entry'[r].mark
    BY DEF MarkedSince
  <1>2. Numbered(r) /\ MarkedSince(r) /\ w.start <= seq
    BY DEF RowInv, Numbered
  <1>3. StepTo(r) /\ (live'[r] = live[r] \/ live'[r].idx = 0 \/ LiveBegun(r))
    BY <1>2, StepMoves, LiveMoves
  <1>4. seq \in Nat /\ live[r].idx \in Nat /\ live[r].idx <= seq /\ entry[r].occ \in Nat
    BY RowNow
  <1>5. entry'[r].occ \in Nat /\ live'[r].idx \in Nat
    BY RowNext
  <1>6. CASE EntryKept(r)
    <2>1. \/ RowMarked(r) /\ Moved(r)' /\ rows'[r].mark > entry'[r].occ
          \/ RowKept(r) /\ Calm(r) /\ (Moved(r)' <=> Moved(r))
      BY <1>1, <1>2, <1>6, KeptCalm
    <2>2. CASE RowMarked(r) /\ Moved(r)' /\ rows'[r].mark > entry'[r].occ
      BY <2>2 DEF RowMarked
    <2>3. CASE RowKept(r) /\ Calm(r) /\ (Moved(r)' <=> Moved(r))
      <3>1. /\ rows[r].present
            /\ Moved(r) => rows[r].mark > entry[r].occ
            /\ live[r].idx > entry[r].occ /\ ~Moved(r) => live[r].mark = entry[r].mark
        BY <1>2, <1>6, <2>3 DEF MarkedSince, EntryKept
      <3>2. rows'[r].present /\ rows'[r].mark = rows[r].mark
        BY <2>3, <3>1 DEF RowKept
      <3>3. entry'[r].occ = entry[r].occ /\ entry'[r].mark = entry[r].mark
        BY <1>6 DEF EntryKept
      <3>4. live'[r].idx > entry'[r].occ /\ ~Moved(r) => live'[r].mark = entry'[r].mark
        <4>1. CASE live'[r] = live[r]
          BY <3>1, <3>3, <4>1
        <4>2. CASE live'[r].idx = 0
          BY <1>5, <4>2
        <4>3. CASE LiveBegun(r)
          BY <3>3, <4>3 DEF LiveBegun, Moved
        <4>. QED  BY <1>3, <4>1, <4>2, <4>3
      <3>. QED  BY <2>3, <3>1, <3>2, <3>3, <3>4
    <2>. QED  BY <2>1, <2>2, <2>3
  <1>7. CASE EntryBegun(r)
    <2>1. /\ ~Open(entry[r]) /\ RowKept(r) /\ rows'[r].present /\ entry'[r].occ > seq /\ entry'[r].mark = rows[r].mark
      BY <1>7 DEF EntryBegun
    <2>2. ~Moved(r)'
      BY <2>1 DEF Moved, RowKept
    <2>3. ~LiveBegun(r)
      BY <1>1, <2>1 DEF LiveBegun
    <2>4. ~(live'[r].idx > entry'[r].occ)
      BY <1>3, <1>4, <1>5, <2>1, <2>3
    <2>. QED  BY <2>1, <2>2, <2>4
  <1>. QED  BY <1>1, <1>3, <1>6, <1>7 DEF StepTo, EntryTo, EntryShut

\* A root the rebuild settles unmarked has not changed since the rebuild began
\* it, unless it was marked since.
LEMMA SettledAgrees ==
    ASSUME CoreInv, NEW r \in Roots, RowInv(r), Calm(r), ~Moved(r), Complete(r) \/ RemoveRow(r)
    PROVE  ~Outdated(r) /\ Open(entry[r])
  <1>1. Completable(r)
    BY DEF Complete, RemoveRow
  <1>2. w.pc = "remark" /\ w.todo = {} /\ r \in w.ids /\ Open(entry[r])
    BY <1>1 DEF Completable, Unsettled, Open
  <1>. QED  BY <1>2 DEF RowInv, DriftSeen, Drifting

\* A live build that no mark overtakes still says what the source does.
LEMMA LiveAgreesStep ==
    ASSUME CoreInv, Next, NEW r \in Roots, RowInv(r)
    PROVE  LiveAgrees(r)'
  <1>0. Versions' = Versions
    BY RowNext
  <1>1. SUFFICES ASSUME Calm(r)', live'[r].idx # 0, rows'[r].mark = live'[r].mark, NEW v \in Versions
                 PROVE  /\ live'[r].out[v].found <=> v \in has'[r]
                        /\ docs'[r][v].ver > live'[r].idx /\ docs'[r][v].body.found =>
                              has'[r] # {} \/ (Open(entry'[r]) /\ docs'[r][v].ver = entry'[r].occ)
    BY <1>0 DEF LiveAgrees
  <1>2. Numbered(r) /\ MarkedSince(r) /\ LiveAgrees(r) /\ EntryAgrees(r) /\ w.start <= seq
    BY DEF RowInv, Numbered
  <1>3. StepTo(r) /\ RowTo(r) /\ CalmTo(r) /\ (live'[r] = live[r] \/ LiveBegun(r))
    BY <1>1, <1>2, StepMoves, RowMoves, CalmMoves, LiveMoves
  <1>4. /\ seq \in Nat /\ live[r].idx \in Nat /\ live[r].mark \in Nat /\ live[r].idx <= seq
        /\ entry[r].occ \in Nat /\ rows[r].mark \in Nat /\ docs[r][v].ver \in Nat /\ docs[r][v].ver <= seq
    BY RowNow
  <1>5. rows'[r].mark \in Nat /\ docs'[r][v].ver \in Nat
    BY RowNext
  <1>6. has'[r] = has[r]
    BY <1>3 DEF CalmTo
  <1>7. DocTo(r, v)
    BY CoreTypes, DocStep DEF CoreInv
  <1>8. CASE LiveBegun(r)
    <2>1. live'[r].idx = seq + 1 /\ live'[r].out[v] = Truth(r, v) /\ docs' = docs
      BY <1>8 DEF LiveBegun
    <2>2. Truth(r, v).found <=> v \in has[r]
      BY TruthFacts DEF CoreInv
    <2>. QED  BY <1>4, <1>6, <2>1, <2>2
  <1>9. CASE live'[r] = live[r]
    <2>1. live[r].mark > 0 /\ live[r].mark < live[r].idx
      BY <1>1, <1>2, <1>9 DEF Numbered
    <2>2. ~RowMarked(r)
      BY <1>1, <1>4, <1>5, <1>9, <2>1 DEF RowMarked
    <2>3. ~RowDropped(r)
      BY <1>1, <1>4, <1>9, <2>1 DEF RowDropped, NoRow
    <2>4. rows[r].mark = live[r].mark /\ Calm(r)
      BY <1>1, <1>3, <1>9, <2>2, <2>3 DEF RowTo, RowKept, CalmTo
    <2>5. /\ live[r].out[v].found <=> v \in has[r]
          /\ docs[r][v].ver > live[r].idx /\ docs[r][v].body.found =>
                has[r] # {} \/ (Open(entry[r]) /\ docs[r][v].ver = entry[r].occ)
      BY <1>1, <1>2, <1>9, <2>4 DEF LiveAgrees
    <2>6. ASSUME docs'[r][v].ver > live[r].idx, docs'[r][v].body.found, Open(entry[r]), docs'[r][v].ver = entry[r].occ
          PROVE  has[r] # {} \/ (Open(entry'[r]) /\ docs'[r][v].ver = entry'[r].occ)
      <3>1. CASE EntryKept(r)
        BY <2>6, <3>1 DEF EntryKept
      <3>2. CASE EntryShut(r)
        <4>1. Complete(r) \/ RemoveRow(r)
          BY <1>1, <2>2, <2>6, <3>2 DEF EntryShut, Calm
        <4>2. docs'[r][v] = docs[r][v]
          <5>1. Selected # {}
            BY StateSets DEF CoreInv
          <5>. QED  BY <4>1, <5>1, SettleRenews
        <4>3. ~Moved(r)
          <5>1. Moved(r) => rows[r].mark > entry[r].occ
            BY <1>2, <2>4, <2>6 DEF MarkedSince
          <5>. QED  BY <1>4, <2>1, <2>4, <2>6, <4>2, <5>1
        <4>4. ~Outdated(r)
          BY <2>4, <4>1, <4>3, SettledAgrees
        <4>5. v \in has[r]
          BY <1>2, <2>4, <2>6, <4>2, <4>4 DEF EntryAgrees
        <4>. QED  BY <4>5
      <3>3. ~EntryBegun(r)
        BY <2>6 DEF EntryBegun
      <3>. QED  BY <1>3, <3>1, <3>2, <3>3 DEF StepTo, EntryTo
    <2>7. ASSUME docs'[r][v].ver > live[r].idx, docs'[r][v].body.found
          PROVE  has[r] # {} \/ (Open(entry'[r]) /\ docs'[r][v].ver = entry'[r].occ)
      <3>1. CASE docs'[r][v] = docs[r][v]
        BY <2>5, <2>6, <2>7, <3>1
      <3>2. CASE Open(entry[r]) /\ docs'[r][v].ver = entry[r].occ
        BY <2>6, <2>7, <3>2
      <3>3. live'[r] # NoLive
        BY <1>1 DEF NoLive
      <3>. QED  BY <1>7, <3>1, <3>2, <3>3 DEF DocTo
    <2>. QED  BY <1>6, <1>9, <2>5, <2>7
  <1>. QED  BY <1>3, <1>8, <1>9

\* A walk of the type has answers only after its plan's start was drawn.
LEMMA SaidStart ==
    ASSUME CoreInv, ~Given(used.setup), NEW r \in Roots, Said(w, r) # {}
    PROVE  w.start # 0
  <1>1. Placed(used.setup, w)
    BY DEF CoreInv, WalkInv, WalkOK
  <1>2. w.start = 0 => w.inbox = <<>> /\ w.page = <<>>
    BY <1>1 DEF Placed
  <1>. QED  BY <1>2, EmptyFacts DEF Said

\* A root the walk has answers about is fetched.
LEMMA SaidFetched ==
    ASSUME NEW r, Said(w, r) # {}
    PROVE  Fetched(r)
  <1>1. PICK it \in Said(w, r) : TRUE
    OBVIOUS
  <1>2. it.id = r /\ (it \in Range(w.page) \/ \E p \in Range(w.inbox) : it \in Range(p.items))
    BY <1>1 DEF Said
  <1>3. CASE it \in Range(w.page)
    BY <1>2, <1>3 DEF Fetched, IdsIn, Range
  <1>4. ASSUME NEW p \in Range(w.inbox), it \in Range(p.items)
        PROVE  Fetched(r)
    <2>1. PICK i \in DOMAIN w.inbox : p = w.inbox[i]
      BY DEF Range
    <2>2. r \in IdsIn(w.inbox[i].items)
      BY <1>2, <1>4, <2>1 DEF IdsIn, Range
    <2>. QED  BY <2>2 DEF Fetched
  <1>. QED  BY <1>2, <1>3, <1>4

\* The walk's answers still say what the source does.
LEMMA ComingAgreesStep ==
    ASSUME CoreInv, Next, NEW r \in Roots, RowInv(r)
    PROVE  ComingAgrees(r)'
  <1>0. used'.setup = used.setup
    BY RowNext
  <1>1. SUFFICES ASSUME Calm(r)',
                        IF Given(used.setup) THEN Open(entry'[r]) /\ ~Moved(r)' ELSE ~(changed'[r] > w'.start),
                        NEW it \in Said(w', r)
                 PROVE  it.body.found <=> it.v \in has'[r]
    BY <1>0 DEF ComingAgrees, Said
  <1>2. Numbered(r) /\ ComingAgrees(r) /\ w.start <= seq
    BY DEF RowInv, Numbered
  <1>3. StepTo(r) /\ RowTo(r) /\ CalmTo(r) /\ TypeOK
    BY <1>1, <1>2, StepMoves, RowMoves, CalmMoves DEF CoreInv
  <1>4. seq \in Nat /\ w.start \in Nat /\ changed[r] \in Nat /\ entry[r].start \in Nat
    BY RowNow
  <1>5. has'[r] = has[r]
    BY <1>3 DEF CalmTo
  <1>6. w'.start = w.start /\ (it \in Said(w, r) \/ (it.body.found <=> it.v \in has[r]))
    BY <1>1, <1>3 DEF StepTo, WalkTo
  <1>7. SUFFICES ASSUME it \in Said(w, r)
                 PROVE  it.body.found <=> it.v \in has[r]
    BY <1>5, <1>6
  <1>8. CASE Given(used.setup)
    <2>1. Open(entry'[r]) /\ ~Moved(r)'
      BY <1>1, <1>8
    <2>2. EntryKept(r)
      BY <1>1, <1>3, <1>8, <2>1 DEF StepTo, EntryTo, EntryShut, EntryBegun
    <2>3. Calm(r) /\ ~Moved(r)
      BY <1>1, <1>2, <2>1, <2>2, KeptCalm
    <2>. QED  BY <1>2, <1>7, <1>8, <2>2, <2>3 DEF ComingAgrees, EntryKept
  <1>9. CASE ~Given(used.setup)
    <2>1. ~(changed'[r] > w.start)
      BY <1>1, <1>6, <1>9
    <2>2. ~Register(r)
      <3>1. Register(r) => changed'[r] = seq + 1
        <4>1. changed \in [Things -> Nat] /\ r \in Things
          BY <1>3 DEF TypeOK, Things
        <4>. QED  BY <4>1 DEF Register
      <3>. QED  BY <1>2, <1>4, <2>1, <3>1
    <2>3. Calm(r)
      BY <1>3, <2>2 DEF CalmTo
    <2>4. ~(changed[r] > w.start)
      <3>1. CASE changed'[r] = changed[r]
        BY <2>1, <3>1
      <3>2. CASE RowDropped(r)
        <4>1. Fetched(r)
          BY <1>7, SaidFetched
        <4>2. RemoveRow(r) /\ ~Moved(r)
          BY <1>1, <3>2, <4>1 DEF RowDropped, Calm
        <4>3. ~Outdated(r) /\ Open(entry[r])
          BY <2>3, <4>2, SettledAgrees
        <4>4. w.start # 0
          BY <1>7, <1>9, SaidStart
        <4>5. entry[r].start <= w.start /\ ~(changed[r] > entry[r].start)
          BY <1>2, <1>9, <4>3, <4>4 DEF Numbered, Outdated
        <4>. QED  BY <1>4, <4>5
      <3>. QED  BY <1>3, <2>2, <3>1, <3>2 DEF CalmTo
    <2>. QED  BY <1>2, <1>7, <1>9, <2>3, <2>4 DEF ComingAgrees
  <1>. QED  BY <1>8, <1>9

\* The outcomes of an open root still say what the source does.
LEMMA EntryAgreesStep ==
    ASSUME CoreInv, Next, NEW r \in Roots, RowInv(r)
    PROVE  EntryAgrees(r)'
  <1>0. Versions' = Versions /\ used'.setup = used.setup
    BY RowNext
  <1>1. SUFFICES ASSUME Calm(r)', Open(entry'[r]), ~Outdated(r)'
                 PROVE  /\ \A v \in entry'[r].nils : v \notin has'[r]
                        /\ \A v \in Queue(w', r) : v \in has'[r]
                        /\ \A v \in Versions : docs'[r][v].body.found =>
                              /\ docs'[r][v].ver = entry'[r].occ => v \in has'[r]
                              /\ docs'[r][v].ver > entry'[r].occ => has'[r] # {}
    BY <1>0 DEF EntryAgrees, Queue, Waiting
  <1>2. /\ Numbered(r) /\ MarkedSince(r) /\ LiveAgrees(r) /\ ComingAgrees(r) /\ EntryAgrees(r) /\ w.start <= seq
    BY DEF RowInv, Numbered
  <1>3. StepTo(r)
    BY <1>2, StepMoves
  <1>4. /\ seq \in Nat /\ live[r].idx \in Nat /\ live[r].idx <= seq /\ changed[r] \in Nat
        /\ w.start \in Nat /\ entry[r].start \in Nat /\ entry[r].occ \in Nat
        /\ live[r].idx # 0 => live[r].idx # entry[r].occ
        /\ \A v \in Versions : docs[r][v].ver \in Nat /\ docs[r][v].ver <= seq
    BY RowNow
  <1>5. entry'[r].occ \in Nat /\ \A v \in Versions : docs'[r][v].ver \in Nat
    BY RowNext
  <1>6. \A v \in Versions : DocTo(r, v)
    BY CoreTypes, DocStep DEF CoreInv
  <1>7. CASE EntryBegun(r)
    <2>1. ~Open(entry[r]) /\ entry'[r].occ > seq /\ entry'[r].nils = {} /\ Queue(w', r) = {}
      BY <1>7 DEF EntryBegun
    <2>2. ASSUME NEW v \in Versions
          PROVE  docs'[r][v].ver <= seq
      <3>1. DocTo(r, v)
        BY <1>6
      <3>2. docs'[r][v] = docs[r][v] \/ docs'[r][v].ver = live[r].idx
        BY <2>1, <3>1 DEF DocTo
      <3>. QED  BY <1>4, <3>2
    <2>3. ASSUME NEW v \in Versions
          PROVE  ~(docs'[r][v].ver >= entry'[r].occ)
      BY <1>4, <1>5, <2>1, <2>2
    <2>. QED  BY <1>5, <2>1, <2>3
  <1>8. CASE EntryKept(r)
    <2>1. /\ Open(entry[r]) /\ entry'[r].occ = entry[r].occ /\ entry'[r].start = entry[r].start
          /\ \A v \in entry'[r].nils : v \in entry[r].nils \/ \E it \in Said(w, r) : it.v = v /\ ~it.body.found
          /\ \A v \in Queue(w', r) : v \in Queue(w, r) \/ \E it \in Said(w, r) : it.v = v /\ it.body.found
      BY <1>8 DEF EntryKept
    <2>2. ~Moved(r)'
      BY <1>1 DEF Outdated
    <2>3. /\ has'[r] = has[r] /\ Calm(r) /\ ~Moved(r) /\ changed'[r] = changed[r]
      BY <1>1, <1>2, <1>8, <2>2, KeptCalm
    <2>4. ~Given(used.setup) => ~(changed[r] > entry[r].start)
      BY <1>0, <1>1, <2>1, <2>3 DEF Outdated
    <2>5. ~Outdated(r)
      BY <2>3, <2>4 DEF Outdated
    <2>6. /\ \A v \in entry[r].nils : v \notin has[r]
          /\ \A v \in Queue(w, r) : v \in has[r]
          /\ \A v \in Versions : docs[r][v].body.found =>
                /\ docs[r][v].ver = entry[r].occ => v \in has[r]
                /\ docs[r][v].ver > entry[r].occ => has[r] # {}
      BY <1>2, <2>1, <2>3, <2>5 DEF EntryAgrees
    <2>7. ASSUME NEW it \in Said(w, r)
          PROVE  it.body.found <=> it.v \in has[r]
      <3>1. CASE Given(used.setup)
        BY <1>2, <2>1, <2>3, <3>1 DEF ComingAgrees
      <3>2. CASE ~Given(used.setup)
        <4>1. w.start # 0
          BY <3>2, SaidStart
        <4>2. entry[r].start <= w.start
          BY <1>2, <2>1, <4>1 DEF Numbered
        <4>3. ~(changed[r] > w.start)
          BY <1>4, <2>4, <3>2, <4>2
        <4>. QED  BY <1>2, <2>3, <3>2, <4>3 DEF ComingAgrees
      <3>. QED  BY <3>1, <3>2
    <2>8. ASSUME NEW v \in Versions, docs'[r][v].body.found
          PROVE  /\ docs'[r][v].ver = entry[r].occ => v \in has[r]
                 /\ docs'[r][v].ver > entry[r].occ => has[r] # {}
      <3>0. DocTo(r, v)
        BY <1>6
      <3>1. CASE docs'[r][v] = docs[r][v]
        BY <2>6, <2>8, <3>1
      <3>2. CASE live[r].idx > 1 /\ docs'[r][v] = [ver |-> live[r].idx, body |-> live[r].out[v]]
        <4>1. docs'[r][v].ver = live[r].idx /\ docs'[r][v].body = live[r].out[v] /\ live[r].idx # 0
          BY <1>4, <3>2
        <4>2. live[r].idx # entry[r].occ
          BY <1>4, <4>1
        <4>3. ASSUME live[r].idx > entry[r].occ
              PROVE  has[r] # {}
          <5>1. live[r].mark = entry[r].mark
            BY <1>2, <2>1, <2>3, <4>3 DEF MarkedSince
          <5>2. rows[r].mark = live[r].mark
            BY <2>3, <5>1 DEF Moved
          <5>3. live[r].out[v].found <=> v \in has[r]
            BY <1>2, <2>3, <4>1, <5>2 DEF LiveAgrees
          <5>. QED  BY <2>8, <4>1, <5>3
        <4>. QED  BY <4>1, <4>2, <4>3
      <3>3. CASE w.pc = "bulk" /\ docs'[r][v].ver = entry[r].occ
                 /\ \E it \in Range(w.chunk) : it.id = r /\ it.v = v /\ docs'[r][v].body = it.body
        <4>1. v \in Queue(w, r)
          BY <3>3 DEF Queue, Waiting, Of
        <4>. QED  BY <2>6, <3>3, <4>1
      <3>. QED  BY <2>8, <3>0, <3>1, <3>2, <3>3 DEF DocTo
    <2>. QED  BY <2>1, <2>3, <2>6, <2>7, <2>8
  <1>. QED  BY <1>1, <1>3, <1>7, <1>8 DEF StepTo, EntryTo, EntryShut

\* A mark moves an open root.
LEMMA KeptMarked ==
    ASSUME CoreInv, Next, NEW r \in Roots, Numbered(r), EntryKept(r), RowMarked(r)
    PROVE  Moved(r)'
  <1>1. entry'[r].mark = entry[r].mark /\ entry[r].mark < entry[r].occ /\ rows'[r].mark > seq
    BY DEF EntryKept, Numbered, RowMarked
  <1>2. seq \in Nat /\ entry[r].occ \in Nat /\ entry[r].mark \in Nat /\ entry[r].occ <= seq
    BY RowNow
  <1>3. rows'[r].mark \in Nat
    BY RowNext
  <1>. QED  BY <1>1, <1>2, <1>3 DEF Moved

\* The drift check still misses none.
LEMMA DriftSeenStep ==
    ASSUME CoreInv, Next, NEW r \in Roots, RowInv(r)
    PROVE  DriftSeen(r)'
  <1>0. used'.setup = used.setup
    BY RowNext
  <1>1. SUFFICES ASSUME Calm(r)', Open(entry'[r]), r \in w'.ids, w'.pc \in Drifting, Outdated(r)', ~Moved(r)'
                 PROVE  r \in w'.todo
    BY DEF DriftSeen, Drifting
  <1>2. Numbered(r) /\ DriftSeen(r) /\ w.start <= seq
    BY DEF RowInv, Numbered
  <1>3. StepTo(r)
    BY <1>2, StepMoves
  <1>4. EntryKept(r)
    BY <1>1, <1>3 DEF StepTo, EntryTo, EntryShut, EntryBegun
  <1>5. ~RowMarked(r)
    BY <1>1, <1>2, <1>4, KeptMarked
  <1>6. Calm(r) /\ ~Moved(r) /\ changed'[r] = changed[r]
    BY <1>1, <1>2, <1>4, KeptCalm
  <1>7. ~Given(used.setup) /\ changed[r] > entry[r].start /\ Open(entry[r])
    BY <1>0, <1>1, <1>4, <1>6 DEF Outdated, EntryKept
  <1>8. r \in w'.todo \/ (w.pc \in Drifting /\ r \in w.ids /\ r \notin w.todo)
    BY <1>1, <1>3, <1>5, <1>7 DEF StepTo, DriftTo
  <1>9. Outdated(r)
    BY <1>7 DEF Outdated
  <1>. QED  BY <1>2, <1>6, <1>7, <1>8, <1>9 DEF DriftSeen

\* A subset as large as its set is the set.
LEMMA WholeSet ==
    ASSUME NEW S, IsFiniteSet(S), NEW T \in SUBSET S, Cardinality(T) = Cardinality(S)
    PROVE  T = S
  BY FS_Subset

\* A root the rebuild removes was found by no plan, and nothing written since
\* found it.
LEMMA RemoveGone ==
    ASSUME CoreInv, NEW r \in Roots, RowInv(r), Calm(r), RemoveRow(r), ~Moved(r), NEW v \in Versions
    PROVE  /\ ~docs[r][v].body.found
           /\ live[r].idx # 0 /\ live[r].out[v].found => docs[r][v].ver > live[r].idx
  <1>0. /\ TypeOK /\ RootOK(used.setup, w, entry[r], docs[r], r) /\ Selected = used.setup.selected
        /\ IsFiniteSet(Selected) /\ Cardinality(Selected) \in Nat
    BY StateSets DEF CoreInv, RootInv
  <1>1. w.how = "remove" /\ w.pc = "remark" /\ w.todo = {} /\ r \in w.ids /\ Open(entry[r]) /\ entry[r].remaining = 0
    BY DEF RemoveRow, Completable, Unsettled, Open
  <1>2. ~entry[r].partial /\ entry[r].lastDoc = 0
    BY <1>0, <1>1 DEF RootOK, Handled
  <1>3. \A u \in entry[r].nils : docs[r][u].ver >= entry[r].occ
    BY <1>0, <1>1, <1>2 DEF RootOK, Handled, Applying
  <1>4. ~Outdated(r)
    BY SettledAgrees
  <1>5. entry[r].nils = Selected
    <2>1. entry[r].nils \in SUBSET Selected
      BY <1>0 DEF TypeOK, Entry
    <2>2. Cardinality(entry[r].nils) \in Nat
      BY <1>0, <2>1, StateSets
    <2>3. Cardinality(entry[r].nils) + 0 = Cardinality(Selected)
      BY <1>0, <1>1, <1>2 DEF RowInv, NilSum
    <2>. QED  BY <1>0, <2>1, <2>2, <2>3, WholeSet
  <1>6. v \in entry[r].nils /\ has[r] \in SUBSET entry[r].nils
    <2>1. Selected = Versions
      BY <1>1 DEF RowInv, RemovesAll, MayDelete
    <2>. QED  BY <1>0, <1>5, <2>1 DEF TypeOK
  <1>7. /\ \A u \in entry[r].nils : u \notin has[r]
        /\ docs[r][v].body.found => /\ docs[r][v].ver = entry[r].occ => v \in has[r]
                                    /\ docs[r][v].ver > entry[r].occ => has[r] # {}
    BY <1>1, <1>4 DEF RowInv, EntryAgrees
  <1>8. has[r] = {}
    BY <1>6, <1>7
  <1>9. /\ docs[r][v].ver \in Nat /\ entry[r].occ \in Nat /\ live[r].idx \in Nat
        /\ live[r].idx # 0 => live[r].idx # entry[r].occ
    BY RowNow
  <1>10. docs[r][v].ver >= entry[r].occ
    BY <1>3, <1>6
  <1>11. ~docs[r][v].body.found
    BY <1>7, <1>8, <1>9, <1>10
  <1>12. ASSUME live[r].idx # 0, live[r].out[v].found, ~(docs[r][v].ver > live[r].idx)
         PROVE  FALSE
    <2>1. live[r].idx > entry[r].occ
      BY <1>9, <1>10, <1>12
    <2>2. live[r].mark = entry[r].mark
      BY <1>1, <2>1 DEF RowInv, MarkedSince
    <2>3. rows[r].mark = live[r].mark
      BY <2>2 DEF Moved
    <2>4. v \in has[r]
      BY <1>12, <2>3 DEF RowInv, LiveAgrees
    <2>. QED  BY <1>8, <2>4
  <1>. QED  BY <1>11, <1>12

\* A live delete leaves no document.
LEMMA DeleteGone ==
    ASSUME CoreInv, NEW r \in Roots, RowInv(r), Calm(r), LiveEnd(r), ~Fetched(r), rows[r].mark = live[r].mark,
           \A v \in Versions : ~live[r].out[v].found, NEW v \in Versions
    PROVE  ~docs'[r][v].body.found /\ live'[r].idx = 0
  <1>0. TypeOK /\ TypeNow
    BY TypeFacts DEF CoreInv
  <1>1. live[r] # NoLive
    BY DEF LiveEnd
  <1>2. /\ docs[r][v].ver \in Nat /\ live[r].idx \in Nat /\ live[r].idx # 0
    BY <1>1, RowNow
  <1>3. /\ \A u \in Versions : live[r].out[u].found <=> u \in has[r]
        /\ docs[r][v].ver > live[r].idx /\ docs[r][v].body.found =>
              has[r] # {} \/ (Open(entry[r]) /\ docs[r][v].ver = entry[r].occ)
    BY <1>2 DEF RowInv, LiveAgrees
  <1>4. has[r] = {}
    BY <1>0, <1>3 DEF TypeOK
  <1>5. ~Open(entry[r])
    BY DEF Fetched, Unsettled, Open
  <1>6. docs[r][v].ver > live[r].idx => ~docs[r][v].body.found
    BY <1>3, <1>4, <1>5
  <1>7. docs'[r][v] = Written(docs[r][v], live[r].out[v], live[r].idx)
    <2>1. docs' = [docs EXCEPT ![r] = [u \in Versions |-> Written(@[u], live[r].out[u], live[r].idx)]]
      BY DEF LiveEnd
    <2>. QED  BY <1>0, <2>1 DEF TypeNow
  <1>8. ~docs'[r][v].body.found
    <2>1. \/ docs'[r][v] = docs[r][v] /\ docs[r][v].ver > live[r].idx
          \/ docs'[r][v] = [ver |-> live[r].idx, body |-> live[r].out[v]]
      BY <1>2, <1>7, WrittenFacts
    <2>2. CASE docs'[r][v] = [ver |-> live[r].idx, body |-> live[r].out[v]]
      <3>1. docs'[r][v].body = live[r].out[v]
        BY <2>2
      <3>. QED  BY <3>1
    <2>. QED  BY <1>6, <2>1, <2>2
  <1>9. live'[r].idx = 0
    <2>1. live' = [live EXCEPT ![r] = NoLive]
      BY DEF LiveEnd
    <2>. QED  BY <1>0, <2>1 DEF TypeNow, NoLive
  <1>. QED  BY <1>8, <1>9

\* A root without a row has no document, and gets none.
LEMMA GoneRowStep ==
    ASSUME CoreInv, Next, NEW r \in Roots, RowInv(r)
    PROVE  GoneRow(r)'
  <1>0. Versions' = Versions
    BY RowNext
  <1>1. SUFFICES ASSUME Calm(r)', ~rows'[r].present, NEW v \in Versions
                 PROVE  /\ ~docs'[r][v].body.found
                        /\ live'[r].idx # 0 /\ live'[r].out[v].found => docs'[r][v].ver > live'[r].idx
    BY <1>0 DEF GoneRow
  <1>2. Numbered(r) /\ MarkedSince(r) /\ GoneRow(r) /\ w.start <= seq
    BY DEF RowInv, Numbered
  <1>3. RowTo(r) /\ CalmTo(r) /\ (live'[r] = live[r] \/ live'[r].idx = 0 \/ LiveBegun(r))
    BY <1>1, RowMoves, CalmMoves, LiveMoves
  <1>4. ~RowMarked(r)
    BY <1>1 DEF RowMarked
  <1>5. Calm(r)
    BY <1>3, <1>4 DEF CalmTo
  <1>6. CASE RowKept(r)
    <2>1. ~rows[r].present
      BY <1>1, <1>6 DEF RowKept
    <2>2. /\ ~docs[r][v].body.found
          /\ live[r].idx # 0 /\ live[r].out[v].found => docs[r][v].ver > live[r].idx
      BY <1>2, <1>5, <2>1 DEF GoneRow
    <2>3. ~Open(entry[r])
      BY <1>2, <1>5, <2>1 DEF MarkedSince
    <2>4. ~LiveBegun(r)
      BY <1>2, <2>1 DEF LiveBegun, Numbered
    <2>5. docs[r][v].ver \in Nat /\ live[r].idx \in Nat
      BY RowNow
    <2>6. DocTo(r, v)
      BY CoreTypes, DocStep DEF CoreInv
    <2>7. CASE docs'[r][v] = docs[r][v]
      BY <1>3, <2>2, <2>4, <2>7
    <2>8. CASE docs'[r][v] # docs[r][v]
      <3>1. /\ live'[r] = NoLive /\ live[r].idx > 1
            /\ docs'[r][v] = [ver |-> live[r].idx, body |-> live[r].out[v]]
            /\ docs'[r][v].ver > docs[r][v].ver
        BY <2>3, <2>6, <2>8 DEF DocTo
      <3>2. docs'[r][v].ver = live[r].idx /\ docs'[r][v].body = live[r].out[v] /\ live'[r].idx = 0
        BY <3>1 DEF NoLive
      <3>. QED  BY <2>2, <2>5, <3>1, <3>2
    <2>. QED  BY <2>7, <2>8
  <1>7. CASE RowDropped(r)
    <2>1. CASE RemoveRow(r) /\ ~Moved(r)
      <3>1. docs' = docs /\ live' = live
        BY <2>1 DEF RemoveRow
      <3>. QED  BY <1>5, <2>1, <3>1, RemoveGone
    <2>2. CASE /\ LiveEnd(r) /\ rows[r].mark = live[r].mark
               /\ \A u \in Versions : ~live[r].out[u].found
               /\ Fetched(r) => r \in exposed'
      <3>1. ~Fetched(r)
        BY <1>1, <2>2 DEF Calm
      <3>. QED  BY <1>5, <2>2, <3>1, DeleteGone
    <2>. QED  BY <1>7, <2>1, <2>2 DEF RowDropped
  <1>. QED  BY <1>3, <1>4, <1>6, <1>7 DEF RowTo

\* Every step keeps the invariant of a row.
LEMMA RowInvStep ==
    ASSUME CoreInv, Next, NEW r \in Roots, RowInv(r)
    PROVE  RowInv(r)'
  <1>1. Numbered(r)'
    BY NumberedStep DEF RowInv
  <1>2. MarkedSince(r)' /\ LiveAgrees(r)' /\ ComingAgrees(r)' /\ EntryAgrees(r)' /\ DriftSeen(r)' /\ GoneRow(r)'
    BY MarkedSinceStep, LiveAgreesStep, ComingAgreesStep, EntryAgreesStep, DriftSeenStep, GoneRowStep
  <1>3. StepTo(r)
    BY StepMoves DEF RowInv, Numbered
  <1>4. used'.setup = used.setup /\ Versions' = Versions /\ Selected' = Selected
    BY RowNext
  <1>5. RemovesAll'
    BY <1>3, <1>4 DEF StepTo, WalkTo, RowInv, RemovesAll, MayDelete
  <1>6. NilSum(used.setup, entry[r])'
    BY <1>3, <1>4 DEF StepTo, EntryTo, RowInv, NilSum
  <1>. QED  BY <1>1, <1>2, <1>5, <1>6 DEF RowInv

ServedInv == CoreInv /\ \A r \in Roots : RowInv(r)

\* It holds before the first attempt.
LEMMA ServedInit ==
    ASSUME Init
    PROVE  ServedInv
  <1>1. CoreInv
    BY CoreInit
  <1>2. ASSUME NEW r \in Roots
        PROVE  RowInv(r)
    <2>1. rows[r].present /\ ~rows[r].stale /\ rows[r].mark = 0 /\ seq = 1 /\ entry[r] = NoEntry /\ w = IdleWalk
          /\ live[r] = NoLive /\ live[r].idx = 0 /\ ~Open(entry[r])
      BY DEF Init, NoLive, NoEntry, Open
    <2>2. w.start = 0 /\ w.page = <<>> /\ w.inbox = <<>> /\ w.how = "flush" /\ w.ids = {}
      BY <2>1 DEF IdleWalk
    <2>3. Said(w, r) = {}
      BY <2>2, EmptyFacts DEF Said
    <2>4. Numbered(r) /\ MarkedSince(r) /\ LiveAgrees(r) /\ EntryAgrees(r) /\ DriftSeen(r)
      BY <2>1, <2>2 DEF Numbered, MarkedSince, LiveAgrees, EntryAgrees, DriftSeen
    <2>5. ComingAgrees(r)
      BY <2>3 DEF ComingAgrees
    <2>6. RemovesAll /\ NilSum(used.setup, entry[r]) /\ GoneRow(r)
      BY <2>1, <2>2 DEF RemovesAll, NilSum, GoneRow
    <2>. QED  BY <2>4, <2>5, <2>6 DEF RowInv
  <1>. QED  BY <1>1, <1>2 DEF ServedInv

\* Every step keeps it.
LEMMA ServedStep ==
    ASSUME ServedInv, [Next]_vars
    PROVE  ServedInv'
  <1>1. CoreInv'
    BY CoreStep DEF ServedInv
  <1>2. CASE Next
    <2>1. ASSUME NEW r \in Roots
          PROVE  RowInv(r)'
      BY <1>2, RowInvStep DEF ServedInv
    <2>2. Roots' = Roots
      BY <1>2, CoreTypes DEF ServedInv, TypeNext, Roots
    <2>. QED  BY <1>1, <2>1, <2>2 DEF ServedInv
  <1>3. CASE UNCHANGED vars
    <2>1. Roots' = Roots
      BY <1>3 DEF vars, Roots
    <2>2. ASSUME NEW r \in Roots
          PROVE  RowInv(r)'
      <3>1. RowInv(r)
        BY DEF ServedInv
      <3>2. Calm(r)' <=> Calm(r)
        BY <1>3 DEF vars, source, Calm, Clean
      <3>3. Moved(r)' <=> Moved(r)
        BY <1>3 DEF vars, store, Moved
      <3>4. Outdated(r)' <=> Outdated(r)
        BY <1>3, <3>3 DEF vars, store, Outdated
      <3>5. Numbered(r)' /\ MarkedSince(r)' /\ DriftSeen(r)'
        BY <1>3, <3>1, <3>2, <3>3, <3>4 DEF vars, source, store, RowInv, Numbered, MarkedSince, DriftSeen
      <3>6. Said(w, r)' = Said(w, r) /\ Queue(w, r)' = Queue(w, r) /\ Versions' = Versions
        BY <1>3 DEF vars, Versions
      <3>7. LiveAgrees(r)' /\ ComingAgrees(r)' /\ EntryAgrees(r)'
        BY <1>3, <3>1, <3>2, <3>3, <3>4, <3>6
           DEF vars, source, store, RowInv, LiveAgrees, ComingAgrees, EntryAgrees
      <3>8. RemovesAll' /\ NilSum(used.setup, entry[r])' /\ GoneRow(r)'
        BY <1>3, <3>1, <3>2, <3>6 DEF vars, store, RowInv, RemovesAll, MayDelete, Selected, NilSum, GoneRow
      <3>. QED  BY <3>5, <3>7, <3>8 DEF RowInv
    <2>. QED  BY <1>1, <2>1, <2>2 DEF ServedInv
  <1>. QED  BY <1>2, <1>3

\* While no process or mark was lost, a document in Elasticsearch has a row
\* the sweep can see, unless the change that took it is still to be
\* registered: a rebuild removes a row only with the documents of every
\* version (src/core/rebuild_flusher.go, removeRow), and what its pages or a
\* live build still hold of the root cannot write one again.
THEOREM RebuildServedHasRow == Spec => []ServedHasRow
  <1>1. ServedInv => ServedHasRow
    <2>1. SUFFICES ASSUME ServedInv, Clean, NEW r \in Roots \ exposed, NEW v \in Versions,
                          docs[r][v].body.found, ~rows[r].present, r \notin notices
                   PROVE  FALSE
      BY DEF ServedHasRow, Clean
    <2>2. GoneRow(r) /\ Calm(r)
      BY <2>1 DEF ServedInv, RowInv, Calm
    <2>. QED  BY <2>1, <2>2 DEF GoneRow
  <1>2. Init => ServedInv
    BY ServedInit
  <1>3. ServedInv /\ [Next]_vars => ServedInv'
    BY ServedStep
  <1>. QED  BY <1>1, <1>2, <1>3, PTL DEF Spec
==============================================================================
