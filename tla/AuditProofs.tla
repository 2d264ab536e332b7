----------------------------- MODULE AuditProofs -----------------------------
(***************************************************************************)
(* Proofs about SourceAudit: its types, that a reverse sweep passes no row *)
(* whose resource the source has lost, whatever its attempts do to one     *)
(* another and whatever builds, registrations and a walk between its fetch *)
(* and its clear do meanwhile, that no unmarked row of a deleted resource  *)
(* is left but the one ADR 0012 documents, and that a probe pass leaves no *)
(* row of its own undecided and what it, a build or a walk covers answered *)
(* as the source says.                                                     *)
(***************************************************************************)
EXTENDS SourceAudit, BuildSequenceProofs

-----------------------------------------------------------------------------
(* The inductive invariant: types and numbers *)

\* What the walk has of i.
Held(i) == fwd.hand[i]

InWork(i) == Held(i).pc \in {"begun", "written", "remark"}

\* A run that is running has an attempt, a walk that walks its metadata, and
\* only such a walk has ids in hand, none that it has still to fetch.
Underway ==
    /\ sweep.outcome = "running" => atts # <<>>
    /\ fwd.pc = "walk" => fwd.left # <<>>
    /\ fwd.pc # "walk" => fwd.hand = NoHands
    /\ \A i \in fwd.todo : Held(i).pc = "none"

\* Every number that is stored or captured has been drawn.
Drawn ==
    /\ seq >= 1 /\ fwd.start <= seq
    /\ \A i \in Ids :
        /\ rows[i].mark <= seq /\ live[i].mark <= seq /\ live[i].idx <= seq /\ pass.seqs[i] <= seq
        /\ Held(i).idx <= seq
        /\ \A v \in Versions : docs[i][v].ver <= seq

Clean(i) == rows[i].present /\ ~rows[i].stale

\* A build serves a mark that was there when it began, its row stays while it
\* runs and is marked again only above it, and what it reports of the
\* resource's metadata the row has already.
Serving(i) ==
    /\ rows[i].present /\ 1 < live[i].mark /\ live[i].mark < live[i].idx
    /\ live[i].md \in Setup.mds
    /\ rows[i].mark = live[i].mark \/ rows[i].mark > live[i].idx
    /\ Nothing(live[i]) \/ rows[i].md # None \/ live[i].md = None

\* Marks, builds and writes of i are numbered in the order they happened in: a
\* row is clean only once every version was written above its last mark.
Ordered(i) ==
    /\ rows[i].stale => rows[i].present /\ rows[i].mark # 0
    /\ rows[i].mark # 0 => rows[i].mark > 1
    /\ ~rows[i].present => rows[i] = NoRow
    /\ rows[i].changed <= rows[i].mark
    /\ rows[i].changed # 0 => rows[i].md \in Setup.mds
    /\ src[i].md \in Setup.mds
    /\ live[i] # NoLive => Serving(i)
    /\ Clean(i) /\ rows[i].mark # 0 =>
          \A v \in Versions : docs[i][v].ver > rows[i].mark /\ edges[i][v].stamp > rows[i].mark

\* Of a build and a walk in work on i, the one that began later captured the
\* mark the other did, or one set after the other began.
Turns(i) ==
    \/ live[i].idx < Held(i).idx /\ (Held(i).mark = live[i].mark \/ Held(i).mark > live[i].idx)
    \/ Held(i).idx < live[i].idx /\ (live[i].mark = Held(i).mark \/ live[i].mark > Held(i).idx)

\* The same of what the walk has in hand.
HandOrdered(i) ==
    /\ Held(i).pc # "none" => /\ \E v \in Versions : Held(i).out[v].found
                              /\ Head(fwd.left) \in Setup.mds
    /\ InWork(i) =>
          /\ 1 < Held(i).idx /\ Held(i).mark < Held(i).idx
          /\ rows[i].mark = 0 \/ rows[i].mark = Held(i).mark \/ rows[i].mark > Held(i).idx
          /\ live[i] # NoLive => Turns(i)
    /\ Held(i).pc \in {"written", "remark"} => \A v \in Versions : docs[i][v].ver >= Held(i).idx
    /\ Held(i).pc = "written" /\ rows[i].mark = Held(i).mark /\ rows[i].mark # 0 =>
          \A v \in Versions : edges[i][v].stamp > rows[i].mark

BaseInv == TypeOK /\ Underway /\ Drawn /\ \A i \in Ids : Ordered(i) /\ HandOrdered(i)

-----------------------------------------------------------------------------
(* The inductive invariant: sweeps and deletes *)

\* What the build of i, or the walk, would leave as the document of v if it
\* wrote now.
Outcome(i, v) == Written(docs[i][v], live[i].out[v], live[i].idx)
HandOutcome(i, v) == Written(docs[i][v], Held(i).out[v], Held(i).idx)

\* The row is marked, and not by what its build, or the walk, serves: the mark
\* outlives it.
Guarded(i) == rows[i].stale /\ rows[i].mark # live[i].mark
HandGuarded(i) == rows[i].stale /\ rows[i].mark # Held(i).mark

\* No document of i is one the source does not have.
Known(i) == \A v \in Versions : docs[i][v].body.found => v \in src[i].vs

\* That is so but for a marked row and a tombstone, and neither its build nor
\* the walk is about to change it.
Kept(i) ==
    /\ rows[i].tomb \/ rows[i].stale \/ Known(i)
    /\ live[i] # NoLive =>
          Guarded(i) \/ \A v \in Versions : Outcome(i, v).body.found => v \in src[i].vs
    /\ Held(i).pc = "begun" =>
          HandGuarded(i) \/ \A v \in Versions : HandOutcome(i, v).body.found => v \in src[i].vs
    /\ Held(i).pc = "written" => HandGuarded(i) \/ Known(i)

\* The attempt t has still to come to i: past its cursor, and neither on the
\* page it has listed nor after it, or among those it is going to mark.
PageIds(t) == {r[1] : r \in t.page}
LeftIds(t) == {r[1] : r \in t.left}

Beyond(t, i) == ~(Cardinality(t.page) < PageSize) /\ \A j \in PageIds(t) : j < i

Before(t, i) ==
    /\ t.latest < i /\ t.after < i
    /\ t.pc = "probe" => i \in t.suspects \cup LeftIds(t) \/ Beyond(t, i)
    /\ t.pc = "mark" => i \in t.suspects \/ Beyond(t, i)

\* No attempt of the run has come to i, and i is there to be listed.
Unreached(i) ==
    /\ sweep.outcome # "done" /\ sweep.recorded < i
    /\ \A a \in DOMAIN atts : Before(atts[a], i)

Ahead(i) == Listable(i) /\ Unreached(i)

\* What a walk has fetched of i and not begun, the source still has.
Fresh(i) ==
    Held(i).pc = "fetched" => \A v \in Versions : Held(i).out[v].found => v \in src[i].vs

\* No id the source lost before the run is passed unless it is kept.
Swept ==
    \A i \in gone :
        /\ ProbeVersion \notin src[i].vs /\ Fresh(i)
        /\ i \notin skipped => Ahead(i) \/ Kept(i)

\* Everything that happened to i has been registered, and no row of it removed
\* under the walk's hands since.
Heard(i) == i \notin notices \cup unheard \cup exposed

\* The row of a resource whose delete was registered is marked, its build
\* writes nothing or leaves the mark, and a walk that has it in hand finds the
\* delete registered when it is done.
Buried(i) ==
    /\ rows[i].present => rows[i].stale
    /\ live[i] # NoLive => Guarded(i) \/ \A v \in Versions : ~live[i].out[v].found
    /\ Held(i).pc # "none" => rows[i].present /\ Drifted(i)

Buries == \A i \in Ids : src[i].vs = {} /\ Heard(i) => Buried(i)

AuditInv == BaseInv /\ Swept /\ Buries

-----------------------------------------------------------------------------
(* The inductive invariant: what a version has answered *)

Agrees(i, v) == docs[i][v].body.found = (v \in src[i].vs)

\* The walk has written an older answer and is going to mark the row again.
Late(i) == Held(i).pc \in {"written", "remark"} /\ Outdated(i) /\ rows[i].present /\ Drifted(i)

\* What v holds of i was decided after the row's last mark.
Decisive(i, v) ==
    \/ docs[i][v].ver > rows[i].mark /\ docs[i][v].ver > 1
    \/ rows[i].mark = 0 /\ edges[i][v].stamp # 0

\* Of an id that was heard of: its row has its metadata or none, and is a
\* tombstone only of what is gone; what was decided after the row's mark is the
\* answer; the build that serves the mark has found all there is; and an older
\* answer in the walk's hands is one whose change it is going to find.
Truthful(i) ==
    /\ rows[i].present => rows[i].md = src[i].md \/ rows[i].md = None
    /\ rows[i].tomb => src[i].vs = {}
    /\ \A v \in Versions : Decisive(i, v) => Agrees(i, v) \/ Late(i)
    /\ live[i] # NoLive /\ rows[i].mark = live[i].mark =>
          \A v \in Versions : live[i].out[v].found = (v \in src[i].vs)
    /\ Outdated(i) => rows[i].present /\ Drifted(i)

\* What the pass writes of i at n has no say: the row is marked again or
\* written above n.
Superseded(i, v, n) == rows[i].mark > n \/ docs[i][v].ver > n

\* What the pass asked with, and what it excludes, is as the source has it, or
\* it has no say.
Ruled(i) ==
    /\ pass.pc = "probe" /\ pass.seqs[i] # 0 =>
          src[i].md = Setup.md \/ src[i].vs = {} \/ Superseded(i, PassVersion, pass.seqs[i])
    /\ i \in pass.todo =>
          PassVersion \notin src[i].vs \/ Superseded(i, PassVersion, pass.seqs[i])

\* The pass has nothing left to decide about i at v.
Covered(i, v) ==
    \/ i \in exposed \/ Held(i).pc = "begun"
    \/ Clean(i) /\ ~rows[i].tomb /\ rows[i].md = Setup.md => edges[i][v].stamp # 0

Coverage == [i \in Ids |-> {v \in Versions : Covered(i, v)}]

\* What a pass q has in hand, by where it is.
InHand == {"begin", "probe", "delete", "edges", "mark"}

Shaped(q) ==
    /\ q.left \subseteq Setup.pass
    /\ q.pc \in InHand \cup {"list"} => q.left # {}
    /\ q.pc = "done" => q.left = {}
    /\ q.pc \in {"delete", "edges"} <=> q.todo # {}
    /\ q.pc \notin {"delete", "edges", "mark"} => q.returned = {}
    /\ \A i \in q.todo : q.seqs[i] # 0
    /\ \A i \in Ids : q.seqs[i] # 0 => q.seqs[i] > 1

PassShape ==
    /\ Shaped(pass)
    /\ pass.pc = "edges" => docs[Excluded][PassVersion].ver >= pass.seqs[Excluded]

\* The pass q has still to come to i: beyond its page or on it.
Coming(q, i) == Cardinality(q.page) >= PageSize /\ \A j \in q.page : j < i

Awaited(q, i) ==
    \/ q.pc = "list" /\ i > q.after
    \/ q.pc \in InHand /\ Coming(q, i)
    \/ /\ q.pc \in InHand /\ i \in q.page
       /\ \/ q.pc = "begin"
          \/ q.pc = "probe" /\ q.seqs[i] # 0
          \/ i \in q.todo \cup q.returned

\* What a pass q that covers c has left behind it, it has decided.
Decides(q, c) ==
    \A i \in Ids :
        /\ \A v \in Setup.pass \ q.left : v \in c[i]
        /\ q.pc # "done" => Awaited(q, i) \/ LeastOf(q.left) \in c[i]

\* A pass none of whose calls failed leaves nothing undecided behind it.
Deciding == used.errors = 0 /\ pass.pc \notin {"off", "failed"} => Decides(pass, Coverage)

CoverInv == PassShape /\ Deciding /\ \A i \in Ids : Heard(i) => Truthful(i) /\ Ruled(i)


-----------------------------------------------------------------------------
(* Pages *)

\* The greatest of a finite set is one of it.
LEMMA LastOfIsLast ==
    ASSUME NEW S \in SUBSET Nat, IsFiniteSet(S), S # {}
    PROVE  LastOf(S) \in S /\ \A j \in S : j <= LastOf(S)
  <1>1. Cardinality(S) \in Nat /\ Cardinality(S) # 0
    BY FS_EmptySet, FS_CardinalityType
  <1>2. PICK i \in S : Nth(S, i) = Cardinality(S)
    BY <1>1, NthFacts
  <1>3. \A j \in S : ~(i < j)
    BY <1>1, <1>2, NthFacts
  <1>4. \A j \in S : j <= i
    BY <1>3
  <1>. QED  BY <1>4 DEF LastOf

\* A page holds what is on it in id order, is empty only when nothing is left,
\* and leaves something out only when it is full.
LEMMA PageFacts ==
    ASSUME NEW S \in SUBSET Nat, IsFiniteSet(S)
    PROVE  /\ FirstPage(S) \subseteq S /\ IsFiniteSet(FirstPage(S))
           /\ S # {} => FirstPage(S) # {}
           /\ \A i \in S \ FirstPage(S) : /\ \A j \in FirstPage(S) : j < i
                                          /\ Cardinality(FirstPage(S)) >= PageSize
  <1>. DEFINE F == FirstPage(S)
  <1>1. F \in SUBSET S /\ IsFiniteSet(F) /\ Cardinality(F) \in Nat
    BY FS_Subset, FS_CardinalityType DEF FirstPage
  <1>2. PageSize \in Nat \ {0}
    BY AuditAssumption
  <1>3. S # {} => F # {}
    <2>1. SUFFICES ASSUME S # {} PROVE F # {}
      OBVIOUS
    <2>2. Cardinality(S) \in Nat /\ Cardinality(S) # 0
      BY <2>1, FS_EmptySet, FS_CardinalityType
    <2>3. PICK i \in S : Nth(S, i) = 1
      BY <2>2, NthFacts
    <2>. QED  BY <1>2, <2>3 DEF FirstPage
  <1>4. ASSUME NEW i \in S \ F
        PROVE  (\A j \in F : j < i) /\ Cardinality(F) >= PageSize
    <2>1. Nth(S, i) > PageSize /\ Nth(S, i) \in 1 .. Cardinality(S) /\ Cardinality(S) \in Nat
      BY <1>2, NthFacts DEF FirstPage
    <2>2. ASSUME NEW j \in F PROVE j < i
      <3>1. Nth(S, j) <= PageSize /\ Nth(S, j) \in Nat /\ j \in S
        BY <1>1, NthFacts DEF FirstPage
      <3>2. ~(i < j) /\ i # j
        BY <1>2, <2>1, <3>1, NthFacts
      <3>. QED  BY <3>1, <3>2
    <2>. DEFINE f == [j \in F |-> Nth(S, j)]
    <2>3. f \in Surjection(F, 1 .. PageSize)
      <3>1. \A j \in F : Nth(S, j) \in 1 .. PageSize
        BY <1>2, NthFacts DEF FirstPage
      <3>2. f \in [F -> 1 .. PageSize]
        BY <3>1
      <3>3. ASSUME NEW n \in 1 .. PageSize PROVE \E j \in F : f[j] = n
        <4>1. n \in 1 .. Cardinality(S)
          BY <1>2, <2>1
        <4>2. PICK j \in S : Nth(S, j) = n
          BY <4>1, NthFacts
        <4>3. j \in F
          BY <1>2, <4>2 DEF FirstPage
        <4>. QED  BY <4>2, <4>3
      <3>. QED  BY <3>2, <3>3 DEF Surjection
    <2>4. Cardinality(1 .. PageSize) <= Cardinality(F)
      BY <1>1, <2>3, FS_Surjection
    <2>5. Cardinality(1 .. PageSize) = PageSize
      BY <1>2, FS_Interval
    <2>. QED  BY <1>1, <1>2, <2>2, <2>4, <2>5
  <1>. QED  BY <1>1, <1>3, <1>4

-----------------------------------------------------------------------------
(* The setup, and the types of a step *)

\* What a setup gives a behaviour.
LEMMA SetupFacts ==
    ASSUME used \in Used
    PROVE  /\ Ids \subseteq Nat \ {0} /\ IsFiniteSet(Ids)
           /\ Versions \subseteq Nat \ {0} /\ Versions # {} /\ IsFiniteSet(Versions)
           /\ Setup.mds = {None} \/ (None \notin Setup.mds /\ (Setup.md = None => Setup.pass = {}))
           /\ Setup.md \in Nat
           /\ Setup.existences \subseteq SUBSET Versions /\ Setup.mds \subseteq Nat
           /\ Setup.walks \in Seq(Nat) /\ Setup.pass \subseteq Versions
  <1>1. IsSetup(Setup)
    BY AuditAssumption DEF Used, Setup
  <1>. QED  BY <1>1 DEF IsSetup, Ids, Versions

\* Sets of ids are finite, and so are their counts and positions.
LEMMA IdFacts ==
    ASSUME used \in Used, NEW S \in SUBSET Ids
    PROVE  /\ S \subseteq Nat /\ IsFiniteSet(S) /\ Cardinality(S) \in Nat
           /\ \A i \in S : Nth(S, i) \in 1 .. Cardinality(S)
           /\ S # {} => LastOf(S) \in S
           /\ Cardinality(S) # 0 => S # {}
  <1>1. S \in SUBSET Nat /\ IsFiniteSet(S)
    BY SetupFacts, FS_Subset
  <1>2. Cardinality(S) \in Nat /\ \A i \in S : Nth(S, i) \in 1 .. Cardinality(S)
    BY <1>1, NthFacts
  <1>3. S # {} => LastOf(S) \in S
    BY <1>1, LastOfIsLast
  <1>. QED  BY <1>1, <1>2, <1>3, FS_EmptySet

\* What the setup alone decides.
Fixed ==
    /\ used' \in Used /\ Setup' = Setup
    /\ Ids' = Ids /\ Versions' = Versions /\ ProbeVersion' = ProbeVersion
    /\ Live' = Live /\ NoLive' = NoLive /\ Attempt' = Attempt /\ Pass' = Pass /\ Fwd' = Fwd
    /\ Hand' = Hand /\ NoHand' = NoHand /\ NoHands' = NoHands

\* Spending is counted, and the setup stays.
LEMMA SpendFacts ==
    ASSUME used \in Used, NEW w \in {"changes", "losses", "errors", "crashes"}, Spend(w)
    PROVE  used' \in Used /\ used'.setup = used.setup
  BY DEF Spend, Used

\* Every step keeps the setup.
LEMMA SetupFixed ==
    ASSUME TypeOK, used' \in Used, used'.setup = used.setup
    PROVE  Fixed
  <1>1. Setup' = Setup
    BY DEF Setup
  <1>2. Ids' = Ids /\ Versions' = Versions
    BY <1>1 DEF Ids, Versions
  <1>3. ProbeVersion' = ProbeVersion
    BY <1>2 DEF ProbeVersion, LeastOf
  <1>4. Live' = Live /\ Attempt' = Attempt
    BY <1>2 DEF Live, Attempt
  <1>5. NoLive' = NoLive
    BY <1>2 DEF NoLive
  <1>6. Hand' = Hand /\ NoHand' = NoHand
    BY <1>2 DEF Hand, NoHand
  <1>7. NoHands' = NoHands
    BY <1>2, <1>6 DEF NoHands
  <1>8. Pass' = Pass /\ Fwd' = Fwd
    BY <1>2, <1>6 DEF Pass, Fwd
  <1>. QED  BY <1>1, <1>2, <1>3, <1>4, <1>5, <1>6, <1>7, <1>8 DEF Fixed

\* What a step may spend.
LEMMA SpendStep ==
    ASSUME [Next]_vars
    PROVE  UNCHANGED used \/ \E w \in {"changes", "losses", "errors", "crashes"} : Spend(w)
  <1>3. ASSUME NEW i \in Ids, SourceStep(i) \/ BuildStep(i) \/ BuildFails(i)
        PROVE  UNCHANGED used \/ \E w \in {"changes", "losses", "errors", "crashes"} : Spend(w)
    BY <1>3 DEF SourceStep, BuildStep, Change, Register, BuildBegins, BuildEnds, BuildFails
  <1>4. ASSUME NEW a \in DOMAIN atts, AttemptStep(a) \/ AttemptError(a)
        PROVE  UNCHANGED used \/ \E w \in {"changes", "losses", "errors", "crashes"} : Spend(w)
    BY <1>4 DEF AttemptStep, ListPage, Probe, ProbeFails, MarkPage, AttemptError
  <1>5. ASSUME PassStep
        PROVE  UNCHANGED used \/ \E w \in {"changes", "losses", "errors", "crashes"} : Spend(w)
    BY <1>5 DEF PassStep, ListUncovered, BeginPage, ProbePage, DeleteExcluded, EmptyEdges,
                MarkReturned, ProbePageFails, ExcludedFails, MarkReturnedFails, PassEnds
  <1>6. ASSUME FwdStep
        PROVE  UNCHANGED used \/ \E w \in {"changes", "losses", "errors", "crashes"} : Spend(w)
    BY <1>6 DEF FwdStep, StartWalk, WalkEnds, WalkFails, WalksDone, WalkId, WalkFetches, WalkBegins,
                WalkWrites, WalkSettles, WalkRemarks, WalkMarks
  <1>7. ASSUME StartRun \/ Beat \/ BeatTimesOut \/ Rest \/ UNCHANGED vars
        PROVE  UNCHANGED used \/ \E w \in {"changes", "losses", "errors", "crashes"} : Spend(w)
    BY <1>7 DEF StartRun, Beat, BeatTimesOut, Rest, vars
  <1>. QED  BY <1>3, <1>4, <1>5, <1>6, <1>7 DEF Next

\* Every step keeps the setup.
LEMMA StepFixed ==
    ASSUME TypeOK, [Next]_vars
    PROVE  Fixed
  <1>. SUFFICES used' \in Used /\ used'.setup = used.setup
    BY SetupFixed
  <1>0. used \in Used
    BY DEF TypeOK
  <1>1. CASE UNCHANGED used
    BY <1>0, <1>1
  <1>2. CASE \E w \in {"changes", "losses", "errors", "crashes"} : Spend(w)
    BY <1>0, <1>2, SpendFacts
  <1>. QED  BY <1>1, <1>2, SpendStep

\* Errors are counted and not forgotten.
LEMMA ErrorFacts ==
    ASSUME TypeOK, [Next]_vars
    PROVE  /\ used'.errors = 0 => used.errors = 0
           /\ Spend("errors") => used'.errors # 0
  <1>1. used \in Used /\ used.errors \in Nat
    BY DEF TypeOK, Used
  <1>2. Spend("errors") => used'.errors = used.errors + 1
    BY <1>1 DEF Spend, Used
  <1>3. Spend("changes") \/ Spend("losses") \/ Spend("crashes") => used'.errors = used.errors
    BY <1>1 DEF Spend, Used
  <1>. QED  BY <1>1, <1>2, <1>3, SpendStep

Doc == [ver : Nat, body : Body]
EdgeSet == [stamp : Nat, kids : {{}}]

\* What the operators on rows, documents and edge sets return.
LEMMA WriteFacts ==
    ASSUME NEW doc \in Doc, NEW body \in Body, NEW set \in EdgeSet, NEW n \in Nat
    PROVE  /\ Written(doc, body, n) \in Doc
           /\ ReplacedSet(set, n, {}) \in EdgeSet /\ RemovedSet(set, n) \in EdgeSet
  BY DEF Written, ReplacedSet, RemovedSet, NoEdges, Doc, EdgeSet

\* A report changes the metadata only.
LEMMA ReportFacts ==
    ASSUME NEW row \in Row, NEW md \in Nat
    PROVE  /\ Reported(row, md) \in Row
           /\ Reported(row, md).present = row.present /\ Reported(row, md).tomb = row.tomb
           /\ Reported(row, md).stale = row.stale /\ Reported(row, md).mark = row.mark
           /\ Reported(row, md).changed = row.changed
           /\ Reported(row, md).md = IF row.md = None THEN md ELSE row.md
  BY DEF Reported, Row

\* A fetch finds only what the plan finds.
LEMMA FetchFacts ==
    ASSUME TypeOK, NEW i \in Ids, NEW v \in Versions, NEW md
    PROVE  Fetched(i, v, md) \in Body /\ (Fetched(i, v, md).found => v \in src[i].vs)
  <1>1. src[i].n \in Nat
    BY DEF TypeOK
  <1>. QED  BY <1>1 DEF Fetched, Finds, NoBody, Body

\* Marking is a mark above every number drawn.
LEMMA MarkFacts ==
    ASSUME TypeOK, NEW S \in SUBSET Ids
    PROVE  /\ Marked(S) \in [Ids -> Row] /\ seq + Cardinality(S) \in Nat
           /\ \A i \in Ids \ S : Marked(S)[i] = rows[i]
           /\ \A i \in S : /\ Marked(S)[i].present /\ Marked(S)[i].stale
                           /\ Marked(S)[i].tomb = rows[i].tomb /\ Marked(S)[i].md = rows[i].md
                           /\ Marked(S)[i].changed = rows[i].changed
                           /\ Marked(S)[i].mark > seq
                           /\ Marked(S)[i].mark <= seq + Cardinality(S)
  <1>1. seq \in Nat /\ rows \in [Ids -> Row] /\ used \in Used
    BY DEF TypeOK
  <1>2. Cardinality(S) \in Nat /\ \A i \in S : Nth(S, i) \in 1 .. Cardinality(S)
    BY <1>1, IdFacts
  <1>3. ASSUME NEW i \in S
        PROVE  /\ Marked(S)[i] \in Row
               /\ Marked(S)[i].present /\ Marked(S)[i].stale
               /\ Marked(S)[i].tomb = rows[i].tomb /\ Marked(S)[i].md = rows[i].md
               /\ Marked(S)[i].changed = rows[i].changed
               /\ Marked(S)[i].mark > seq
               /\ Marked(S)[i].mark <= seq + Cardinality(S)
    <2>1. PICK n \in Nat : n = seq + Nth(S, i) /\ n > seq /\ n <= seq + Cardinality(S)
      BY <1>1, <1>2
    <2>2. PICK row \in Row : row = rows[i]
      BY <1>1
    <2>3. Marked(S)[i] = [row EXCEPT !.present = TRUE, !.stale = TRUE, !.mark = n]
      BY <2>1, <2>2 DEF Marked
    <2>. QED  BY <2>1, <2>2, <2>3 DEF Row
  <1>4. \A i \in Ids \ S : Marked(S)[i] = rows[i]
    BY DEF Marked
  <1>5. Marked(S) = [i \in Ids |-> Marked(S)[i]]
    BY DEF Marked
  <1>6. \A i \in Ids : Marked(S)[i] \in Row
    BY <1>1, <1>3, <1>4
  <1>7. Marked(S) \in [Ids -> Row]
    BY <1>5, <1>6
  <1>. QED  BY <1>1, <1>2, <1>3, <1>4, <1>7

\* Asked with the resource's own metadata, a plan finds it exactly when it has
\* it; asked with other metadata, nothing.
LEMMA FoundFacts ==
    ASSUME NEW i \in Ids, NEW v \in Versions, NEW md
    PROVE  /\ NoBody.found = FALSE
           /\ md = src[i].md => Fetched(i, v, md).found = (v \in src[i].vs)
           /\ md # src[i].md => Fetched(i, v, md) = NoBody
  <1>1. NoBody.found = FALSE
    BY DEF NoBody
  <1>2. [found |-> TRUE, n |-> src[i].n].found = TRUE
    OBVIOUS
  <1>3. md # src[i].md => Fetched(i, v, md) = NoBody
    BY DEF Fetched, Finds
  <1>4. CASE v \in src[i].vs
    <2>1. (v \in src[i].vs) = TRUE
      BY <1>4
    <2>2. md = src[i].md => Fetched(i, v, md) = [found |-> TRUE, n |-> src[i].n]
      BY <1>4 DEF Fetched, Finds
    <2>. QED  BY <1>1, <1>2, <1>3, <2>1, <2>2, Zenon
  <1>5. CASE v \notin src[i].vs
    <2>1. (v \in src[i].vs) = FALSE
      BY <1>5
    <2>2. Fetched(i, v, md) = NoBody
      BY <1>5 DEF Fetched, Finds
    <2>. QED  BY <1>1, <2>1, <2>2, Zenon
  <1>. QED  BY <1>4, <1>5

\* The source as types have it.
Sources == [vs : SUBSET Versions, md : Nat, n : Nat]

\* The types of the store and of what it numbers.
LEMMA StoreFacts ==
    ASSUME TypeOK, Drawn
    PROVE  /\ used \in Used /\ seq \in Nat /\ seq >= 1 /\ src \in [Ids -> Sources]
           /\ exposed \subseteq Ids
           /\ rows \in [Ids -> Row] /\ docs \in [Ids -> [Versions -> Doc]]
           /\ edges \in [Ids -> [Versions -> EdgeSet]] /\ live \in [Ids -> Live]
           /\ fwd.hand \in [Ids -> Hand] /\ fwd.left \in Seq(Nat)
           /\ fwd.start \in Nat /\ fwd.start <= seq
           /\ \A i \in Ids :
                 /\ rows[i].mark <= seq /\ live[i].mark <= seq /\ live[i].idx <= seq
                 /\ Held(i).idx <= seq
                 /\ rows[i].mark \in Nat /\ live[i].mark \in Nat /\ live[i].idx \in Nat
                 /\ \A v \in Versions : docs[i][v].ver <= seq /\ docs[i][v].ver \in Nat
                                        /\ docs[i][v].body \in Body /\ live[i].out[v] \in Body
  <1>1. /\ used \in Used /\ seq \in Nat /\ src \in [Ids -> Sources] /\ exposed \subseteq Ids
        /\ rows \in [Ids -> Row] /\ docs \in [Ids -> [Versions -> Doc]]
        /\ edges \in [Ids -> [Versions -> EdgeSet]] /\ live \in [Ids -> Live]
    BY DEF TypeOK, Sources, Doc, EdgeSet
  <1>2. ASSUME NEW i \in Ids
        PROVE  /\ rows[i].mark \in Nat /\ live[i].mark \in Nat /\ live[i].idx \in Nat
               /\ \A v \in Versions : docs[i][v].ver \in Nat /\ docs[i][v].body \in Body
                                      /\ live[i].out[v] \in Body
    BY <1>1 DEF Row, Live, Doc
  <1>3. fwd.hand \in [Ids -> Hand] /\ fwd.left \in Seq(Nat) /\ fwd.start \in Nat
    BY DEF TypeOK, Fwd
  <1>. QED  BY <1>1, <1>2, <1>3 DEF Drawn

\* The types of one id, and which of its numbers are drawn.
LEMMA IdTypes ==
    ASSUME TypeOK, Drawn, NEW i \in Ids
    PROVE  /\ seq \in Nat /\ seq >= 1 /\ rows[i] \in Row /\ live[i] \in Live
           /\ Held(i) \in Hand /\ src[i].md \in Nat /\ src[i].vs \subseteq Versions
           /\ rows[i].mark \in Nat /\ rows[i].mark <= seq /\ rows[i].md \in Nat
           /\ rows[i].changed \in Nat
           /\ rows[i].present \in BOOLEAN /\ rows[i].tomb \in BOOLEAN /\ rows[i].stale \in BOOLEAN
           /\ live[i].mark \in Nat /\ live[i].mark <= seq
           /\ live[i].idx \in Nat /\ live[i].idx <= seq /\ live[i].md \in Nat
           /\ Held(i).mark \in Nat /\ Held(i).idx \in Nat /\ Held(i).idx <= seq
           /\ fwd.start \in Nat /\ fwd.start <= seq
           /\ pass.seqs[i] \in Nat /\ pass.seqs[i] <= seq
           /\ \A v \in Versions : /\ docs[i][v].ver \in Nat /\ docs[i][v].ver <= seq
                                  /\ docs[i][v] \in Doc /\ edges[i][v] \in EdgeSet
                                  /\ edges[i][v].stamp \in Nat
                                  /\ docs[i][v].body.found \in BOOLEAN
                                  /\ live[i].out[v].found \in BOOLEAN
                                  /\ Held(i).out[v].found \in BOOLEAN
  <1>1. /\ seq \in Nat /\ rows[i] \in Row /\ live[i] \in Live /\ src[i] \in Sources
        /\ edges[i] \in [Versions -> EdgeSet] /\ docs[i] \in [Versions -> Doc]
        /\ Held(i) \in Hand
    BY StoreFacts DEF Held
  <1>2. /\ src[i].md \in Nat /\ src[i].vs \subseteq Versions /\ rows[i].md \in Nat
        /\ live[i].md \in Nat /\ rows[i].changed \in Nat
        /\ rows[i].present \in BOOLEAN /\ rows[i].tomb \in BOOLEAN /\ rows[i].stale \in BOOLEAN
        /\ Held(i).mark \in Nat /\ Held(i).idx \in Nat
        /\ Held(i).out \in [Versions -> Body]
    BY <1>1 DEF Sources, Row, Live, Hand
  <1>3. \A v \in Versions : edges[i][v] \in EdgeSet /\ edges[i][v].stamp \in Nat /\ docs[i][v] \in Doc
    BY <1>1 DEF EdgeSet
  <1>4. /\ rows[i].mark <= seq /\ live[i].mark <= seq /\ live[i].idx <= seq /\ Held(i).idx <= seq
        /\ rows[i].mark \in Nat /\ live[i].mark \in Nat /\ live[i].idx \in Nat /\ seq >= 1
        /\ fwd.start \in Nat /\ fwd.start <= seq
        /\ \A v \in Versions : docs[i][v].ver <= seq /\ docs[i][v].ver \in Nat
                               /\ docs[i][v].body \in Body /\ live[i].out[v] \in Body
    BY StoreFacts
  <1>5. pass.seqs[i] \in Nat /\ pass.seqs[i] <= seq
    BY DEF TypeOK, Pass, Drawn
  <1>6. \A b \in Body : b.found \in BOOLEAN
    BY DEF Body
  <1>7. \A v \in Versions : Held(i).out[v].found \in BOOLEAN
    BY <1>2, <1>6
  <1>. QED  BY <1>1, <1>2, <1>3, <1>4, <1>5, <1>6, <1>7

\* The types of one id after a step.
LEMMA NextTypes ==
    ASSUME TypeOK', Fixed, NEW i \in Ids
    PROVE  /\ rows'[i] \in Row /\ live'[i] \in Live /\ fwd'.hand[i] \in Hand
           /\ rows'[i].mark \in Nat /\ rows'[i].md \in Nat /\ rows'[i].changed \in Nat
           /\ rows'[i].present \in BOOLEAN /\ rows'[i].tomb \in BOOLEAN /\ rows'[i].stale \in BOOLEAN
           /\ live'[i].mark \in Nat /\ live'[i].idx \in Nat
           /\ fwd'.hand[i].mark \in Nat /\ fwd'.hand[i].idx \in Nat
           /\ fwd'.start \in Nat
           /\ \A v \in Versions : /\ docs'[i][v].ver \in Nat /\ edges'[i][v].stamp \in Nat
                                  /\ docs'[i][v].body.found \in BOOLEAN
                                  /\ live'[i].out[v].found \in BOOLEAN
                                  /\ fwd'.hand[i].out[v].found \in BOOLEAN
  <1>1. /\ rows'[i] \in Row /\ live'[i] \in Live /\ fwd' \in Fwd
        /\ docs'[i] \in [Versions -> Doc] /\ edges'[i] \in [Versions -> EdgeSet]
    BY DEF TypeOK, Fixed, Doc, EdgeSet
  <1>2. fwd'.hand[i] \in Hand /\ fwd'.start \in Nat
    BY <1>1 DEF Fwd
  <1>3. /\ rows'[i].mark \in Nat /\ rows'[i].md \in Nat /\ rows'[i].changed \in Nat
        /\ rows'[i].present \in BOOLEAN /\ rows'[i].tomb \in BOOLEAN /\ rows'[i].stale \in BOOLEAN
    BY <1>1 DEF Row
  <1>4. /\ live'[i].mark \in Nat /\ live'[i].idx \in Nat /\ live'[i].out \in [Versions -> Body]
        /\ fwd'.hand[i].mark \in Nat /\ fwd'.hand[i].idx \in Nat
        /\ fwd'.hand[i].out \in [Versions -> Body]
    BY <1>1, <1>2 DEF Live, Hand
  <1>5. \A v \in Versions : docs'[i][v].ver \in Nat /\ docs'[i][v].body \in Body /\ edges'[i][v].stamp \in Nat
    BY <1>1 DEF Doc, EdgeSet
  <1>6. \A b \in Body : b.found \in BOOLEAN
    BY DEF Body
  <1>. QED  BY <1>1, <1>2, <1>3, <1>4, <1>5, <1>6

-----------------------------------------------------------------------------
(* What a step does to the row, the writes, the build and the walk of an id *)

Keeps(i) == rows'[i] = rows[i] /\ docs'[i] = docs[i] /\ edges'[i] = edges[i]

\* The walk goes on holding what it has of i, or has nothing of it.
Holds(i) ==
    /\ fwd'.hand[i] = fwd.hand[i]
    /\ Held(i).pc # "none" => fwd'.left = fwd.left /\ fwd'.start = fwd.start

\* The walk is done with i.
Frees(i) == fwd'.hand[i] = NoHand

Still(i) == Keeps(i) /\ live'[i] = live[i] /\ Holds(i)

\* The row is marked at a number nobody has captured.
Marks(i) ==
    /\ rows'[i].present /\ rows'[i].stale /\ rows'[i].mark > seq
    /\ docs'[i] = docs[i] /\ edges'[i] = edges[i] /\ live'[i] = live[i]

Remarks(i) ==
    /\ Marks(i) /\ (Holds(i) \/ Frees(i))
    /\ rows'[i].tomb = rows[i].tomb /\ rows'[i].md = rows[i].md /\ rows'[i].changed = rows[i].changed

Registers(i) ==
    /\ Marks(i) /\ Holds(i)
    /\ rows'[i].md = src[i].md /\ (rows'[i].tomb => src[i].vs = {})
    /\ rows'[i].changed > seq /\ rows'[i].changed <= rows'[i].mark

\* A build begins and fetches.
Opens(i) ==
    /\ Keeps(i) /\ Holds(i) /\ rows[i].stale
    /\ live'[i].idx > seq /\ live'[i].mark = rows[i].mark /\ live'[i].md = src[i].md
    /\ rows[i].tomb \/ Answers(rows[i].md)
    /\ \A v \in Versions :
          live'[i].out[v] = IF rows[i].tomb THEN NoBody ELSE Fetched(i, v, rows[i].md)

\* A build ends: it removes the row, leaves it, or serves it.
Ends(i) ==
    /\ live[i] # NoLive /\ live'[i] = NoLive /\ Holds(i)
    /\ \A v \in Versions : docs'[i][v] = Outcome(i, v)

Removes(i) ==
    /\ Ends(i) /\ Nothing(live[i]) /\ rows[i].mark = live[i].mark /\ rows'[i] = NoRow
    /\ i \notin exposed' \/ i \in gone' => ~Outdated(i) /\ ~Overtaken(i, live[i])

Leaves(i) ==
    /\ Ends(i) /\ Nothing(live[i]) /\ rows[i].mark # live[i].mark /\ rows'[i] = rows[i]
    /\ \A v \in Versions : edges'[i][v] = RemovedSet(edges[i][v], live[i].idx)

Serves(i) ==
    /\ Ends(i) /\ ~Nothing(live[i])
    /\ rows'[i].present = rows[i].present /\ rows'[i].tomb = rows[i].tomb
    /\ rows'[i].mark = rows[i].mark /\ rows'[i].changed = rows[i].changed
    /\ rows'[i].md = IF rows[i].md = None THEN live[i].md ELSE rows[i].md
    /\ rows'[i].stale <=> rows[i].stale /\ rows[i].mark # live[i].mark
    /\ \A v \in Versions : edges'[i][v] = ReplacedSet(edges[i][v], live[i].idx, {})

Aborts(i) == Keeps(i) /\ Holds(i) /\ live'[i] = NoLive

\* The pass deletes the document of an id it excluded, or empties its edge set.
Rules(i) ==
    /\ rows'[i] = rows[i] /\ live'[i] = live[i] /\ Holds(i)
    /\ \A v \in Versions :
          /\ \/ docs'[i][v] = docs[i][v]
             \/ /\ i \in pass.todo /\ v = PassVersion
                /\ docs'[i][v] = Written(docs[i][v], NoBody, pass.seqs[i])
          /\ \/ edges'[i][v] = edges[i][v]
             \/ /\ i \in pass.todo /\ v = PassVersion /\ docs[i][v].ver >= pass.seqs[i]
                /\ docs'[i][v] = docs[i][v]
                /\ edges'[i][v] = ReplacedSet(edges[i][v], pass.seqs[i], {})

\* The walk comes to i with pc next, and keeps what it has fetched of it.
Moves(i, from, next) ==
    /\ live'[i] = live[i] /\ fwd'.left = fwd.left /\ fwd'.start = fwd.start
    /\ Held(i).pc = from /\ fwd'.hand[i].pc = next
    /\ from # "none" => fwd'.hand[i].out = Held(i).out
    /\ from \notin {"none", "fetched"} => fwd'.hand[i].idx = Held(i).idx /\ fwd'.hand[i].mark = Held(i).mark

\* It fetches what the source has.
Takes(i) ==
    /\ Keeps(i) /\ Moves(i, "none", "fetched") /\ i \in Listed(Head(fwd.left))
    /\ fwd'.hand[i].out = [v \in Versions |-> Fetched(i, v, Head(fwd.left))]

\* It begins: a missing row is inserted.
Starts(i) ==
    /\ Moves(i, "fetched", "begun") /\ docs'[i] = docs[i] /\ edges'[i] = edges[i]
    /\ fwd'.hand[i].idx > seq /\ fwd'.hand[i].mark = rows[i].mark
    /\ rows'[i].present /\ rows'[i].tomb = rows[i].tomb /\ rows'[i].stale = rows[i].stale
    /\ rows'[i].mark = rows[i].mark /\ rows'[i].changed = rows[i].changed /\ rows'[i].md = rows[i].md

\* It writes.
Puts(i) ==
    /\ Moves(i, "begun", "written")
    /\ \A v \in Versions : /\ docs'[i][v] = HandOutcome(i, v)
                           /\ edges'[i][v] = ReplacedSet(edges[i][v], Held(i).idx, {})
    /\ ~rows[i].present => rows'[i] = rows[i]
    /\ rows'[i].present = rows[i].present /\ rows'[i].tomb = rows[i].tomb
    /\ rows'[i].stale = rows[i].stale /\ rows'[i].mark = rows[i].mark
    /\ rows'[i].changed = rows[i].changed
    /\ rows'[i].md \in {rows[i].md, Head(fwd.left)} /\ (rows[i].md # None => rows'[i].md = rows[i].md)

\* It finds no change registered and clears the mark it began with.
Clears(i) ==
    /\ Held(i).pc = "written" /\ ~Drifted(i) /\ Frees(i)
    /\ docs'[i] = docs[i] /\ edges'[i] = edges[i] /\ live'[i] = live[i]
    /\ ~rows[i].stale => rows'[i] = rows[i]
    /\ rows'[i].present = rows[i].present /\ rows'[i].tomb = rows[i].tomb
    /\ rows'[i].mark = rows[i].mark /\ rows'[i].changed = rows[i].changed
    /\ rows'[i].md = rows[i].md
    /\ rows'[i].stale <=> rows[i].stale /\ rows[i].mark # Held(i).mark

\* It finds one and is going to mark the row again.
Drifts(i) == Keeps(i) /\ Moves(i, "written", "remark") /\ Drifted(i)

\* It gives i up.
Drops(i) == Keeps(i) /\ live'[i] = live[i] /\ Frees(i) /\ (Exposes(i) => i \in exposed')

Walks(i) == Takes(i) \/ Starts(i) \/ Puts(i) \/ Clears(i) \/ Drifts(i) \/ Drops(i)

Builds(i) == Opens(i) \/ Removes(i) \/ Leaves(i) \/ Serves(i) \/ Aborts(i)

Affects(i) ==
    /\ src'[i] = src[i] /\ (i \in exposed => i \in exposed' \/ Registers(i))
    /\ Still(i) \/ Remarks(i) \/ Registers(i) \/ Builds(i) \/ Rules(i) \/ Walks(i)

\* Documents never go back, edge sets only when a build removes them, and the
\* numbers of what is compared are numbers.
LEMMA GrowFacts ==
    ASSUME TypeOK, TypeOK', Fixed, Drawn, NEW i \in Ids, Affects(i), NEW v \in Versions
    PROVE  /\ docs'[i][v].ver \in Nat /\ docs'[i][v].ver >= docs[i][v].ver
           /\ edges'[i][v].stamp \in Nat
           /\ ~Removes(i) /\ ~Leaves(i) => edges'[i][v].stamp >= edges[i][v].stamp
  <1>0. /\ docs[i][v].ver \in Nat /\ edges[i][v].stamp \in Nat /\ live[i].idx \in Nat
        /\ Held(i).idx \in Nat /\ pass.seqs[i] \in Nat
    BY IdTypes
  <1>1. docs'[i][v].ver \in Nat /\ edges'[i][v].stamp \in Nat
    BY NextTypes
  <1>2. CASE docs'[i] = docs[i] /\ edges'[i] = edges[i]
    BY <1>0, <1>1, <1>2
  <1>3. CASE Ends(i)
    <2>1. docs'[i][v] = Written(docs[i][v], live[i].out[v], live[i].idx)
      BY <1>3 DEF Ends, Outcome
    <2>2. docs'[i][v].ver >= docs[i][v].ver
      BY <1>0, <1>1, <2>1 DEF Written
    <2>3. Serves(i) => edges'[i][v].stamp >= edges[i][v].stamp
      BY <1>0, <1>1 DEF Serves, ReplacedSet
    <2>4. Removes(i) \/ Leaves(i) \/ Serves(i) \/ edges'[i] = edges[i] \/ Rules(i) \/ Puts(i)
      BY DEF Affects, Still, Keeps, Remarks, Registers, Marks, Builds, Opens, Aborts, Walks, Takes,
             Starts, Clears, Drifts, Drops
    <2>5. Rules(i) => edges'[i][v].stamp >= edges[i][v].stamp
      BY <1>0, <1>1 DEF Rules, ReplacedSet
    <2>6. Puts(i) => edges'[i][v].stamp >= edges[i][v].stamp
      BY <1>0, <1>1 DEF Puts, ReplacedSet
    <2>. QED  BY <1>0, <1>1, <2>2, <2>3, <2>4, <2>5, <2>6
  <1>4. CASE Puts(i)
    <2>1. docs'[i][v] = Written(docs[i][v], Held(i).out[v], Held(i).idx)
      BY <1>4 DEF Puts, HandOutcome
    <2>2. docs'[i][v].ver >= docs[i][v].ver
      BY <1>0, <1>1, <2>1 DEF Written
    <2>3. edges'[i][v].stamp >= edges[i][v].stamp
      BY <1>0, <1>1, <1>4 DEF Puts, ReplacedSet
    <2>. QED  BY <1>1, <2>2, <2>3
  <1>5. CASE Rules(i)
    <2>1. docs'[i][v].ver >= docs[i][v].ver
      BY <1>0, <1>1, <1>5 DEF Rules, Written
    <2>2. edges'[i][v].stamp >= edges[i][v].stamp
      BY <1>0, <1>1, <1>5 DEF Rules, ReplacedSet
    <2>. QED  BY <1>1, <2>1, <2>2
  <1>. QED  BY <1>2, <1>3, <1>4, <1>5
            DEF Affects, Still, Keeps, Remarks, Registers, Marks, Builds, Opens, Removes, Leaves,
                Serves, Aborts, Walks, Takes, Starts, Clears, Drifts, Drops

\* What a setup's metadata is: none at all, or never none.
LEMMA OneActor ==
    ASSUME TypeOK, NEW md \in Setup.mds
    PROVE  /\ None \in Setup.mds => md = None
           /\ None \notin Setup.mds => md # None
  BY SetupFacts DEF TypeOK

\* Every step keeps the numbers of an id in order.
LEMMA OrderedStep ==
    ASSUME BaseInv, TypeOK', Fixed, NEW i \in Ids, Affects(i)
    PROVE  Ordered(i)'
  <1>0. TypeOK /\ Drawn /\ Ordered(i) /\ HandOrdered(i)
    BY DEF BaseInv
  <1>1. /\ seq \in Nat /\ seq >= 1 /\ rows[i].mark \in Nat /\ rows[i].mark <= seq
        /\ rows[i].changed \in Nat
        /\ live[i].mark \in Nat /\ live[i].idx \in Nat /\ live[i].idx <= seq /\ live[i].mark <= seq
        /\ Held(i).idx \in Nat /\ Held(i).mark \in Nat
        /\ \A v \in Versions : docs[i][v].ver \in Nat /\ edges[i][v].stamp \in Nat
    BY <1>0, IdTypes
  <1>2. \A v \in Versions : /\ docs'[i][v].ver \in Nat /\ docs'[i][v].ver >= docs[i][v].ver
                            /\ edges'[i][v].stamp \in Nat
                            /\ ~Removes(i) /\ ~Leaves(i) => edges'[i][v].stamp >= edges[i][v].stamp
    BY <1>0, GrowFacts
  <1>3. Versions' = Versions /\ Setup' = Setup /\ NoLive' = NoLive /\ src'[i] = src[i]
    BY DEF Fixed, Affects
  <1>4. /\ rows'[i].mark \in Nat /\ rows'[i].changed \in Nat
        /\ live'[i].idx \in Nat /\ live'[i].mark \in Nat
    BY NextTypes
  <1>5. /\ rows[i].stale => rows[i].present /\ rows[i].mark # 0
        /\ rows[i].mark # 0 => rows[i].mark > 1 /\ rows[i].present
        /\ ~rows[i].present => rows[i] = NoRow
        /\ rows[i].changed <= rows[i].mark
        /\ rows[i].changed # 0 => rows[i].md \in Setup.mds
        /\ src[i].md \in Setup.mds
        /\ live[i] # NoLive => Serving(i)
    <2>1. NoRow.mark = 0
      BY DEF NoRow
    <2>. QED  BY <1>0, <2>1 DEF Ordered
  <1>6. ASSUME Clean(i), rows[i].mark # 0, NEW v \in Versions
        PROVE  docs[i][v].ver > rows[i].mark /\ edges[i][v].stamp > rows[i].mark
    BY <1>0, <1>6 DEF Ordered
  <1>7. live'[i] = live[i] => Nothing(live[i])' = Nothing(live[i])
    BY <1>3 DEF Nothing
  \* The parts of Ordered(i)'.
  <1>8. ASSUME rows'[i].stale => rows'[i].present /\ rows'[i].mark # 0,
               rows'[i].mark # 0 => rows'[i].mark > 1,
               ~rows'[i].present => rows'[i] = NoRow,
               rows'[i].changed <= rows'[i].mark,
               rows'[i].changed # 0 => rows'[i].md \in Setup.mds,
               live'[i] # NoLive => Serving(i)',
               Clean(i)' /\ rows'[i].mark # 0 => \A v \in Versions :
                   docs'[i][v].ver > rows'[i].mark /\ edges'[i][v].stamp > rows'[i].mark
        PROVE  Ordered(i)'
    BY <1>3, <1>5, <1>8 DEF Ordered
  \* Steps that change neither the row nor the build.
  <1>9. CASE rows'[i] = rows[i] /\ live'[i] \in {live[i], NoLive} /\ ~Leaves(i)
    <2>1. ~Removes(i)
      <3>1. Removes(i) => rows'[i].mark = 0 /\ rows[i].mark # 0
        BY <1>1, <1>5 DEF Removes, NoRow, Ends, Serving
      <3>. QED  BY <1>9, <3>1
    <2>2. live'[i] = live[i] => Serving(i)' = Serving(i)
      BY <1>3, <1>7, <1>9 DEF Serving
    <2>3. live'[i] # NoLive => Serving(i)'
      BY <1>5, <1>9, <2>2
    <2>4. Clean(i)' = Clean(i)
      BY <1>9 DEF Clean
    <2>5. ASSUME NEW v \in Versions, Clean(i)', rows'[i].mark # 0
          PROVE  docs'[i][v].ver > rows'[i].mark /\ edges'[i][v].stamp > rows'[i].mark
      BY <1>1, <1>2, <1>6, <1>9, <2>1, <2>4, <2>5
    <2>. QED  BY <1>5, <1>8, <1>9, <2>3, <2>5
  <1>10. CASE Remarks(i) \/ Registers(i)
    <2>1. rows'[i].present /\ rows'[i].stale /\ rows'[i].mark > seq /\ live'[i] = live[i]
      BY <1>10 DEF Remarks, Registers, Marks
    <2>2. \/ rows'[i].md = rows[i].md /\ rows'[i].changed = rows[i].changed
          \/ rows'[i].md = src[i].md /\ rows'[i].changed <= rows'[i].mark
      BY <1>10 DEF Remarks, Registers
    <2>3. ASSUME live[i] # NoLive PROVE Serving(i)'
      <3>1. Serving(i) /\ live[i].md \in Setup.mds
        BY <1>5, <2>3 DEF Serving
      <3>2. Nothing(live[i]) \/ rows'[i].md # None \/ live[i].md = None
        BY <1>0, <1>5, <2>2, <3>1, OneActor DEF Serving
      <3>. QED  BY <1>1, <1>3, <1>4, <1>7, <2>1, <3>1, <3>2 DEF Serving
    <2>4. rows'[i].changed <= rows'[i].mark
      BY <1>1, <1>4, <1>5, <2>1, <2>2
    <2>5. ~Clean(i)' /\ rows'[i].mark > 1 /\ rows'[i].mark # 0
      BY <1>1, <1>4, <2>1 DEF Clean
    <2>6. rows'[i].changed # 0 => rows'[i].md \in Setup.mds
      BY <1>5, <2>2
    <2>. QED  BY <1>8, <2>1, <2>3, <2>4, <2>5, <2>6
  <1>11. CASE Opens(i)
    <2>1. /\ rows'[i] = rows[i] /\ docs'[i] = docs[i] /\ edges'[i] = edges[i] /\ rows[i].stale
          /\ live'[i].idx > seq /\ live'[i].mark = rows[i].mark /\ live'[i].md = src[i].md
          /\ rows[i].tomb \/ Answers(rows[i].md)
      BY <1>11 DEF Opens, Keeps
    <2>2. rows[i].tomb => Nothing(live[i])'
      <3>1. ASSUME rows[i].tomb, NEW v \in Versions PROVE live'[i].out[v] = NoBody
        BY <1>11, <3>1 DEF Opens
      <3>. QED  BY <1>3, <3>1 DEF Nothing, NoBody
    <2>3. Answers(rows[i].md) => rows[i].md # None \/ src[i].md = None
      BY <1>0, <1>5, OneActor DEF Answers
    <2>4. Serving(i)'
      BY <1>1, <1>3, <1>4, <1>5, <2>1, <2>2, <2>3 DEF Serving
    <2>5. Clean(i)' => FALSE
      BY <2>1 DEF Clean
    <2>. QED  BY <1>5, <1>8, <2>1, <2>4, <2>5
  <1>12. CASE Removes(i)
    <2>1. /\ ~rows'[i].present /\ ~rows'[i].stale /\ rows'[i].mark = 0 /\ rows'[i].changed = 0
          /\ rows'[i] = NoRow /\ live'[i] = NoLive
      BY <1>12 DEF Removes, Ends, NoRow
    <2>2. ~Clean(i)' /\ rows'[i].changed <= rows'[i].mark
      BY <2>1 DEF Clean
    <2>. QED  BY <1>8, <2>1, <2>2
  <1>13. CASE Leaves(i)
    <2>1. rows'[i] = rows[i] /\ live'[i] = NoLive /\ Serving(i) /\ rows[i].mark # live[i].mark
      BY <1>5, <1>13 DEF Leaves, Ends
    <2>2. rows[i].mark > live[i].idx
      BY <2>1 DEF Serving
    <2>3. ASSUME NEW v \in Versions, Clean(i)', rows'[i].mark # 0
          PROVE  docs'[i][v].ver > rows'[i].mark /\ edges'[i][v].stamp > rows'[i].mark
      <3>1. docs[i][v].ver > rows[i].mark /\ edges[i][v].stamp > rows[i].mark
        BY <1>6, <2>1, <2>3 DEF Clean
      <3>2. edges'[i][v] = edges[i][v]
        BY <1>1, <1>13, <2>2, <3>1 DEF Leaves, RemovedSet
      <3>. QED  BY <1>1, <1>2, <2>1, <3>1, <3>2
    <2>. QED  BY <1>5, <1>8, <2>1, <2>3
  <1>14. CASE Serves(i)
    <2>1. /\ live'[i] = NoLive /\ Serving(i)
          /\ rows'[i].present = rows[i].present /\ rows'[i].mark = rows[i].mark
          /\ rows'[i].changed = rows[i].changed
          /\ rows'[i].md = IF rows[i].md = None THEN live[i].md ELSE rows[i].md
          /\ rows'[i].stale <=> rows[i].stale /\ rows[i].mark # live[i].mark
      BY <1>5, <1>14 DEF Serves, Ends
    <2>2. rows[i].present /\ live[i].md \in Setup.mds /\ live[i].mark < live[i].idx
      BY <2>1 DEF Serving
    <2>3. ASSUME NEW v \in Versions, Clean(i)', rows'[i].mark # 0
          PROVE  docs'[i][v].ver > rows'[i].mark /\ edges'[i][v].stamp > rows'[i].mark
      <3>1. CASE rows[i].mark = live[i].mark
        <4>1. docs'[i][v] = Written(docs[i][v], live[i].out[v], live[i].idx)
              /\ edges'[i][v] = ReplacedSet(edges[i][v], live[i].idx, {})
          BY <1>14 DEF Serves, Ends, Outcome
        <4>2. docs'[i][v].ver >= live[i].idx /\ edges'[i][v].stamp >= live[i].idx
          BY <1>1, <4>1 DEF Written, ReplacedSet
        <4>. QED  BY <1>1, <1>2, <2>1, <2>2, <3>1, <4>2
      <3>2. CASE rows[i].mark # live[i].mark
        <4>1. Clean(i) /\ rows[i].mark # 0
          BY <2>1, <2>3, <3>2 DEF Clean
        <4>2. edges'[i][v].stamp >= edges[i][v].stamp
          BY <1>1, <1>2, <1>14 DEF Serves, ReplacedSet
        <4>. QED  BY <1>1, <1>2, <1>6, <2>1, <4>1, <4>2
      <3>. QED  BY <3>1, <3>2
    <2>. QED  BY <1>5, <1>8, <2>1, <2>2, <2>3
  <1>15. CASE Starts(i)
    <2>1. /\ rows'[i].present /\ rows'[i].stale = rows[i].stale
          /\ rows'[i].mark = rows[i].mark /\ rows'[i].changed = rows[i].changed
          /\ rows'[i].md = rows[i].md /\ live'[i] = live[i]
          /\ docs'[i] = docs[i] /\ edges'[i] = edges[i]
      BY <1>15 DEF Starts, Moves
    <2>2. live[i] # NoLive => Serving(i)'
      BY <1>3, <1>5, <1>7, <2>1 DEF Serving
    <2>3. ASSUME NEW v \in Versions, Clean(i)', rows'[i].mark # 0
          PROVE  docs'[i][v].ver > rows'[i].mark /\ edges'[i][v].stamp > rows'[i].mark
      BY <1>5, <1>6, <2>1, <2>3 DEF Clean
    <2>. QED  BY <1>5, <1>8, <2>1, <2>2, <2>3
  <1>16. CASE Puts(i)
    <2>1. /\ rows'[i].present = rows[i].present /\ rows'[i].stale = rows[i].stale
          /\ rows'[i].mark = rows[i].mark /\ rows'[i].changed = rows[i].changed
          /\ ~rows[i].present => rows'[i] = rows[i]
          /\ rows'[i].md \in {rows[i].md, Head(fwd.left)} /\ (rows[i].md # None => rows'[i].md = rows[i].md)
          /\ live'[i] = live[i]
      BY <1>16 DEF Puts, Moves
    <2>2. Head(fwd.left) \in Setup.mds
      BY <1>0, <1>16 DEF Puts, Moves, HandOrdered
    <2>3. live[i] # NoLive => Serving(i)'
      BY <1>3, <1>5, <1>7, <2>1 DEF Serving
    <2>4. ~Removes(i) /\ ~Leaves(i)
      BY <1>16 DEF Puts, Moves, Removes, Leaves, Ends
    <2>5. ASSUME NEW v \in Versions, Clean(i)', rows'[i].mark # 0
          PROVE  docs'[i][v].ver > rows'[i].mark /\ edges'[i][v].stamp > rows'[i].mark
      <3>1. Clean(i)
        BY <2>1, <2>5 DEF Clean
      <3>. QED  BY <1>1, <1>2, <1>6, <2>1, <2>4, <2>5, <3>1
    <2>. QED  BY <1>5, <1>8, <2>1, <2>2, <2>3, <2>5
  <1>17. CASE Clears(i)
    <2>1. /\ rows'[i].present = rows[i].present
          /\ rows'[i].mark = rows[i].mark /\ rows'[i].changed = rows[i].changed
          /\ ~rows[i].stale => rows'[i] = rows[i]
          /\ rows'[i].md = rows[i].md /\ live'[i] = live[i]
          /\ docs'[i] = docs[i] /\ edges'[i] = edges[i]
          /\ rows'[i].stale <=> rows[i].stale /\ rows[i].mark # Held(i).mark
          /\ Held(i).pc = "written"
      BY <1>17 DEF Clears
    <2>2. live[i] # NoLive => Serving(i)'
      BY <1>3, <1>5, <1>7, <2>1 DEF Serving
    <2>3. ASSUME NEW v \in Versions, Clean(i)', rows'[i].mark # 0
          PROVE  docs'[i][v].ver > rows'[i].mark /\ edges'[i][v].stamp > rows'[i].mark
      <3>1. CASE rows[i].stale
        <4>1. rows[i].mark = Held(i).mark
          BY <2>1, <2>3, <3>1 DEF Clean
        <4>2. docs[i][v].ver >= Held(i).idx /\ Held(i).mark < Held(i).idx /\ edges[i][v].stamp > rows[i].mark
          BY <1>0, <2>1, <2>3, <4>1 DEF HandOrdered, InWork
        <4>. QED  BY <1>1, <2>1, <4>1, <4>2
      <3>2. CASE ~rows[i].stale
        BY <1>6, <2>1, <2>3, <3>2 DEF Clean
      <3>. QED  BY <3>1, <3>2
    <2>. QED  BY <1>5, <1>8, <2>1, <2>2, <2>3
  <1>. QED  BY <1>9, <1>10, <1>11, <1>12, <1>13, <1>14, <1>15, <1>16, <1>17
            DEF Affects, Still, Keeps, Builds, Aborts, Rules, Walks, Takes, Drifts, Drops, Moves

\* And those of what the walk has of it.
LEMMA HandOrderedStep ==
    ASSUME BaseInv, TypeOK', Fixed, NEW i \in Ids, Affects(i)
    PROVE  HandOrdered(i)'
  <1>0. TypeOK /\ Drawn /\ Ordered(i) /\ HandOrdered(i)
    BY DEF BaseInv
  <1>1. /\ seq \in Nat /\ seq >= 1 /\ rows[i].mark \in Nat /\ rows[i].mark <= seq
        /\ live[i].mark \in Nat /\ live[i].idx \in Nat /\ live[i].idx <= seq /\ live[i].mark <= seq
        /\ Held(i).idx \in Nat /\ Held(i).mark \in Nat /\ Held(i).idx <= seq
        /\ \A v \in Versions : docs[i][v].ver \in Nat /\ edges[i][v].stamp \in Nat
    BY <1>0, IdTypes
  <1>2. \A v \in Versions : /\ docs'[i][v].ver \in Nat /\ docs'[i][v].ver >= docs[i][v].ver
                            /\ edges'[i][v].stamp \in Nat
                            /\ ~Removes(i) /\ ~Leaves(i) => edges'[i][v].stamp >= edges[i][v].stamp
    BY <1>0, GrowFacts
  <1>3. /\ Versions' = Versions /\ Setup' = Setup /\ NoLive' = NoLive /\ NoHand' = NoHand
        /\ Held(i)' = fwd'.hand[i] /\ Held(i) = fwd.hand[i] /\ NoHand.pc = "none"
    BY DEF Fixed, Held, NoHand
  <1>4. /\ rows'[i].mark \in Nat /\ live'[i].idx \in Nat /\ live'[i].mark \in Nat
        /\ Held(i)'.idx \in Nat /\ Held(i)'.mark \in Nat
    BY <1>3, NextTypes
  <1>5. live[i] # NoLive => Serving(i)
    BY <1>0 DEF Ordered
  <1>6. /\ Held(i).pc # "none" => /\ \E v \in Versions : Held(i).out[v].found
                                  /\ Head(fwd.left) \in Setup.mds
        /\ InWork(i) =>
             /\ 1 < Held(i).idx /\ Held(i).mark < Held(i).idx
             /\ rows[i].mark = 0 \/ rows[i].mark = Held(i).mark \/ rows[i].mark > Held(i).idx
             /\ live[i] # NoLive => Turns(i)
        /\ Held(i).pc \in {"written", "remark"} => \A v \in Versions : docs[i][v].ver >= Held(i).idx
        /\ Held(i).pc = "written" /\ rows[i].mark = Held(i).mark /\ rows[i].mark # 0 =>
             \A v \in Versions : edges[i][v].stamp > rows[i].mark
    BY <1>0 DEF HandOrdered
  <1>7. InWork(i) <=> Held(i).pc \in {"begun", "written", "remark"}
    BY DEF InWork
  <1>8. InWork(i)' <=> Held(i)'.pc \in {"begun", "written", "remark"}
    BY DEF InWork
  <1>9. CASE Frees(i)
    BY <1>3, <1>8, <1>9 DEF Frees, HandOrdered
  \* The walk holds i, and the marks and numbers of what it holds stay right.
  <1>10. ASSUME Holds(i),
                InWork(i) =>
                  /\ rows'[i].mark = 0 \/ rows'[i].mark = Held(i).mark \/ rows'[i].mark > Held(i).idx
                  /\ live'[i] # NoLive => Turns(i)',
                Held(i).pc = "written" /\ rows'[i].mark = Held(i).mark /\ rows'[i].mark # 0 =>
                  \A v \in Versions : edges'[i][v].stamp > rows'[i].mark
         PROVE  HandOrdered(i)'
    <2>1. /\ Held(i)' = Held(i) /\ (InWork(i)' <=> InWork(i))
          /\ Held(i).pc # "none" => Head(fwd.left)' = Head(fwd.left)
      BY <1>3, <1>7, <1>8, <1>10 DEF Holds
    <2>2. Held(i).pc \in {"written", "remark"} => \A v \in Versions : docs'[i][v].ver >= Held(i).idx
      BY <1>1, <1>2, <1>6
    <2>. QED  BY <1>3, <1>6, <1>10, <2>1, <2>2 DEF HandOrdered
  \* Steps that leave the marks and the build alone.
  <1>11. CASE Holds(i) /\ rows'[i].mark = rows[i].mark /\ live'[i] \in {live[i], NoLive} /\ ~Leaves(i)
              /\ ~Removes(i)
    <2>1. Held(i)' = Held(i)
      BY <1>3, <1>11 DEF Holds
    <2>2. live'[i] = live[i] => Turns(i)' = Turns(i)
      BY <2>1 DEF Turns
    <2>3. ASSUME Held(i).pc = "written", rows'[i].mark = Held(i).mark, rows'[i].mark # 0, NEW v \in Versions
          PROVE  edges'[i][v].stamp > rows'[i].mark
      BY <1>1, <1>2, <1>6, <1>11, <2>3
    <2>. QED  BY <1>6, <1>10, <1>11, <2>2, <2>3
  <1>12. CASE (Remarks(i) \/ Registers(i)) /\ Holds(i)
    <2>1. rows'[i].mark > seq /\ live'[i] = live[i] /\ Held(i)' = Held(i)
      BY <1>3, <1>12 DEF Remarks, Registers, Marks, Holds
    <2>2. Turns(i)' = Turns(i)
      BY <2>1 DEF Turns
    <2>3. rows'[i].mark > Held(i).idx
      BY <1>1, <1>4, <2>1
    <2>4. InWork(i) => rows'[i].mark # Held(i).mark
      BY <1>1, <1>4, <1>6, <2>3
    <2>. QED  BY <1>6, <1>7, <1>10, <1>12, <2>1, <2>2, <2>3, <2>4
  <1>13. CASE Opens(i)
    <2>1. /\ rows'[i] = rows[i] /\ edges'[i] = edges[i] /\ rows[i].stale /\ Holds(i)
          /\ live'[i].idx > seq /\ live'[i].mark = rows[i].mark
      BY <1>13 DEF Opens, Keeps
    <2>2. rows[i].mark # 0
      BY <1>0, <2>1 DEF Ordered
    <2>3. InWork(i) => Turns(i)'
      <3>1. Held(i)' = Held(i)
        BY <1>3, <2>1 DEF Holds
      <3>2. InWork(i) => /\ Held(i).idx < live'[i].idx
                         /\ live'[i].mark = Held(i).mark \/ live'[i].mark > Held(i).idx
        BY <1>1, <1>4, <1>6, <2>1, <2>2
      <3>. QED  BY <3>1, <3>2 DEF Turns
    <2>. QED  BY <1>6, <1>10, <2>1, <2>3
  <1>14. CASE Removes(i)
    <2>1. rows'[i].mark = 0 /\ live'[i] = NoLive /\ Holds(i)
      BY <1>14 DEF Removes, Ends, NoRow
    <2>. QED  BY <1>10, <2>1
  <1>15. CASE Leaves(i)
    <2>1. rows'[i] = rows[i] /\ live'[i] = NoLive /\ Serving(i) /\ rows[i].mark # live[i].mark /\ Holds(i)
      BY <1>5, <1>15 DEF Leaves, Ends
    <2>2. rows[i].mark > live[i].idx
      BY <2>1 DEF Serving
    <2>3. ASSUME Held(i).pc = "written", rows'[i].mark = Held(i).mark, rows'[i].mark # 0, NEW v \in Versions
          PROVE  edges'[i][v].stamp > rows'[i].mark
      <3>1. edges[i][v].stamp > rows[i].mark
        BY <1>6, <2>1, <2>3
      <3>2. edges'[i][v] = edges[i][v]
        BY <1>1, <1>15, <2>2, <3>1 DEF Leaves, RemovedSet
      <3>. QED  BY <2>1, <3>1, <3>2
    <2>. QED  BY <1>6, <1>10, <2>1, <2>3
  <1>16. CASE Takes(i)
    <2>1. /\ Held(i)'.pc = "fetched" /\ fwd'.left = fwd.left /\ i \in Listed(Head(fwd.left))
          /\ Held(i)'.out = [v \in Versions |-> Fetched(i, v, Head(fwd.left))]
      BY <1>3, <1>16 DEF Takes, Moves
    <2>2. PICK v \in Versions : Finds(i, v, Head(fwd.left))
      BY <2>1 DEF Listed
    <2>3. Held(i)'.out[v].found
      BY <2>1, <2>2 DEF Fetched
    <2>4. Head(fwd.left) \in Setup.mds
      BY <1>0, <2>2 DEF Finds, Ordered
    <2>. QED  BY <1>3, <1>8, <2>1, <2>3, <2>4 DEF HandOrdered
  <1>17. CASE Starts(i)
    <2>1. /\ Held(i).pc = "fetched" /\ Held(i)'.pc = "begun" /\ fwd'.left = fwd.left
          /\ Held(i)'.out = Held(i).out /\ Held(i)'.idx > seq /\ Held(i)'.mark = rows[i].mark
          /\ rows'[i].mark = rows[i].mark /\ live'[i] = live[i]
      BY <1>3, <1>17 DEF Starts, Moves
    <2>2. 1 < Held(i)'.idx /\ Held(i)'.mark < Held(i)'.idx
      BY <1>1, <1>4, <2>1
    <2>3. live[i] # NoLive => Turns(i)'
      <3>1. live[i] # NoLive => /\ live[i].idx < Held(i)'.idx
                                /\ Held(i)'.mark = live[i].mark \/ Held(i)'.mark > live[i].idx
        BY <1>1, <1>4, <1>5, <2>1 DEF Serving
      <3>. QED  BY <2>1, <3>1 DEF Turns
    <2>. QED  BY <1>3, <1>6, <2>1, <2>2, <2>3 DEF HandOrdered
  <1>18. CASE Puts(i)
    <2>1. /\ Held(i).pc = "begun" /\ Held(i)'.pc = "written" /\ fwd'.left = fwd.left
          /\ Held(i)'.out = Held(i).out /\ Held(i)'.idx = Held(i).idx /\ Held(i)'.mark = Held(i).mark
          /\ rows'[i].mark = rows[i].mark /\ live'[i] = live[i]
      BY <1>3, <1>18 DEF Puts, Moves
    <2>2. ASSUME NEW v \in Versions
          PROVE  docs'[i][v].ver >= Held(i).idx /\ edges'[i][v].stamp >= Held(i).idx
      <3>1. docs'[i][v] = Written(docs[i][v], Held(i).out[v], Held(i).idx)
            /\ edges'[i][v] = ReplacedSet(edges[i][v], Held(i).idx, {})
        BY <1>18 DEF Puts, HandOutcome
      <3>. QED  BY <1>1, <3>1 DEF Written, ReplacedSet
    <2>3. Turns(i)' = Turns(i)
      BY <2>1 DEF Turns
    <2>4. 1 < Held(i).idx /\ Held(i).mark < Held(i).idx
      BY <1>6, <1>7, <2>1
    <2>5. ASSUME rows'[i].mark = Held(i).mark, NEW v \in Versions PROVE edges'[i][v].stamp > rows'[i].mark
      BY <1>1, <1>2, <2>2, <2>4, <2>5
    <2>. QED  BY <1>3, <1>6, <1>7, <2>1, <2>2, <2>3, <2>4, <2>5 DEF HandOrdered
  <1>19. CASE Drifts(i)
    <2>1. /\ Held(i).pc = "written" /\ Held(i)'.pc = "remark" /\ fwd'.left = fwd.left
          /\ Held(i)'.out = Held(i).out /\ Held(i)'.idx = Held(i).idx /\ Held(i)'.mark = Held(i).mark
          /\ rows'[i] = rows[i] /\ live'[i] = live[i] /\ docs'[i] = docs[i]
      BY <1>3, <1>19 DEF Drifts, Moves, Keeps
    <2>2. Turns(i)' = Turns(i)
      BY <2>1 DEF Turns
    <2>. QED  BY <1>3, <1>6, <1>7, <2>1, <2>2 DEF HandOrdered
  <1>. QED  BY <1>9, <1>11, <1>12, <1>13, <1>14, <1>15, <1>16, <1>17, <1>18, <1>19
            DEF Affects, Still, Keeps, Remarks, Registers, Builds, Serves, Ends, Aborts, Rules, Walks,
                Clears, Drops

-----------------------------------------------------------------------------
(* What is kept stays kept, and what is buried buried *)

\* The higher number wins.
LEMMA WrittenFacts ==
    ASSUME NEW doc \in Doc, NEW body, NEW n \in Nat
    PROVE  /\ doc.ver \in Nat
           /\ doc.ver <= n => Written(doc, body, n).ver = n /\ Written(doc, body, n).body = body
           /\ ~(doc.ver <= n) => Written(doc, body, n) = doc
  BY DEF Written, Doc

\* A build that serves the row's mark began after a walk that holds another.
LEMMA LaterBuild ==
    ASSUME BaseInv, NEW i \in Ids, live[i] # NoLive, InWork(i),
           rows[i].mark = live[i].mark, rows[i].mark # Held(i).mark
    PROVE  Held(i).idx < live[i].idx
  <1>0. TypeOK /\ Drawn /\ Ordered(i) /\ HandOrdered(i)
    BY DEF BaseInv
  <1>1. /\ live[i].mark \in Nat /\ live[i].idx \in Nat /\ Held(i).idx \in Nat /\ Held(i).mark \in Nat
    BY <1>0, IdTypes
  <1>2. /\ 1 < live[i].mark /\ live[i].mark < live[i].idx /\ Turns(i)
        /\ rows[i].mark = 0 \/ rows[i].mark = Held(i).mark \/ rows[i].mark > Held(i).idx
        /\ Held(i).mark < Held(i).idx
    BY <1>0 DEF Ordered, Serving, HandOrdered
  <1>. QED  BY <1>1, <1>2 DEF Turns

\* What the walk has fetched and not begun stays what the source has.
LEMMA FreshStep ==
    ASSUME BaseInv, TypeOK', Fixed, NEW i \in Ids, Affects(i), Fresh(i)
    PROVE  Fresh(i)'
  <1>0. TypeOK /\ Drawn
    BY DEF BaseInv
  <1>1. /\ Held(i)' = fwd'.hand[i] /\ Held(i) = fwd.hand[i] /\ NoHand.pc = "none"
        /\ Versions' = Versions /\ src'[i] = src[i]
    BY DEF Held, NoHand, Fixed, Affects
  <1>2. CASE Holds(i)
    BY <1>1, <1>2 DEF Holds, Fresh
  <1>3. CASE Takes(i)
    <2>1. Held(i)'.out = [v \in Versions |-> Fetched(i, v, Head(fwd.left))]
      BY <1>1, <1>3 DEF Takes
    <2>2. \A v \in Versions : Held(i)'.out[v].found => v \in src[i].vs
      BY <1>0, <2>1, FetchFacts
    <2>. QED  BY <1>1, <2>2 DEF Fresh
  <1>4. CASE Held(i)'.pc # "fetched"
    BY <1>4 DEF Fresh
  <1>5. Holds(i) \/ Takes(i) \/ Held(i)'.pc # "fetched"
    BY <1>1 DEF Affects, Still, Remarks, Registers, Builds, Opens, Removes, Leaves, Serves, Ends, Aborts,
                Rules, Walks, Starts, Puts, Clears, Drifts, Drops, Moves, Frees
  <1>. QED  BY <1>2, <1>3, <1>4, <1>5

\* What is kept stays kept, what is marked is kept, and what the sweep could
\* list it still can unless it is kept.
LEMMA KeptStep ==
    ASSUME BaseInv, TypeOK', Fixed, NEW i \in Ids, Affects(i), Fresh(i), i \in gone'
    PROVE  /\ Kept(i) \/ Marks(i) => Kept(i)'
           /\ Listable(i) => Listable(i)' \/ Kept(i)'
  <1>0. TypeOK /\ Drawn /\ Ordered(i) /\ HandOrdered(i)
    BY DEF BaseInv
  <1>1. /\ seq \in Nat /\ rows[i].mark \in Nat /\ rows[i].mark <= seq
        /\ live[i].mark \in Nat /\ live[i].idx \in Nat /\ live[i].idx <= seq /\ live[i].mark <= seq
        /\ Held(i).idx \in Nat /\ Held(i).mark \in Nat /\ Held(i).idx <= seq
        /\ \A v \in Versions : docs[i][v] \in Doc /\ docs[i][v].ver \in Nat /\ docs[i][v].ver <= seq
    BY <1>0, IdTypes
  <1>2. \A v \in Versions : docs'[i][v].ver \in Nat /\ docs'[i][v].ver >= docs[i][v].ver
    BY <1>0, GrowFacts
  <1>3. /\ Versions' = Versions /\ NoLive' = NoLive /\ src'[i] = src[i]
        /\ Held(i)' = fwd'.hand[i] /\ Held(i) = fwd.hand[i] /\ NoHand.pc = "none"
    BY DEF Fixed, Affects, Held, NoHand
  <1>4. /\ rows'[i].mark \in Nat /\ live'[i].idx \in Nat /\ Held(i)'.idx \in Nat
        /\ \A v \in Versions : docs'[i][v] \in Doc
    <2>1. docs'[i] \in [Versions -> Doc]
      BY DEF TypeOK, Fixed, Doc
    <2>. QED  BY <1>3, <2>1, NextTypes
  <1>5. live[i] # NoLive =>
          /\ 1 < live[i].mark /\ live[i].mark < live[i].idx
          /\ rows[i].mark = live[i].mark \/ rows[i].mark > live[i].idx
    BY <1>0 DEF Ordered, Serving
  <1>6. /\ InWork(i) => /\ Held(i).mark < Held(i).idx
                        /\ live[i] # NoLive /\ rows[i].mark = live[i].mark /\ rows[i].mark # Held(i).mark =>
                              Held(i).idx < live[i].idx
        /\ Held(i).pc \in {"written", "remark"} => \A v \in Versions : docs[i][v].ver >= Held(i).idx
        /\ InWork(i) <=> Held(i).pc \in {"begun", "written", "remark"}
    BY <1>0, LaterBuild DEF HandOrdered, InWork
  <1>7. /\ Listable(i) <=> rows[i].present /\ ~rows[i].tomb
        /\ Listable(i)' <=> rows'[i].present /\ ~rows'[i].tomb
    BY DEF Listable
  \* What a build, or the walk, would leave.
  <1>8. ASSUME NEW v \in Versions
        PROVE  /\ docs[i][v].ver <= live[i].idx => Outcome(i, v).body = live[i].out[v] /\ Outcome(i, v).ver = live[i].idx
               /\ ~(docs[i][v].ver <= live[i].idx) => Outcome(i, v) = docs[i][v]
               /\ docs[i][v].ver <= Held(i).idx => HandOutcome(i, v).body = Held(i).out[v] /\ HandOutcome(i, v).ver = Held(i).idx
               /\ ~(docs[i][v].ver <= Held(i).idx) => HandOutcome(i, v) = docs[i][v]
               /\ docs'[i][v].ver <= live'[i].idx => Outcome(i, v)'.body = live'[i].out[v]
               /\ ~(docs'[i][v].ver <= live'[i].idx) => Outcome(i, v)' = docs'[i][v]
               /\ docs'[i][v].ver <= Held(i)'.idx => HandOutcome(i, v)'.body = Held(i)'.out[v]
               /\ ~(docs'[i][v].ver <= Held(i)'.idx) => HandOutcome(i, v)' = docs'[i][v]
    BY <1>1, <1>4, <1>8, WrittenFacts DEF Outcome, HandOutcome
  <1>9. /\ Guarded(i) <=> rows[i].stale /\ rows[i].mark # live[i].mark
        /\ Guarded(i)' <=> rows'[i].stale /\ rows'[i].mark # live'[i].mark
        /\ HandGuarded(i) <=> rows[i].stale /\ rows[i].mark # Held(i).mark
        /\ HandGuarded(i)' <=> rows'[i].stale /\ rows'[i].mark # Held(i)'.mark
        /\ Known(i) <=> \A v \in Versions : docs[i][v].body.found => v \in src[i].vs
        /\ Known(i)' <=> \A v \in Versions : docs'[i][v].body.found => v \in src[i].vs
    BY <1>3 DEF Guarded, HandGuarded, Known
  \* The parts of Kept(i)'.
  <1>10. ASSUME rows'[i].tomb \/ rows'[i].stale \/ Known(i)',
                live'[i] # NoLive =>
                  Guarded(i)' \/ \A v \in Versions : Outcome(i, v)'.body.found => v \in src[i].vs,
                Held(i)'.pc = "begun" =>
                  HandGuarded(i)' \/ \A v \in Versions : HandOutcome(i, v)'.body.found => v \in src[i].vs,
                Held(i)'.pc = "written" => HandGuarded(i)' \/ Known(i)'
         PROVE  Kept(i)'
    BY <1>3, <1>10 DEF Kept
  <1>11. CASE Marks(i)
    <2>1. rows'[i].stale /\ rows'[i].mark > seq /\ live'[i] = live[i] /\ rows'[i].mark # live'[i].mark
      BY <1>1, <1>4, <1>11 DEF Marks
    <2>2. rows'[i].mark # rows[i].mark /\ rows'[i].mark # 0 /\ NoRow.mark = 0
      BY <1>1, <1>4, <2>1 DEF NoRow
    <2>3. Remarks(i) \/ Registers(i)
      BY <2>2 DEF Affects, Still, Keeps, Builds, Opens, Removes, Leaves, Serves, Aborts, Rules, Walks, Takes,
                  Starts, Puts, Clears, Drifts, Drops
    <2>4. Held(i)' = Held(i) \/ Held(i)'.pc = "none"
      BY <1>3, <2>3 DEF Remarks, Registers, Holds, Frees
    <2>5. InWork(i) => rows'[i].mark # Held(i).mark
      BY <1>1, <1>4, <1>6, <2>1
    <2>. QED  BY <1>6, <1>9, <1>10, <2>1, <2>4, <2>5
  <1>12. CASE Removes(i)
    <2>1. /\ live'[i] = NoLive /\ Held(i)' = Held(i) /\ Nothing(live[i]) /\ ~Outdated(i)
          /\ ~Overtaken(i, live[i]) /\ \A v \in Versions : docs'[i][v] = Outcome(i, v)
      BY <1>3, <1>12 DEF Removes, Ends, Holds
    <2>2. ASSUME NEW v \in Versions PROVE ~docs'[i][v].body.found
      BY <1>1, <1>8, <2>1 DEF Nothing, Overtaken
    <2>3. ASSUME Held(i).pc # "none", NEW v \in Versions, Held(i).out[v].found PROVE v \in src[i].vs
      <3>1. Held(i).out = [u \in Versions |-> Fetched(i, u, Head(fwd.left))]
        BY <1>3, <2>1, <2>3 DEF Outdated
      <3>. QED  BY <1>0, <2>3, <3>1, FetchFacts
    <2>4. ASSUME Held(i).pc = "begun", NEW v \in Versions, HandOutcome(i, v)'.body.found PROVE v \in src[i].vs
      BY <1>8, <2>1, <2>2, <2>3, <2>4
    <2>. QED  BY <1>9, <1>10, <2>1, <2>2, <2>4
  <1>13. Listable(i) => Listable(i)' \/ Kept(i)'
    <2>1. CASE Marks(i) \/ Removes(i)
      BY <1>11, <1>12, <2>1
    <2>2. CASE ~Marks(i) /\ ~Removes(i)
      <3>1. rows'[i].present /\ rows[i].present => rows'[i].tomb = rows[i].tomb
        BY <2>2 DEF Affects, Still, Keeps, Remarks, Registers, Builds, Opens, Leaves, Serves, Aborts, Rules, Walks,
                    Takes, Starts, Puts, Clears, Drifts, Drops
      <3>2. rows[i].present => rows'[i].present
        BY <2>2 DEF Affects, Still, Keeps, Remarks, Registers, Builds, Opens, Leaves, Serves, Aborts, Rules, Walks,
                    Takes, Starts, Puts, Clears, Drifts, Drops
      <3>. QED  BY <1>7, <3>1, <3>2
    <2>. QED  BY <2>1, <2>2
  <1>. SUFFICES ASSUME Kept(i), ~Marks(i), ~Removes(i) PROVE Kept(i)'
    BY <1>11, <1>12, <1>13
  <1>14. /\ rows[i].tomb \/ rows[i].stale \/ Known(i)
         /\ live[i] # NoLive =>
              Guarded(i) \/ \A v \in Versions : Outcome(i, v).body.found => v \in src[i].vs
         /\ Held(i).pc = "begun" =>
              HandGuarded(i) \/ \A v \in Versions : HandOutcome(i, v).body.found => v \in src[i].vs
         /\ Held(i).pc = "written" => HandGuarded(i) \/ Known(i)
    BY DEF Kept
  \* Steps that leave the store alone, and do not begin or end the walk's write.
  <1>15. CASE Keeps(i) /\ live'[i] \in {live[i], NoLive} /\ (Held(i)' = Held(i) \/ Held(i)'.pc \notin {"begun", "written"})
    <2>1. rows'[i] = rows[i] /\ docs'[i] = docs[i]
      BY <1>15 DEF Keeps
    <2>2. live'[i] = live[i] => \A v \in Versions : Outcome(i, v)' = Outcome(i, v)
      BY <2>1 DEF Outcome
    <2>3. Held(i)' = Held(i) => \A v \in Versions : HandOutcome(i, v)' = HandOutcome(i, v)
      BY <2>1 DEF HandOutcome
    <2>. QED  BY <1>9, <1>10, <1>14, <1>15, <2>1, <2>2, <2>3
  <1>16. CASE Opens(i)
    <2>1. rows'[i] = rows[i] /\ docs'[i] = docs[i] /\ Held(i)' = Held(i) /\ live'[i].idx > seq
      BY <1>3, <1>16 DEF Opens, Keeps, Holds
    <2>2. ASSUME NEW v \in Versions, Outcome(i, v)'.body.found PROVE v \in src[i].vs
      <3>1. Outcome(i, v)'.body = live'[i].out[v]
        BY <1>1, <1>4, <1>8, <2>1
      <3>2. live'[i].out[v] = IF rows[i].tomb THEN NoBody ELSE Fetched(i, v, rows[i].md)
        BY <1>16 DEF Opens
      <3>. QED  BY <1>0, <2>2, <3>1, <3>2, FetchFacts DEF NoBody
    <2>3. \A v \in Versions : HandOutcome(i, v)' = HandOutcome(i, v)
      BY <2>1 DEF HandOutcome
    <2>. QED  BY <1>9, <1>10, <1>14, <2>1, <2>2, <2>3
  \* A build writes: the walk's later write wins as before, or what it leaves is known.
  <1>17. ASSUME NEW v \in Versions, \A u \in Versions : docs'[i][u] = Outcome(i, u), Held(i)' = Held(i)
         PROVE  \/ HandOutcome(i, v)'.body = docs'[i][v].body
                \/ HandOutcome(i, v)'.body = Held(i).out[v] /\ HandOutcome(i, v).body = Held(i).out[v]
    BY <1>1, <1>2, <1>8, <1>17
  <1>18. CASE Leaves(i)
    <2>1. /\ rows'[i] = rows[i] /\ live'[i] = NoLive /\ Held(i)' = Held(i) /\ Nothing(live[i])
          /\ \A v \in Versions : docs'[i][v] = Outcome(i, v)
      BY <1>3, <1>18 DEF Leaves, Ends, Holds
    <2>2. ASSUME NEW v \in Versions, docs'[i][v].body.found PROVE docs'[i][v] = docs[i][v]
      BY <1>8, <2>1, <2>2 DEF Nothing
    <2>3. Known(i) => Known(i)'
      BY <1>9, <2>2
    <2>4. ASSUME NEW v \in Versions, HandOutcome(i, v)'.body.found PROVE HandOutcome(i, v).body.found
      <3>1. CASE docs'[i][v].ver <= Held(i).idx
        BY <1>1, <1>2, <1>8, <2>1, <2>4, <3>1
      <3>2. CASE ~(docs'[i][v].ver <= Held(i).idx)
        BY <1>8, <2>1, <2>2, <2>4, <3>2
      <3>. QED  BY <3>1, <3>2
    <2>. QED  BY <1>9, <1>10, <1>14, <2>1, <2>3, <2>4
  <1>19. CASE Serves(i)
    <2>1. /\ live[i] # NoLive /\ live'[i] = NoLive /\ Held(i)' = Held(i) /\ rows'[i].mark = rows[i].mark
          /\ rows'[i].tomb = rows[i].tomb
          /\ \A v \in Versions : docs'[i][v] = Outcome(i, v)
          /\ rows'[i].stale <=> rows[i].stale /\ rows[i].mark # live[i].mark
      BY <1>3, <1>19 DEF Serves, Ends, Holds
    <2>2. ~Guarded(i) => Known(i)'
      BY <1>9, <1>14, <2>1
    <2>3. Guarded(i) => rows'[i].stale
      BY <1>9, <2>1
    <2>4. CASE rows[i].mark = live[i].mark
      <3>1. Known(i)'
        BY <1>9, <2>2, <2>4
      <3>2. ASSUME Held(i).pc = "begun", NEW v \in Versions, HandOutcome(i, v)'.body.found PROVE v \in src[i].vs
        <4>1. CASE rows[i].mark = Held(i).mark
          BY <1>9, <1>14, <1>17, <2>1, <3>1, <3>2, <4>1
        <4>2. CASE rows[i].mark # Held(i).mark
          <5>1. Held(i).idx < live[i].idx
            BY <1>6, <2>1, <2>4, <3>2, <4>2
          <5>2. docs'[i][v].ver >= live[i].idx
            BY <1>1, <1>8, <2>1
          <5>3. HandOutcome(i, v)' = docs'[i][v]
            BY <1>1, <1>2, <1>8, <2>1, <5>1, <5>2
          <5>. QED  BY <1>9, <3>1, <3>2, <5>3
        <4>. QED  BY <4>1, <4>2
      <3>. QED  BY <1>10, <2>1, <3>1, <3>2
    <2>5. CASE rows[i].mark # live[i].mark
      <3>1. rows[i].mark > live[i].idx /\ (HandGuarded(i)' <=> HandGuarded(i)) /\ (rows'[i].stale <=> rows[i].stale)
        BY <1>5, <1>9, <2>1, <2>5
      <3>2. CASE ~rows[i].stale
        <4>1. Known(i)' /\ ~HandGuarded(i)
          BY <1>9, <2>2, <3>2
        <4>2. ASSUME Held(i).pc = "begun", NEW v \in Versions, HandOutcome(i, v)'.body.found PROVE v \in src[i].vs
          BY <1>9, <1>14, <1>17, <2>1, <4>1, <4>2
        <4>. QED  BY <1>10, <2>1, <4>1, <4>2
      <3>3. CASE rows[i].stale /\ HandGuarded(i)
        BY <1>10, <2>1, <3>1, <3>3
      <3>4. CASE rows[i].stale /\ ~HandGuarded(i)
        <4>1. rows[i].mark = Held(i).mark
          BY <1>9, <3>4
        <4>2. InWork(i) => live[i].idx < Held(i).idx
          BY <1>1, <1>6, <3>1, <4>1
        <4>3. ASSUME Held(i).pc = "begun", NEW v \in Versions, HandOutcome(i, v)'.body.found PROVE v \in src[i].vs
          <5>1. HandOutcome(i, v).body.found => v \in src[i].vs
            BY <1>14, <3>4, <4>3
          <5>2. live[i].idx < Held(i).idx
            BY <1>6, <4>2, <4>3
          <5>3. CASE docs[i][v].ver <= live[i].idx
            <6>1. docs'[i][v].ver = live[i].idx
              BY <1>8, <2>1, <5>3
            <6>. QED  BY <1>1, <1>8, <2>1, <4>3, <5>1, <5>2, <5>3, <6>1
          <5>4. CASE ~(docs[i][v].ver <= live[i].idx)
            <6>1. docs'[i][v] = docs[i][v]
              BY <1>8, <2>1, <5>4
            <6>2. HandOutcome(i, v)' = HandOutcome(i, v)
              BY <2>1, <6>1 DEF HandOutcome
            <6>. QED  BY <4>3, <5>1, <6>2
          <5>. QED  BY <5>3, <5>4
        <4>4. Held(i).pc = "written" => Known(i)'
          <5>1. ASSUME Held(i).pc = "written", NEW v \in Versions PROVE docs'[i][v] = docs[i][v]
            BY <1>1, <1>6, <1>8, <2>1, <4>2, <5>1
          <5>. QED  BY <1>9, <1>14, <3>4, <5>1
        <4>. QED  BY <1>10, <2>1, <3>1, <3>4, <4>3, <4>4
      <3>. QED  BY <3>2, <3>3, <3>4
    <2>. QED  BY <2>4, <2>5
  <1>20. CASE Rules(i)
    <2>1. rows'[i] = rows[i] /\ live'[i] = live[i] /\ Held(i)' = Held(i)
      BY <1>3, <1>20 DEF Rules, Holds
    <2>2. ASSUME NEW v \in Versions
          PROVE  docs'[i][v] = docs[i][v] \/ ~docs'[i][v].body.found
      <3>1. CASE docs'[i][v] = Written(docs[i][v], NoBody, pass.seqs[i])
        BY <3>1 DEF Written, NoBody
      <3>. QED  BY <1>20, <3>1 DEF Rules
    <2>3. ASSUME NEW v \in Versions
          PROVE  /\ Outcome(i, v)'.body.found => Outcome(i, v).body.found
                 /\ HandOutcome(i, v)'.body.found => HandOutcome(i, v).body.found
      <3>1. CASE docs'[i][v] = docs[i][v]
        BY <2>1, <3>1 DEF Outcome, HandOutcome
      <3>2. CASE ~docs'[i][v].body.found
        BY <1>1, <1>2, <1>8, <2>1, <3>2
      <3>. QED  BY <2>2, <3>1, <3>2
    <2>4. Known(i) => Known(i)'
      BY <1>9, <2>2
    <2>. QED  BY <1>9, <1>10, <1>14, <2>1, <2>3, <2>4
  <1>21. CASE Starts(i)
    <2>1. /\ rows'[i].tomb = rows[i].tomb /\ rows'[i].stale = rows[i].stale /\ rows'[i].mark = rows[i].mark
          /\ docs'[i] = docs[i] /\ live'[i] = live[i] /\ Held(i).pc = "fetched" /\ Held(i)'.pc = "begun"
          /\ Held(i)'.out = Held(i).out /\ Held(i)'.idx > seq
      BY <1>3, <1>21 DEF Starts, Moves
    <2>2. \A v \in Versions : Outcome(i, v)' = Outcome(i, v)
      BY <2>1 DEF Outcome
    <2>3. ASSUME NEW v \in Versions, HandOutcome(i, v)'.body.found PROVE v \in src[i].vs
      BY <1>1, <1>4, <1>8, <2>1, <2>3 DEF Fresh
    <2>. QED  BY <1>9, <1>10, <1>14, <2>1, <2>2, <2>3
  <1>22. CASE Puts(i)
    <2>1. /\ rows'[i].tomb = rows[i].tomb /\ rows'[i].stale = rows[i].stale /\ rows'[i].mark = rows[i].mark
          /\ live'[i] = live[i] /\ Held(i).pc = "begun" /\ Held(i)'.pc = "written"
          /\ Held(i)'.mark = Held(i).mark
          /\ \A v \in Versions : docs'[i][v] = HandOutcome(i, v)
      BY <1>3, <1>22 DEF Puts, Moves
    <2>2. (Guarded(i)' <=> Guarded(i)) /\ (HandGuarded(i)' <=> HandGuarded(i))
      BY <1>9, <2>1
    <2>3. ~HandGuarded(i) => Known(i)'
      BY <1>9, <1>14, <2>1
    <2>4. ASSUME live[i] # NoLive, ~Guarded(i), NEW v \in Versions, Outcome(i, v)'.body.found
          PROVE  v \in src[i].vs
      <3>1. Outcome(i, v).body.found => v \in src[i].vs
        BY <1>14, <2>4
      <3>2. CASE ~HandGuarded(i)
        <4>1. CASE docs'[i][v].ver <= live[i].idx
          BY <1>1, <1>2, <1>8, <2>1, <2>4, <3>1, <4>1
        <4>2. CASE ~(docs'[i][v].ver <= live[i].idx)
          BY <1>8, <1>9, <2>1, <2>3, <2>4, <3>2, <4>2
        <4>. QED  BY <4>1, <4>2
      <3>3. CASE HandGuarded(i)
        <4>1. Held(i).idx < live[i].idx
          BY <1>6, <1>9, <2>1, <2>4, <3>3
        <4>2. CASE docs[i][v].ver <= Held(i).idx
          <5>1. docs'[i][v].ver = Held(i).idx
            BY <1>8, <2>1, <4>2
          <5>. QED  BY <1>1, <1>8, <2>1, <2>4, <3>1, <4>1, <4>2, <5>1
        <4>3. CASE ~(docs[i][v].ver <= Held(i).idx)
          <5>1. docs'[i][v] = docs[i][v]
            BY <1>8, <2>1, <4>3
          <5>2. Outcome(i, v)' = Outcome(i, v)
            BY <2>1, <5>1 DEF Outcome
          <5>. QED  BY <2>4, <3>1, <5>2
        <4>. QED  BY <4>2, <4>3
      <3>. QED  BY <3>2, <3>3
    <2>5. rows'[i].stale \/ Known(i)'
      BY <1>9, <2>1, <2>3
    <2>. QED  BY <1>10, <2>1, <2>2, <2>3, <2>4, <2>5
  <1>23. CASE Clears(i)
    <2>1. /\ rows'[i].tomb = rows[i].tomb /\ rows'[i].mark = rows[i].mark
          /\ rows'[i].stale <=> rows[i].stale /\ rows[i].mark # Held(i).mark
          /\ docs'[i] = docs[i] /\ live'[i] = live[i] /\ Held(i).pc = "written" /\ Held(i)'.pc = "none"
      BY <1>3, <1>23 DEF Clears, Frees
    <2>2. (Known(i)' <=> Known(i)) /\ \A v \in Versions : Outcome(i, v)' = Outcome(i, v)
      BY <1>9, <2>1 DEF Outcome
    <2>3. rows'[i].stale \/ Known(i)'
      BY <1>9, <1>14, <2>1, <2>2
    <2>4. ASSUME live[i] # NoLive, ~Guarded(i)', NEW v \in Versions, Outcome(i, v).body.found
          PROVE  v \in src[i].vs
      <3>1. CASE ~Guarded(i)
        BY <1>14, <2>4, <3>1
      <3>2. CASE Guarded(i)
        <4>1. rows[i].mark = Held(i).mark /\ rows[i].mark > live[i].idx
          BY <1>5, <1>9, <2>1, <2>4, <3>2
        <4>2. live[i].idx < docs[i][v].ver
          BY <1>1, <1>6, <2>1, <4>1
        <4>3. Outcome(i, v) = docs[i][v]
          BY <1>1, <1>8, <4>2
        <4>. QED  BY <1>9, <1>14, <2>1, <2>4, <4>1, <4>3
      <3>. QED  BY <3>1, <3>2
    <2>. QED  BY <1>10, <2>1, <2>2, <2>3, <2>4
  <1>24. \/ Keeps(i) /\ live'[i] \in {live[i], NoLive} /\ (Held(i)' = Held(i) \/ Held(i)'.pc \notin {"begun", "written"})
         \/ Opens(i) \/ Leaves(i) \/ Serves(i) \/ Rules(i) \/ Starts(i) \/ Puts(i) \/ Clears(i)
    BY <1>3 DEF Affects, Still, Remarks, Registers, Builds, Aborts, Walks, Takes, Drifts, Drops, Moves, Frees, Holds
  <1>. QED  BY <1>15, <1>16, <1>18, <1>19, <1>20, <1>21, <1>22, <1>23, <1>24

\* The row of a resource whose delete was registered stays marked, and a
\* registered delete marks it.
LEMMA BuriedStep ==
    ASSUME BaseInv, TypeOK', Fixed, NEW i \in Ids, Affects(i), Heard(i)', src[i].vs = {},
           Buried(i) \/ Registers(i)
    PROVE  Buried(i)'
  <1>0. TypeOK /\ Drawn /\ Ordered(i) /\ HandOrdered(i)
    BY DEF BaseInv
  <1>1. /\ seq \in Nat /\ live[i].mark \in Nat /\ live[i].mark <= seq /\ rows[i].changed \in Nat
        /\ fwd.start \in Nat /\ fwd.start <= seq
    BY <1>0, IdTypes
  <1>2. /\ Versions' = Versions /\ NoLive' = NoLive
        /\ Held(i)' = fwd'.hand[i] /\ Held(i) = fwd.hand[i] /\ NoHand.pc = "none"
        /\ i \notin exposed'
    BY DEF Fixed, Held, NoHand, Heard
  <1>3. /\ Guarded(i) <=> rows[i].stale /\ rows[i].mark # live[i].mark
        /\ Guarded(i)' <=> rows'[i].stale /\ rows'[i].mark # live'[i].mark
        /\ Drifted(i) <=> rows[i].changed > fwd.start
        /\ Drifted(i)' <=> rows'[i].changed > fwd'.start
    BY DEF Guarded, Drifted
  <1>4. rows'[i].mark \in Nat /\ rows'[i].changed \in Nat
    BY NextTypes
  <1>5. CASE Registers(i)
    <2>1. /\ rows'[i].present /\ rows'[i].stale /\ rows'[i].mark > seq /\ live'[i] = live[i]
          /\ rows'[i].changed > seq /\ Held(i)' = Held(i)
          /\ Held(i).pc # "none" => fwd'.start = fwd.start
      BY <1>2, <1>5 DEF Registers, Marks, Holds
    <2>2. rows'[i].mark # live'[i].mark /\ rows'[i].changed > fwd.start
      BY <1>1, <1>4, <2>1
    <2>. QED  BY <1>2, <1>3, <2>1, <2>2 DEF Buried
  <1>. SUFFICES ASSUME Buried(i), ~Registers(i) PROVE Buried(i)'
    BY <1>5
  <1>6. /\ rows[i].present => rows[i].stale
        /\ live[i] # NoLive => Guarded(i) \/ \A v \in Versions : ~live[i].out[v].found
        /\ Held(i).pc # "none" => rows[i].present /\ Drifted(i)
    BY DEF Buried
  <1>7. ASSUME rows'[i].present => rows'[i].stale,
               live'[i] # NoLive => Guarded(i)' \/ \A v \in Versions : ~live'[i].out[v].found,
               Held(i)'.pc # "none" => rows'[i].present /\ Drifted(i)'
        PROVE  Buried(i)'
    BY <1>2, <1>7 DEF Buried
  \* The walk, and the change it is going to find.
  <1>8. ASSUME Held(i)'.pc = "none" \/ (Held(i).pc # "none" /\ fwd'.start = fwd.start),
               rows'[i].changed = rows[i].changed, rows[i].present => rows'[i].present
        PROVE  Held(i)'.pc # "none" => rows'[i].present /\ Drifted(i)'
    BY <1>3, <1>6, <1>8
  <1>9. Holds(i) \/ Frees(i) => Held(i)'.pc = "none" \/ (Held(i).pc # "none" /\ fwd'.start = fwd.start)
    BY <1>2 DEF Holds, Frees
  <1>10. CASE Remarks(i)
    <2>1. /\ rows'[i].present /\ rows'[i].stale /\ rows'[i].mark > seq /\ live'[i] = live[i]
          /\ rows'[i].changed = rows[i].changed /\ (Holds(i) \/ Frees(i))
      BY <1>10 DEF Remarks, Marks
    <2>2. rows'[i].mark # live'[i].mark
      BY <1>1, <1>4, <2>1
    <2>. QED  BY <1>3, <1>7, <1>8, <1>9, <2>1, <2>2
  <1>11. CASE rows'[i] = rows[i] /\ live'[i] \in {live[i], NoLive} /\ (Holds(i) \/ Frees(i))
    BY <1>3, <1>6, <1>7, <1>8, <1>9, <1>11
  <1>12. CASE Opens(i)
    <2>1. rows'[i] = rows[i] /\ Holds(i)
      BY <1>12 DEF Opens, Keeps
    <2>2. ASSUME NEW v \in Versions PROVE ~live'[i].out[v].found
      <3>1. live'[i].out[v] = IF rows[i].tomb THEN NoBody ELSE Fetched(i, v, rows[i].md)
        BY <1>12 DEF Opens
      <3>. QED  BY <1>0, <3>1, FetchFacts DEF NoBody
    <2>. QED  BY <1>6, <1>7, <1>8, <1>9, <2>1, <2>2
  <1>13. CASE Removes(i)
    <2>1. rows'[i] = NoRow /\ live'[i] = NoLive /\ ~Outdated(i) /\ Held(i)' = Held(i)
      BY <1>2, <1>13 DEF Removes, Ends, Holds
    <2>2. Held(i).pc = "none"
      <3>1. SUFFICES ASSUME Held(i).pc # "none" PROVE FALSE
        OBVIOUS
      <3>2. Held(i).out = [v \in Versions |-> Fetched(i, v, Head(fwd.left))]
        BY <1>2, <2>1, <3>1 DEF Outdated
      <3>3. PICK v \in Versions : Held(i).out[v].found
        BY <1>0, <3>1 DEF HandOrdered
      <3>. QED  BY <1>0, <3>2, <3>3, FetchFacts
    <2>3. ~rows'[i].present
      BY <2>1 DEF NoRow
    <2>. QED  BY <1>7, <2>1, <2>2, <2>3
  <1>14. CASE Serves(i)
    <2>1. /\ live[i] # NoLive /\ live'[i] = NoLive /\ Holds(i) /\ ~Nothing(live[i])
          /\ rows'[i].present = rows[i].present /\ rows'[i].changed = rows[i].changed
          /\ rows'[i].stale <=> rows[i].stale /\ rows[i].mark # live[i].mark
      BY <1>14 DEF Serves, Ends
    <2>2. Guarded(i)
      BY <1>6, <2>1 DEF Nothing
    <2>. QED  BY <1>3, <1>6, <1>7, <1>8, <1>9, <2>1, <2>2
  <1>15. CASE Takes(i)
    BY <1>15 DEF Takes, Listed, Finds
  <1>16. CASE Starts(i) \/ Puts(i) \/ Drifts(i)
    <2>1. /\ live'[i] = live[i] /\ fwd'.start = fwd.start /\ Held(i).pc # "none"
          /\ rows'[i].changed = rows[i].changed /\ rows'[i].stale = rows[i].stale
          /\ rows'[i].mark = rows[i].mark /\ (rows[i].present => rows'[i].present)
      BY <1>2, <1>16 DEF Starts, Puts, Drifts, Moves, Keeps
    <2>. QED  BY <1>3, <1>6, <1>7, <1>8, <2>1
  <1>17. CASE Clears(i)
    BY <1>6, <1>17 DEF Clears
  <1>18. \/ Remarks(i) \/ Opens(i) \/ Removes(i) \/ Serves(i) \/ Takes(i) \/ Starts(i) \/ Puts(i)
         \/ Drifts(i) \/ Clears(i)
         \/ rows'[i] = rows[i] /\ live'[i] \in {live[i], NoLive} /\ (Holds(i) \/ Frees(i))
    BY DEF Affects, Still, Keeps, Builds, Leaves, Ends, Aborts, Rules, Walks, Drops
  <1>. QED  BY <1>10, <1>11, <1>12, <1>13, <1>14, <1>15, <1>16, <1>17, <1>18


-----------------------------------------------------------------------------
(* What is truthful stays so, and what has no say or is covered too *)

\* A Boolean that equals a membership says whether it holds.
LEMMA SameTruth ==
    ASSUME NEW b \in BOOLEAN, NEW v, NEW S
    PROVE  (b = (v \in S)) <=> (b <=> v \in S)
  <1>1. CASE v \in S
    <2>1. (v \in S) = TRUE
      BY <1>1
    <2>2. CASE b = TRUE
      BY <1>1, <2>1, <2>2, Zenon
    <2>3. CASE b = FALSE
      BY <1>1, <2>1, <2>3, Zenon
    <2>. QED  BY <2>2, <2>3
  <1>2. CASE v \notin S
    <2>1. (v \in S) = FALSE
      BY <1>2
    <2>2. CASE b = TRUE
      BY <1>2, <2>1, <2>2, Zenon
    <2>3. CASE b = FALSE
      BY <1>2, <2>1, <2>3, Zenon
    <2>. QED  BY <2>2, <2>3
  <1>. QED  BY <1>1, <1>2

\* The parts of Truthful(i), equalities of truths as equivalences.
TruthfulParts(i) ==
    /\ rows[i].present => rows[i].md = src[i].md \/ rows[i].md = None
    /\ rows[i].tomb => src[i].vs = {}
    /\ \A v \in Versions : Decisive(i, v) => (docs[i][v].body.found <=> v \in src[i].vs) \/ Late(i)
    /\ live[i] # NoLive /\ rows[i].mark = live[i].mark =>
          \A v \in Versions : live[i].out[v].found <=> v \in src[i].vs
    /\ Outdated(i) => rows[i].present /\ Drifted(i)

\* The two are the same.
LEMMA TruthfulFacts ==
    ASSUME NEW i \in Ids,
           \A v \in Versions : docs[i][v].body.found \in BOOLEAN /\ live[i].out[v].found \in BOOLEAN
    PROVE  Truthful(i) <=> TruthfulParts(i)
  <1>1. ASSUME NEW v \in Versions
        PROVE  Agrees(i, v) <=> (docs[i][v].body.found <=> v \in src[i].vs)
    <2>1. PICK b \in BOOLEAN : b = docs[i][v].body.found
      OBVIOUS
    <2>2. (b = (v \in src[i].vs)) <=> (b <=> v \in src[i].vs)
      BY SameTruth
    <2>. QED  BY <2>1, <2>2, Zenon DEF Agrees
  <1>2. ASSUME NEW v \in Versions
        PROVE  (live[i].out[v].found = (v \in src[i].vs)) <=> (live[i].out[v].found <=> v \in src[i].vs)
    <2>1. PICK b \in BOOLEAN : b = live[i].out[v].found
      OBVIOUS
    <2>2. (b = (v \in src[i].vs)) <=> (b <=> v \in src[i].vs)
      BY SameTruth
    <2>. QED  BY <2>1, <2>2, Zenon
  <1>. QED  BY <1>1, <1>2, Zenon DEF Truthful, TruthfulParts

\* When what the walk has of an id is outdated after a step.
LEMMA OutdatedStep ==
    ASSUME Fixed, NEW i \in Ids, src'[i] = src[i]
    PROVE  /\ Holds(i) => (Outdated(i)' <=> Outdated(i))
           /\ Frees(i) => ~Outdated(i)'
           /\ \A from \in {"fetched", "begun", "written"}, next \in {"begun", "written", "remark"} :
                 Moves(i, from, next) => (Outdated(i)' <=> Outdated(i))
           /\ Takes(i) => ~Outdated(i)'
  <1>1. /\ Versions' = Versions /\ NoHand.pc = "none" /\ Held(i) = fwd.hand[i]
    BY DEF Fixed, NoHand, Held
  <1>3. Outdated(i)' <=> /\ fwd'.hand[i].pc # "none"
                         /\ fwd'.hand[i].out # [v \in Versions |-> Fetched(i, v, Head(fwd'.left))]
    BY <1>1 DEF Outdated, Fetched, Finds
  <1>4. Holds(i) => (Outdated(i)' <=> Outdated(i))
    BY <1>1, <1>3 DEF Holds, Outdated
  <1>5. Frees(i) => ~Outdated(i)'
    BY <1>1, <1>3 DEF Frees
  <1>6. ASSUME NEW from \in {"fetched", "begun", "written"}, NEW next \in {"begun", "written", "remark"},
               Moves(i, from, next)
        PROVE  Outdated(i)' <=> Outdated(i)
    <2>1. /\ fwd'.left = fwd.left /\ fwd'.hand[i].pc # "none" /\ fwd.hand[i].pc # "none"
          /\ fwd'.hand[i].out = fwd.hand[i].out
      BY <1>1, <1>6 DEF Moves
    <2>. QED  BY <1>3, <2>1 DEF Outdated
  <1>7. Takes(i) => ~Outdated(i)'
    BY <1>3 DEF Takes, Moves
  <1>. QED  BY <1>4, <1>5, <1>6, <1>7

\* What the walk has that is not outdated it would be told again.
LEMMA CurrentHand ==
    ASSUME TypeOK, Drawn, NEW i \in Ids, HandOrdered(i), Held(i).pc # "none", ~Outdated(i)
    PROVE  Head(fwd.left) = src[i].md /\ \A v \in Versions : Held(i).out[v].found <=> v \in src[i].vs
  <1>1. Held(i).out = [v \in Versions |-> Fetched(i, v, Head(fwd.left))]
    BY DEF Outdated, Held
  <1>2. PICK u \in Versions : Held(i).out[u].found
    BY DEF HandOrdered
  <1>3. Head(fwd.left) = src[i].md
    BY <1>1, <1>2, FoundFacts
  <1>4. ASSUME NEW v \in Versions PROVE Held(i).out[v].found <=> v \in src[i].vs
    <2>1. Held(i).out[v] = Fetched(i, v, src[i].md)
      BY <1>1, <1>3
    <2>2. v \in src[i].vs => Fetched(i, v, src[i].md) = [found |-> TRUE, n |-> src[i].n]
      BY DEF Fetched, Finds
    <2>3. v \notin src[i].vs => Fetched(i, v, src[i].md) = NoBody
      BY DEF Fetched, Finds
    <2>. QED  BY <2>1, <2>2, <2>3 DEF NoBody
  <1>. QED  BY <1>3, <1>4

\* What is decided after a row's last mark stays the answer, as what the build
\* that serves it has found.
LEMMA TruthfulStep ==
    ASSUME BaseInv, TypeOK', Fixed, NEW i \in Ids, Affects(i), Heard(i)', Truthful(i) \/ Registers(i),
           i \in pass.todo =>
              /\ pass.seqs[i] > 1
              /\ PassVersion \notin src[i].vs \/ Superseded(i, PassVersion, pass.seqs[i]) \/ Registers(i)
    PROVE  Truthful(i)'
  <1>0. TypeOK /\ Drawn /\ Ordered(i) /\ HandOrdered(i)
    BY DEF BaseInv
  <1>1. /\ seq \in Nat /\ rows[i].mark \in Nat /\ rows[i].mark <= seq /\ rows[i].changed \in Nat
        /\ live[i].mark \in Nat /\ live[i].idx \in Nat /\ live[i].idx <= seq /\ live[i].mark <= seq
        /\ Held(i).idx \in Nat /\ Held(i).mark \in Nat /\ Held(i).idx <= seq
        /\ fwd.start \in Nat /\ fwd.start <= seq /\ pass.seqs[i] \in Nat
        /\ \A v \in Versions : docs[i][v] \in Doc /\ docs[i][v].ver \in Nat /\ docs[i][v].ver <= seq
    BY <1>0, IdTypes
  <1>2. \A v \in Versions : docs[i][v].body.found \in BOOLEAN /\ live[i].out[v].found \in BOOLEAN
    BY <1>0, IdTypes
  <1>3. /\ rows'[i].mark \in Nat /\ rows'[i].changed \in Nat /\ rows'[i].tomb \in BOOLEAN
        /\ \A v \in Versions : docs'[i][v].ver \in Nat
    BY NextTypes
  <1>4. /\ Versions' = Versions /\ NoLive' = NoLive /\ src'[i] = src[i] /\ Setup' = Setup
        /\ Held(i)' = fwd'.hand[i] /\ Held(i) = fwd.hand[i] /\ NoHand.pc = "none"
        /\ i \notin exposed'
    BY DEF Fixed, Affects, Held, NoHand, Heard
  <1>5. ASSUME NEW v \in Versions
        PROVE  /\ Decisive(i, v) <=> \/ docs[i][v].ver > rows[i].mark /\ docs[i][v].ver > 1
                                     \/ rows[i].mark = 0 /\ edges[i][v].stamp # 0
               /\ Decisive(i, v)' <=> \/ docs'[i][v].ver > rows'[i].mark /\ docs'[i][v].ver > 1
                                      \/ rows'[i].mark = 0 /\ edges'[i][v].stamp # 0
    BY DEF Decisive
  <1>6. /\ Late(i) <=> /\ Held(i).pc \in {"written", "remark"} /\ Outdated(i) /\ rows[i].present
                       /\ rows[i].changed > fwd.start
        /\ Late(i)' <=> /\ Held(i)'.pc \in {"written", "remark"} /\ Outdated(i)' /\ rows'[i].present
                        /\ rows'[i].changed > fwd'.start
        /\ Drifted(i) <=> rows[i].changed > fwd.start
        /\ Drifted(i)' <=> rows'[i].changed > fwd'.start
    BY DEF Late, Drifted
  \* The parts of Truthful(i)'.
  <1>7. ASSUME rows'[i].present => rows'[i].md = src[i].md \/ rows'[i].md = None,
               rows'[i].tomb => src[i].vs = {},
               \A v \in Versions : Decisive(i, v)' => (docs'[i][v].body.found <=> v \in src[i].vs) \/ Late(i)',
               live'[i] # NoLive /\ rows'[i].mark = live'[i].mark =>
                  \A v \in Versions : live'[i].out[v].found <=> v \in src[i].vs,
               Outdated(i)' => rows'[i].present /\ Drifted(i)'
        PROVE  Truthful(i)'
    <2>1. ASSUME NEW v \in Versions
          PROVE  Agrees(i, v)' <=> (docs'[i][v].body.found <=> v \in src[i].vs)
      <3>1. PICK b \in BOOLEAN : b = docs'[i][v].body.found
        BY NextTypes
      <3>2. (b = (v \in src[i].vs)) <=> (b <=> v \in src[i].vs)
        BY SameTruth
      <3>3. Agrees(i, v)' <=> (docs'[i][v].body.found = (v \in src[i].vs))
        BY <1>4, Zenon DEF Agrees
      <3>. QED  BY <3>1, <3>2, <3>3, Zenon
    <2>2. ASSUME NEW v \in Versions
          PROVE  (live'[i].out[v].found = (v \in src[i].vs)) <=> (live'[i].out[v].found <=> v \in src[i].vs)
      <3>1. PICK b \in BOOLEAN : b = live'[i].out[v].found
        BY NextTypes
      <3>2. (b = (v \in src[i].vs)) <=> (b <=> v \in src[i].vs)
        BY SameTruth
      <3>. QED  BY <3>1, <3>2, Zenon
    <2>. QED  BY <1>4, <1>7, <2>1, <2>2, Zenon DEF Truthful
  <1>8. ~rows[i].present => rows[i].md = None /\ rows[i].tomb = FALSE
    BY <1>0 DEF Ordered, NoRow
  <1>9. Holds(i) /\ Held(i).pc # "none" => fwd'.start = fwd.start
    BY DEF Holds
  <1>10. Holds(i) => (Outdated(i)' <=> Outdated(i)) /\ Held(i)' = Held(i)
    BY <1>4, OutdatedStep DEF Holds
  <1>11. Outdated(i) => Held(i).pc # "none"
    BY <1>4 DEF Outdated
  \* A marked row.
  <1>12. ASSUME Marks(i), rows'[i].md = src[i].md \/ rows'[i].md = None, rows'[i].tomb => src[i].vs = {},
                Outdated(i)' => Drifted(i)'
         PROVE  Truthful(i)'
    <2>1. /\ rows'[i].present /\ rows'[i].mark > seq /\ docs'[i] = docs[i] /\ live'[i] = live[i]
      BY <1>12 DEF Marks
    <2>2. rows'[i].mark # live'[i].mark /\ \A v \in Versions : ~Decisive(i, v)'
      BY <1>1, <1>3, <1>5, <2>1
    <2>. QED  BY <1>7, <1>12, <2>1, <2>2
  <1>13. CASE Registers(i)
    <2>1. /\ Marks(i) /\ Holds(i) /\ rows'[i].md = src[i].md /\ (rows'[i].tomb => src[i].vs = {})
          /\ rows'[i].changed > seq
      BY <1>13 DEF Registers
    <2>2. Outdated(i)' => Drifted(i)'
      BY <1>1, <1>3, <1>6, <1>9, <1>10, <1>11, <2>1
    <2>. QED  BY <1>12, <2>1, <2>2
  <1>. SUFFICES ASSUME Truthful(i), ~Registers(i) PROVE Truthful(i)'
    BY <1>13
  <1>14. /\ rows[i].present => rows[i].md = src[i].md \/ rows[i].md = None
         /\ rows[i].tomb => src[i].vs = {}
         /\ \A v \in Versions : Decisive(i, v) => (docs[i][v].body.found <=> v \in src[i].vs) \/ Late(i)
         /\ live[i] # NoLive /\ rows[i].mark = live[i].mark =>
               \A v \in Versions : live[i].out[v].found <=> v \in src[i].vs
         /\ Outdated(i) => rows[i].present /\ Drifted(i)
    <2>1. TruthfulParts(i)
      BY <1>2, TruthfulFacts
    <2>. QED  BY <2>1 DEF TruthfulParts
  <1>15. CASE Remarks(i)
    <2>1. /\ Marks(i) /\ (Holds(i) \/ Frees(i)) /\ rows'[i].tomb = rows[i].tomb /\ rows'[i].md = rows[i].md
          /\ rows'[i].changed = rows[i].changed
      BY <1>15 DEF Remarks
    <2>2. Outdated(i)' => Drifted(i)'
      BY <1>4, <1>6, <1>9, <1>10, <1>11, <1>14, <2>1, OutdatedStep
    <2>. QED  BY <1>8, <1>12, <1>14, <2>1, <2>2
  \* A row that keeps its fields while the walk holds what it has.
  <1>16. Holds(i) /\ rows'[i].present = rows[i].present /\ rows'[i].changed = rows[i].changed =>
           /\ Late(i)' <=> Late(i)
           /\ Outdated(i)' => rows'[i].present /\ Drifted(i)'
    BY <1>6, <1>9, <1>10, <1>11, <1>14
  <1>17. CASE Keeps(i) /\ Holds(i) /\ live'[i] \in {live[i], NoLive}
    <2>1. rows'[i] = rows[i] /\ docs'[i] = docs[i] /\ edges'[i] = edges[i]
      BY <1>17 DEF Keeps
    <2>. QED  BY <1>5, <1>7, <1>14, <1>16, <1>17, <2>1
  <1>18. CASE Opens(i)
    <2>1. /\ rows'[i] = rows[i] /\ docs'[i] = docs[i] /\ edges'[i] = edges[i] /\ Holds(i) /\ rows[i].stale
          /\ rows[i].tomb \/ Answers(rows[i].md)
          /\ \A v \in Versions :
               live'[i].out[v] = IF rows[i].tomb THEN NoBody ELSE Fetched(i, v, rows[i].md)
      BY <1>18 DEF Opens, Keeps
    <2>2. ~rows[i].tomb => rows[i].md = src[i].md
      <3>1. rows[i].present /\ src[i].md \in Setup.mds
        BY <1>0, <2>1 DEF Ordered
      <3>2. ASSUME ~rows[i].tomb, rows[i].md = None PROVE src[i].md = None
        BY <1>0, <2>1, <3>1, <3>2, OneActor DEF Answers
      <3>. QED  BY <1>14, <3>1, <3>2
    <2>3. ASSUME NEW v \in Versions PROVE live'[i].out[v].found <=> v \in src[i].vs
      <3>1. ~NoBody.found
        BY DEF NoBody
      <3>2. CASE rows[i].tomb
        BY <1>14, <2>1, <3>1, <3>2
      <3>3. CASE ~rows[i].tomb
        <4>1. live'[i].out[v] = Fetched(i, v, src[i].md)
          BY <2>1, <2>2, <3>3
        <4>2. v \in src[i].vs => Fetched(i, v, src[i].md) = [found |-> TRUE, n |-> src[i].n]
          BY DEF Fetched, Finds
        <4>3. v \notin src[i].vs => Fetched(i, v, src[i].md) = NoBody
          BY DEF Fetched, Finds
        <4>. QED  BY <3>1, <4>1, <4>2, <4>3
      <3>. QED  BY <3>2, <3>3
    <2>. QED  BY <1>5, <1>7, <1>14, <1>16, <2>1, <2>3
  \* What a build that ends leaves.
  <1>19. ASSUME Ends(i), NEW v \in Versions
         PROVE  /\ docs[i][v].ver <= live[i].idx =>
                      docs'[i][v].body = live[i].out[v] /\ docs'[i][v].ver = live[i].idx
                /\ ~(docs[i][v].ver <= live[i].idx) => docs'[i][v] = docs[i][v]
    BY <1>1, <1>19, WrittenFacts DEF Ends, Outcome
  <1>20. Ends(i) => /\ live[i] # NoLive /\ live'[i] = NoLive /\ Holds(i)
                    /\ 1 < live[i].mark /\ live[i].mark < live[i].idx
                    /\ rows[i].mark = live[i].mark \/ rows[i].mark > live[i].idx
                    /\ Nothing(live[i]) \/ rows[i].md # None \/ live[i].md = None
    BY <1>0 DEF Ends, Ordered, Serving
  <1>21. CASE Removes(i)
    <2>1. /\ Ends(i) /\ Nothing(live[i]) /\ rows[i].mark = live[i].mark /\ rows'[i] = NoRow
          /\ ~Outdated(i) /\ ~Overtaken(i, live[i])
      BY <1>4, <1>21 DEF Removes
    <2>2. ASSUME NEW v \in Versions PROVE v \notin src[i].vs /\ ~docs'[i][v].body.found
      <3>1. ~live[i].out[v].found
        BY <2>1 DEF Nothing
      <3>2. ~(docs[i][v].ver <= live[i].idx) => ~docs[i][v].body.found
        BY <1>1, <2>1 DEF Overtaken
      <3>. QED  BY <1>14, <1>19, <1>20, <2>1, <3>1, <3>2
    <2>3. rows'[i].present = FALSE /\ rows'[i].tomb = FALSE
      BY <2>1 DEF NoRow
    <2>. QED  BY <1>7, <1>10, <1>20, <2>1, <2>2, <2>3
  <1>22. CASE Ends(i) /\ rows[i].mark # live[i].mark /\ rows'[i].mark = rows[i].mark
              /\ rows'[i].present = rows[i].present /\ rows'[i].tomb = rows[i].tomb
              /\ rows'[i].changed = rows[i].changed /\ rows'[i].md = rows[i].md
    <2>1. rows[i].mark > live[i].idx
      BY <1>20, <1>22
    <2>2. ASSUME NEW v \in Versions, Decisive(i, v)' PROVE Decisive(i, v) /\ docs'[i][v] = docs[i][v]
      BY <1>1, <1>3, <1>5, <1>19, <1>22, <2>1, <2>2
    <2>. QED  BY <1>7, <1>14, <1>16, <1>20, <1>22, <2>2
  <1>23. CASE Leaves(i)
    BY <1>22, <1>23 DEF Leaves
  <1>24. CASE Serves(i)
    <2>1. /\ Ends(i) /\ rows'[i].present = rows[i].present /\ rows'[i].tomb = rows[i].tomb
          /\ rows'[i].mark = rows[i].mark /\ rows'[i].changed = rows[i].changed
          /\ rows'[i].md = rows[i].md
      BY <1>20, <1>24 DEF Serves
    <2>2. CASE rows[i].mark = live[i].mark
      <3>1. ASSUME NEW v \in Versions, Decisive(i, v)'
            PROVE  (docs'[i][v].body.found <=> v \in src[i].vs) \/ Late(i)
        <4>1. CASE docs[i][v].ver <= live[i].idx
          BY <1>14, <1>19, <1>20, <2>1, <2>2, <4>1
        <4>2. CASE ~(docs[i][v].ver <= live[i].idx)
          <5>1. Decisive(i, v)
            BY <1>1, <1>5, <1>20, <2>1, <2>2, <4>2
          <5>. QED  BY <1>14, <1>19, <2>1, <4>2, <5>1
        <4>. QED  BY <4>1, <4>2
      <3>. QED  BY <1>7, <1>14, <1>16, <1>20, <2>1, <3>1
    <2>. QED  BY <1>22, <2>1, <2>2
  <1>25. CASE Rules(i)
    <2>1. rows'[i] = rows[i] /\ live'[i] = live[i] /\ Holds(i)
      BY <1>25 DEF Rules
    <2>2. ASSUME NEW v \in Versions, Decisive(i, v)'
          PROVE  (docs'[i][v].body.found <=> v \in src[i].vs) \/ Late(i)
      <3>1. CASE docs'[i][v] = docs[i][v] /\ edges'[i][v] = edges[i][v]
        BY <1>5, <1>14, <2>1, <2>2, <3>1
      <3>2. CASE /\ docs'[i][v] = docs[i][v] /\ i \in pass.todo /\ v = PassVersion
                 /\ docs[i][v].ver >= pass.seqs[i]
        <4>1. Decisive(i, v)
          BY <1>1, <1>5, <2>1, <2>2, <3>2
        <4>. QED  BY <1>14, <3>2, <4>1
      <3>3. CASE /\ i \in pass.todo /\ v = PassVersion /\ edges'[i][v] = edges[i][v]
                 /\ docs'[i][v] = Written(docs[i][v], NoBody, pass.seqs[i])
        <4>1. CASE docs[i][v].ver <= pass.seqs[i]
          <5>1. docs'[i][v].ver = pass.seqs[i] /\ docs'[i][v].body = NoBody
            BY <1>1, <3>3, <4>1, WrittenFacts
          <5>2. ~docs'[i][v].body.found
            BY <5>1 DEF NoBody
          <5>3. CASE pass.seqs[i] > rows[i].mark
            BY <1>1, <3>3, <4>1, <5>2, <5>3 DEF Superseded
          <5>4. CASE ~(pass.seqs[i] > rows[i].mark)
            BY <1>1, <1>3, <1>5, <2>1, <2>2, <3>3, <5>1, <5>4
          <5>. QED  BY <5>3, <5>4
        <4>2. CASE ~(docs[i][v].ver <= pass.seqs[i])
          <5>1. docs'[i][v] = docs[i][v]
            BY <1>1, <3>3, <4>2, WrittenFacts
          <5>. QED  BY <1>5, <1>14, <2>1, <2>2, <3>3, <5>1
        <4>. QED  BY <4>1, <4>2
      <3>. QED  BY <1>25, <3>1, <3>2, <3>3 DEF Rules
    <2>. QED  BY <1>7, <1>14, <1>16, <2>1, <2>2
  <1>26. CASE Takes(i)
    <2>1. /\ rows'[i] = rows[i] /\ docs'[i] = docs[i] /\ edges'[i] = edges[i] /\ live'[i] = live[i]
          /\ Held(i).pc = "none"
      BY <1>26 DEF Takes, Keeps, Moves
    <2>2. ~Outdated(i)' /\ ~Late(i)
      BY <1>4, <1>6, <1>26, <2>1, OutdatedStep
    <2>. QED  BY <1>5, <1>7, <1>14, <2>1, <2>2
  <1>27. CASE Starts(i)
    <2>1. /\ Moves(i, "fetched", "begun") /\ docs'[i] = docs[i] /\ edges'[i] = edges[i]
          /\ rows'[i].present /\ rows'[i].tomb = rows[i].tomb /\ rows'[i].mark = rows[i].mark
          /\ rows'[i].changed = rows[i].changed /\ rows'[i].md = rows[i].md
          /\ Held(i).pc = "fetched" /\ live'[i] = live[i] /\ fwd'.start = fwd.start
      BY <1>27 DEF Starts, Moves
    <2>2. (Outdated(i)' <=> Outdated(i)) /\ ~Late(i)
      BY <1>4, <1>6, <2>1, OutdatedStep
    <2>. QED  BY <1>5, <1>6, <1>7, <1>8, <1>14, <2>1, <2>2
  <1>28. CASE Puts(i)
    <2>1. /\ Moves(i, "begun", "written") /\ Held(i).pc = "begun" /\ Held(i)'.pc = "written"
          /\ live'[i] = live[i] /\ fwd'.start = fwd.start
          /\ rows'[i].present = rows[i].present /\ rows'[i].tomb = rows[i].tomb
          /\ rows'[i].mark = rows[i].mark /\ rows'[i].changed = rows[i].changed
          /\ rows'[i].md \in {rows[i].md, Head(fwd.left)} /\ (rows[i].md # None => rows'[i].md = rows[i].md)
          /\ \A v \in Versions : docs'[i][v] = HandOutcome(i, v)
      BY <1>4, <1>28 DEF Puts, Moves
    <2>2. (Outdated(i)' <=> Outdated(i)) /\ ~Late(i)
      BY <1>4, <1>6, <2>1, OutdatedStep
    <2>3. Head(fwd.left) \in Setup.mds /\ 1 < Held(i).idx
      BY <1>0, <2>1 DEF HandOrdered, InWork
    <2>4. CASE Outdated(i)
      <3>1. rows[i].present /\ rows[i].changed > fwd.start /\ Late(i)'
        BY <1>6, <1>14, <2>1, <2>2, <2>4
      <3>2. rows[i].md \in Setup.mds
        BY <1>0, <1>1, <3>1 DEF Ordered
      <3>3. rows[i].md = None => Head(fwd.left) = None
        BY <1>0, <2>3, <3>2, OneActor
      <3>4. rows'[i].md = rows[i].md
        BY <2>1, <3>3
      <3>. QED  BY <1>6, <1>7, <1>14, <2>1, <2>2, <3>1, <3>4
    <2>5. CASE ~Outdated(i)
      <3>1. Head(fwd.left) = src[i].md /\ \A v \in Versions : Held(i).out[v].found <=> v \in src[i].vs
        BY <1>0, <2>1, <2>5, CurrentHand
      <3>2. ASSUME NEW v \in Versions, Decisive(i, v)' PROVE docs'[i][v].body.found <=> v \in src[i].vs
        <4>1. CASE docs[i][v].ver <= Held(i).idx
          <5>1. docs'[i][v].body = Held(i).out[v]
            BY <1>1, <2>1, <4>1, WrittenFacts DEF HandOutcome
          <5>. QED  BY <3>1, <5>1
        <4>2. CASE ~(docs[i][v].ver <= Held(i).idx)
          <5>1. docs'[i][v] = docs[i][v]
            BY <1>1, <2>1, <4>2, WrittenFacts DEF HandOutcome
          <5>2. Decisive(i, v)
            BY <1>1, <1>5, <2>1, <2>3, <3>2, <4>2, <5>1
          <5>. QED  BY <1>14, <2>2, <5>1, <5>2
        <4>. QED  BY <4>1, <4>2
      <3>. QED  BY <1>7, <1>14, <2>1, <2>2, <2>5, <3>1, <3>2
    <2>. QED  BY <2>4, <2>5
  <1>29. CASE Clears(i)
    <2>1. /\ Frees(i) /\ ~Drifted(i) /\ docs'[i] = docs[i] /\ edges'[i] = edges[i] /\ live'[i] = live[i]
          /\ rows'[i].present = rows[i].present /\ rows'[i].tomb = rows[i].tomb
          /\ rows'[i].mark = rows[i].mark /\ rows'[i].md = rows[i].md
      BY <1>29 DEF Clears
    <2>2. ~Outdated(i)' /\ ~Late(i)
      BY <1>4, <1>6, <2>1, OutdatedStep
    <2>. QED  BY <1>5, <1>7, <1>14, <2>1, <2>2
  <1>30. CASE Drifts(i)
    <2>1. /\ Moves(i, "written", "remark") /\ rows'[i] = rows[i] /\ docs'[i] = docs[i]
          /\ edges'[i] = edges[i] /\ live'[i] = live[i] /\ fwd'.start = fwd.start
          /\ Held(i).pc = "written" /\ Held(i)'.pc = "remark"
      BY <1>4, <1>30 DEF Drifts, Moves, Keeps
    <2>2. (Outdated(i)' <=> Outdated(i)) /\ (Late(i)' <=> Late(i))
      BY <1>4, <1>6, <2>1, OutdatedStep
    <2>. QED  BY <1>5, <1>6, <1>7, <1>14, <2>1, <2>2
  <1>31. CASE Drops(i)
    <2>1. /\ rows'[i] = rows[i] /\ docs'[i] = docs[i] /\ edges'[i] = edges[i] /\ live'[i] = live[i]
          /\ Frees(i) /\ ~Exposes(i)
      BY <1>4, <1>31 DEF Drops, Keeps
    <2>2. ~Outdated(i)' /\ ~Late(i)
      BY <1>4, <1>6, <2>1, OutdatedStep DEF Exposes
    <2>. QED  BY <1>5, <1>7, <1>14, <2>1, <2>2
  <1>32. \/ Keeps(i) /\ Holds(i) /\ live'[i] \in {live[i], NoLive}
         \/ Remarks(i)
         \/ Opens(i) \/ Removes(i) \/ Leaves(i) \/ Serves(i) \/ Rules(i) \/ Takes(i) \/ Starts(i)
         \/ Puts(i) \/ Clears(i) \/ Drifts(i) \/ Drops(i)
    BY DEF Affects, Still, Builds, Aborts, Walks
  <1>. QED  BY <1>15, <1>17, <1>18, <1>21, <1>23, <1>24, <1>25, <1>26, <1>27, <1>28, <1>29, <1>30,
               <1>31, <1>32

\* What has no say never has one again, but for a resource that is gone.
LEMMA SupersededStep ==
    ASSUME BaseInv, TypeOK', Fixed, NEW i \in Ids, Affects(i), Truthful(i) \/ Registers(i),
           NEW v \in Versions, NEW n \in Nat, n <= seq, Superseded(i, v, n) \/ Registers(i)
    PROVE  Superseded(i, v, n)' \/ src[i].vs = {}
  <1>0. TypeOK /\ Drawn
    BY DEF BaseInv
  <1>1. /\ seq \in Nat /\ rows[i].mark \in Nat /\ docs[i][v].ver \in Nat /\ src[i].vs \subseteq Versions
        /\ rows'[i].mark \in Nat
    BY <1>0, IdTypes, NextTypes
  <1>2. docs'[i][v].ver \in Nat /\ docs'[i][v].ver >= docs[i][v].ver
    BY <1>0, GrowFacts
  <1>3. /\ Superseded(i, v, n) <=> rows[i].mark > n \/ docs[i][v].ver > n
        /\ Superseded(i, v, n)' <=> rows'[i].mark > n \/ docs'[i][v].ver > n
    BY DEF Superseded
  <1>4. CASE Marks(i)
    BY <1>1, <1>3, <1>4 DEF Marks
  <1>5. CASE Removes(i) /\ Truthful(i)
    <2>1. live[i] # NoLive /\ rows[i].mark = live[i].mark /\ \A u \in Versions : ~live[i].out[u].found
      BY <1>5 DEF Removes, Ends, Nothing
    <2>2. TruthfulParts(i)
      BY <1>0, <1>5, IdTypes, TruthfulFacts
    <2>3. \A u \in Versions : u \notin src[i].vs
      BY <2>1, <2>2 DEF TruthfulParts
    <2>. QED  BY <1>1, <2>3
  <1>6. CASE rows'[i].mark = rows[i].mark /\ Superseded(i, v, n)
    BY <1>1, <1>2, <1>3, <1>6
  <1>7. Marks(i) \/ Removes(i) \/ rows'[i].mark = rows[i].mark
    BY DEF Affects, Still, Keeps, Remarks, Registers, Builds, Opens, Leaves, Serves, Aborts, Rules, Walks,
           Takes, Starts, Puts, Clears, Drifts, Drops
  <1>. QED  BY <1>4, <1>5, <1>6, <1>7 DEF Registers

\* What the pass need not decide any more it never need decide again.
LEMMA CoveredStep ==
    ASSUME BaseInv, TypeOK', Fixed, NEW i \in Ids, Affects(i), NEW v \in Versions,
           Covered(i, v) \/ Marks(i)
    PROVE  Covered(i, v)'
  <1>0. TypeOK /\ Drawn /\ Ordered(i) /\ HandOrdered(i)
    BY DEF BaseInv
  <1>1. /\ rows[i].mark \in Nat /\ edges[i][v].stamp \in Nat /\ live[i].idx \in Nat /\ live[i].mark \in Nat
        /\ Held(i).idx \in Nat /\ Held(i).mark \in Nat
        /\ rows[i].stale \in BOOLEAN /\ rows'[i].stale \in BOOLEAN
    BY <1>0, IdTypes, NextTypes
  <1>2. /\ edges'[i][v].stamp \in Nat
        /\ ~Removes(i) /\ ~Leaves(i) => edges'[i][v].stamp >= edges[i][v].stamp
    BY <1>0, GrowFacts
  <1>3. /\ Setup' = Setup /\ Held(i)' = fwd'.hand[i] /\ Held(i) = fwd.hand[i] /\ NoHand.pc = "none"
    BY DEF Fixed, Held, NoHand
  <1>4. /\ Covered(i, v) <=>
             \/ i \in exposed \/ Held(i).pc = "begun" \/ ~rows[i].present \/ rows[i].stale \/ rows[i].tomb
             \/ rows[i].md # Setup.md \/ edges[i][v].stamp # 0
        /\ Covered(i, v)' <=>
             \/ i \in exposed' \/ Held(i)'.pc = "begun" \/ ~rows'[i].present \/ rows'[i].stale \/ rows'[i].tomb
             \/ rows'[i].md # Setup.md \/ edges'[i][v].stamp # 0
    BY <1>3 DEF Covered, Clean
  <1>5. CASE Marks(i)
    BY <1>4, <1>5 DEF Marks
  <1>6. CASE i \in exposed
    BY <1>4, <1>5, <1>6 DEF Affects, Registers
  <1>. SUFFICES ASSUME Covered(i, v), ~Marks(i), i \notin exposed PROVE Covered(i, v)'
    BY <1>5, <1>6
  <1>7. CASE Holds(i) /\ rows'[i] = rows[i] /\ ~Removes(i) /\ ~Leaves(i)
    BY <1>1, <1>2, <1>3, <1>4, <1>7 DEF Holds
  <1>8. CASE Removes(i)
    BY <1>4, <1>8 DEF Removes, NoRow
  <1>9. CASE Leaves(i)
    <2>1. /\ rows'[i] = rows[i] /\ Held(i)' = Held(i) /\ live[i] # NoLive /\ rows[i].mark # live[i].mark
          /\ edges'[i][v] = RemovedSet(edges[i][v], live[i].idx)
      BY <1>3, <1>9 DEF Leaves, Ends, Holds
    <2>2. rows[i].mark > live[i].idx
      BY <1>0, <2>1 DEF Ordered, Serving
    <2>3. ASSUME Clean(i) PROVE edges'[i][v].stamp # 0
      <3>1. edges[i][v].stamp > rows[i].mark
        BY <1>0, <1>1, <2>2, <2>3 DEF Ordered
      <3>2. edges'[i][v] = edges[i][v]
        BY <1>1, <2>1, <2>2, <3>1 DEF RemovedSet
      <3>. QED  BY <1>1, <3>1, <3>2
    <2>. QED  BY <1>4, <2>1, <2>3 DEF Clean
  <1>10. CASE Serves(i)
    <2>1. live[i].idx > 1
      BY <1>0, <1>1, <1>10 DEF Serves, Ends, Ordered, Serving
    <2>2. edges'[i][v].stamp # 0
      BY <1>1, <1>10, <2>1 DEF Serves, ReplacedSet
    <2>. QED  BY <1>4, <2>2
  <1>11. CASE Starts(i)
    BY <1>3, <1>4, <1>11 DEF Starts, Moves
  <1>12. CASE Puts(i)
    <2>1. Held(i).idx > 1
      BY <1>0, <1>1, <1>12 DEF Puts, Moves, HandOrdered, InWork
    <2>2. edges'[i][v].stamp # 0
      BY <1>1, <1>12, <2>1 DEF Puts, ReplacedSet
    <2>. QED  BY <1>4, <2>2
  <1>13. CASE Clears(i)
    <2>1. /\ Held(i).pc = "written" /\ edges'[i] = edges[i] /\ rows'[i].present = rows[i].present
          /\ rows'[i].tomb = rows[i].tomb /\ rows'[i].md = rows[i].md
          /\ rows'[i].stale <=> rows[i].stale /\ rows[i].mark # Held(i).mark
      BY <1>13 DEF Clears
    <2>2. ASSUME rows[i].stale, rows[i].mark = Held(i).mark PROVE edges[i][v].stamp # 0
      BY <1>0, <1>1, <2>1, <2>2 DEF Ordered, HandOrdered
    <2>. QED  BY <1>4, <2>1, <2>2
  <1>14. CASE Takes(i) \/ Drifts(i)
    <2>1. rows'[i] = rows[i] /\ edges'[i] = edges[i] /\ Held(i).pc # "begun"
      BY <1>14 DEF Takes, Drifts, Keeps, Moves
    <2>. QED  BY <1>4, <2>1
  <1>15. CASE Drops(i)
    <2>1. rows'[i] = rows[i] /\ edges'[i] = edges[i] /\ (Exposes(i) => i \in exposed')
      BY <1>15 DEF Drops, Keeps
    <2>2. Held(i).pc = "begun" /\ ~Exposes(i) => rows[i].stale \/ edges[i][v].stamp # 0
      BY <1>3 DEF Exposes, Uncovered
    <2>. QED  BY <1>4, <2>1, <2>2
  <1>16. \/ Holds(i) /\ rows'[i] = rows[i] /\ ~Removes(i) /\ ~Leaves(i)
         \/ Removes(i) \/ Leaves(i) \/ Serves(i) \/ Starts(i) \/ Puts(i) \/ Clears(i) \/ Takes(i)
         \/ Drifts(i) \/ Drops(i)
    BY DEF Affects, Still, Keeps, Remarks, Registers, Builds, Opens, Aborts, Rules, Walks
  <1>. QED  BY <1>7, <1>8, <1>9, <1>10, <1>11, <1>12, <1>13, <1>14, <1>15, <1>16

-----------------------------------------------------------------------------
(* What each action does to the store and to the walk *)

\* The store keeps its types and its numbers are drawn.
Stored ==
    /\ seq' \in Nat /\ seq' >= seq /\ exposed' \subseteq Ids
    /\ rows' \in [Ids -> Row] /\ docs' \in [Ids -> [Versions -> Doc]]
    /\ edges' \in [Ids -> [Versions -> EdgeSet]] /\ live' \in [Ids -> Live]
    /\ \A i \in Ids :
          /\ rows'[i].mark <= seq' /\ live'[i].mark <= seq' /\ live'[i].idx <= seq'
          /\ \A v \in Versions : docs'[i][v].ver <= seq'

\* So does the walk, which has ids in hand only while it walks.
Walked ==
    /\ fwd' \in Fwd /\ fwd'.start <= seq'
    /\ fwd'.pc = "walk" => fwd'.left # <<>>
    /\ fwd'.pc # "walk" => fwd'.hand = NoHands
    /\ \A i \in fwd'.todo : fwd'.hand[i].pc = "none"
    /\ \A i \in Ids : fwd'.hand[i].idx <= seq'

StoreStep == Stored /\ Walked /\ \A i \in Ids : Affects(i)

\* What the invariant says of a walk that stays as it is.
LEMMA SameWalk ==
    ASSUME TypeOK, Underway, Drawn, UNCHANGED fwd, seq' \in Nat, seq' >= seq
    PROVE  Walked /\ \A i \in Ids : Holds(i)
  <1>1. fwd \in Fwd /\ seq \in Nat /\ fwd.start \in Nat /\ fwd.start <= seq
    BY StoreFacts DEF TypeOK
  <1>2. \A i \in Ids : fwd.hand[i].idx \in Nat /\ fwd.hand[i].idx <= seq
    BY IdTypes DEF Held
  <1>3. \A i \in Ids : fwd.hand[i].idx <= seq'
    BY <1>1, <1>2
  <1>. QED  BY <1>1, <1>3 DEF Walked, Underway, Held, Holds

\* Numbers that were drawn stay drawn.
LEMMA StillDrawn ==
    ASSUME TypeOK, Drawn, seq' \in Nat, seq' >= seq, NEW i \in Ids
    PROVE  /\ rows[i].mark <= seq' /\ live[i].mark <= seq' /\ live[i].idx <= seq'
           /\ fwd.hand[i].idx <= seq' /\ \A v \in Versions : docs[i][v].ver <= seq'
  <1>1. /\ seq \in Nat /\ rows[i].mark \in Nat /\ rows[i].mark <= seq
        /\ live[i].mark \in Nat /\ live[i].mark <= seq /\ live[i].idx \in Nat /\ live[i].idx <= seq
        /\ Held(i).idx \in Nat /\ Held(i).idx <= seq
        /\ \A v \in Versions : docs[i][v].ver \in Nat /\ docs[i][v].ver <= seq
    BY IdTypes
  <1>. QED  BY <1>1 DEF Held

\* Steps that leave the store and the walk alone.
LEMMA QuietStep ==
    ASSUME TypeOK, Underway, Drawn, UNCHANGED <<seq, src, exposed, rows, docs, edges, live, fwd>>
    PROVE  StoreStep
  <1>1. Walked /\ \A i \in Ids : Holds(i)
    BY StoreFacts, SameWalk
  <1>2. \A i \in Ids : Affects(i)
    BY <1>1 DEF Affects, Still, Keeps
  <1>. QED  BY <1>1, <1>2, StoreFacts DEF StoreStep, Stored

\* MarkStale.
LEMMA MarkStored ==
    ASSUME TypeOK, Drawn, NEW S \in SUBSET Ids, rows' = Marked(S), seq' = seq + Cardinality(S),
           exposed' \subseteq Ids, UNCHANGED <<docs, edges, live>>
    PROVE  /\ Stored /\ seq' \in Nat /\ seq' >= seq
           /\ \A i \in S : /\ Marks(i) /\ rows'[i].tomb = rows[i].tomb /\ rows'[i].md = rows[i].md
                           /\ rows'[i].changed = rows[i].changed
           /\ \A i \in Ids \ S : Keeps(i) /\ live'[i] = live[i]
  <1>1. seq' \in Nat /\ seq' >= seq /\ rows' \in [Ids -> Row]
    BY MarkFacts, IdFacts, StoreFacts
  <1>2. \A i \in S : /\ Marks(i) /\ rows'[i].tomb = rows[i].tomb /\ rows'[i].md = rows[i].md
                     /\ rows'[i].changed = rows[i].changed
    BY MarkFacts DEF Marks
  <1>3. \A i \in Ids \ S : Keeps(i) /\ live'[i] = live[i]
    BY MarkFacts DEF Keeps
  <1>4. \A i \in Ids : rows'[i].mark <= seq'
    <2>. TAKE i \in Ids
    <2>1. CASE i \in S
      BY <2>1, MarkFacts
    <2>2. CASE i \notin S
      BY <1>1, <2>2, MarkFacts, StoreFacts
    <2>. QED  BY <2>1, <2>2
  <1>5. \A i \in Ids : live[i].mark <= seq' /\ live[i].idx <= seq'
                       /\ \A v \in Versions : docs[i][v].ver <= seq'
    BY <1>1, StillDrawn
  <1>. QED  BY <1>1, <1>2, <1>3, <1>4, <1>5, StoreFacts DEF Stored

\* Steps of the sweep and of the pass that mark.
LEMMA MarkStep ==
    ASSUME TypeOK, Underway, Drawn, NEW S \in SUBSET Ids, rows' = Marked(S), seq' = seq + Cardinality(S),
           UNCHANGED <<src, exposed, docs, edges, live, fwd>>
    PROVE  StoreStep /\ \A i \in S : Marks(i)
  <1>1. /\ Stored /\ seq' \in Nat /\ seq' >= seq
        /\ \A i \in S : /\ Marks(i) /\ rows'[i].tomb = rows[i].tomb /\ rows'[i].md = rows[i].md
                        /\ rows'[i].changed = rows[i].changed
        /\ \A i \in Ids \ S : Keeps(i) /\ live'[i] = live[i]
    BY MarkStored, StoreFacts
  <1>2. Walked /\ \A i \in Ids : Holds(i)
    BY <1>1, SameWalk
  <1>3. \A i \in S : Remarks(i)
    BY <1>1, <1>2 DEF Remarks
  <1>4. \A i \in Ids \ S : Still(i)
    BY <1>1, <1>2 DEF Still
  <1>5. \A i \in Ids : Affects(i)
    BY <1>3, <1>4 DEF Affects
  <1>. QED  BY <1>1, <1>2, <1>5 DEF StoreStep

\* RegisterChanges.
LEMMA RegisterStep ==
    ASSUME TypeOK, Underway, Drawn, NEW i \in Ids, Register(i)
    PROVE  StoreStep /\ Registers(i)
  <1>1. seq' = seq + 1 /\ seq \in Nat /\ seq' \in Nat /\ seq' >= seq
    BY StoreFacts DEF Register
  <1>2. PICK n \in Nat : n = seq + 1
    BY <1>1
  <1>3. PICK md \in Nat : md = src[i].md
    BY StoreFacts DEF Sources
  <1>. DEFINE row == [present |-> TRUE, tomb |-> src[i].vs = {}, stale |-> TRUE,
                      mark |-> n, changed |-> n, md |-> md]
  <1>4. /\ row \in Row /\ row.present /\ row.stale /\ row.mark = n /\ row.changed = n /\ row.md = md
        /\ row.tomb => src[i].vs = {}
    BY DEF Row
  <1>5. rows' = [rows EXCEPT ![i] = row] /\ UNCHANGED <<src, docs, edges, live, fwd>> /\ exposed' = exposed \ {i}
    BY <1>2, <1>3 DEF Register
  <1>. HIDE DEF row
  <1>6. rows' \in [Ids -> Row] /\ rows'[i] = row /\ \A j \in Ids \ {i} : rows'[j] = rows[j]
    BY <1>4, <1>5, StoreFacts
  <1>7. Walked /\ \A j \in Ids : Holds(j)
    BY <1>1, <1>5, SameWalk
  <1>8. Registers(i)
    BY <1>1, <1>2, <1>3, <1>4, <1>5, <1>6, <1>7 DEF Registers, Marks
  <1>9. \A j \in Ids \ {i} : Still(j)
    BY <1>5, <1>6, <1>7 DEF Still, Keeps
  <1>10. \A j \in Ids : Affects(j)
    BY <1>5, <1>8, <1>9 DEF Affects
  <1>11. \A j \in Ids : rows'[j].mark <= seq'
    <2>. TAKE j \in Ids
    <2>1. CASE j = i
      BY <1>1, <1>2, <1>4, <1>6, <2>1
    <2>2. CASE j # i
      BY <1>1, <1>6, <2>2, StillDrawn
    <2>. QED  BY <2>1, <2>2
  <1>12. \A j \in Ids : live[j].mark <= seq' /\ live[j].idx <= seq'
                        /\ \A v \in Versions : docs[j][v].ver <= seq'
    BY <1>1, StillDrawn
  <1>13. exposed' \subseteq Ids
    BY <1>5, StoreFacts
  <1>. QED  BY <1>1, <1>5, <1>6, <1>7, <1>8, <1>10, <1>11, <1>12, <1>13, StoreFacts DEF StoreStep, Stored

\* A build begins.
LEMMA BeginStep ==
    ASSUME TypeOK, Underway, Drawn, NEW i \in Ids, BuildBegins(i)
    PROVE  StoreStep
  <1>1. seq' = seq + 1 /\ seq \in Nat /\ seq' \in Nat /\ seq' >= seq
    BY StoreFacts DEF BuildBegins
  <1>. DEFINE out == [v \in Versions |-> IF rows[i].tomb THEN NoBody
                                         ELSE Fetched(i, v, rows[i].md)]
  <1>2. out \in [Versions -> Body]
    <2>1. \A v \in Versions : out[v] \in Body
      BY FetchFacts DEF NoBody, Body
    <2>. QED  BY <2>1
  <1>3. PICK n \in Nat : n = seq + 1
    BY <1>1
  <1>. DEFINE b == [idx |-> n, mark |-> rows[i].mark, md |-> src[i].md, out |-> out]
  <1>4. b \in Live /\ b.idx = n /\ b.mark = rows[i].mark /\ b.md = src[i].md /\ b.out = out
    <2>1. src[i].md \in Nat /\ rows[i].mark \in Nat
      BY IdTypes
    <2>. HIDE DEF out
    <2>. QED  BY <1>2, <2>1 DEF Live
  <1>5. /\ live' = [live EXCEPT ![i] = b] /\ UNCHANGED <<src, exposed, rows, docs, edges, fwd>>
        /\ rows[i].stale /\ (rows[i].tomb \/ Answers(rows[i].md))
    BY <1>3 DEF BuildBegins, source, store
  <1>6. \A v \in Versions : out[v] = IF rows[i].tomb THEN NoBody ELSE Fetched(i, v, rows[i].md)
    OBVIOUS
  <1>. HIDE DEF out, b
  <1>7. live' \in [Ids -> Live] /\ live'[i] = b /\ \A j \in Ids \ {i} : live'[j] = live[j]
    BY <1>4, <1>5, StoreFacts
  <1>8. Walked /\ \A j \in Ids : Holds(j)
    BY <1>1, <1>5, SameWalk
  <1>9. Opens(i)
    BY <1>1, <1>3, <1>4, <1>5, <1>6, <1>7, <1>8 DEF Opens, Keeps
  <1>10. \A j \in Ids \ {i} : Still(j)
    BY <1>5, <1>7, <1>8 DEF Still, Keeps
  <1>11. \A j \in Ids : Affects(j)
    BY <1>5, <1>9, <1>10 DEF Affects, Builds
  <1>12. \A j \in Ids : live'[j].mark <= seq' /\ live'[j].idx <= seq'
    <2>. TAKE j \in Ids
    <2>1. CASE j = i
      BY <1>1, <1>3, <1>4, <1>7, <2>1, StillDrawn
    <2>2. CASE j # i
      BY <1>1, <1>7, <2>2, StillDrawn
    <2>. QED  BY <2>1, <2>2
  <1>13. \A j \in Ids : rows[j].mark <= seq' /\ \A v \in Versions : docs[j][v].ver <= seq'
    BY <1>1, StillDrawn
  <1>. QED  BY <1>1, <1>5, <1>7, <1>8, <1>11, <1>12, <1>13, StoreFacts DEF StoreStep, Stored

\* A build ends.
LEMMA EndStep ==
    ASSUME TypeOK, Underway, Drawn, NEW i \in Ids, BuildEnds(i)
    PROVE  StoreStep
  <1>. DEFINE b == live[i]
              newDocs == [v \in Versions |-> Written(docs[i][v], b.out[v], b.idx)]
              newEdges == [v \in Versions |-> IF Nothing(b) THEN RemovedSet(edges[i][v], b.idx)
                                              ELSE ReplacedSet(edges[i][v], b.idx, {})]
              row == EndedRow(rows[i], b)
              settled == [Reported(rows[i], b.md) EXCEPT !.stale = @ /\ rows[i].mark # b.mark]
  <1>1. b \in Live /\ b.idx \in Nat /\ b.md \in Nat /\ rows[i] \in Row /\ seq \in Nat
    BY IdTypes DEF Live
  <1>2. newDocs \in [Versions -> Doc]
    BY <1>1, WriteFacts, StoreFacts
  <1>3. newEdges \in [Versions -> EdgeSet]
    BY <1>1, WriteFacts, StoreFacts
  <1>4. /\ settled \in Row /\ settled.present = rows[i].present /\ settled.tomb = rows[i].tomb
        /\ settled.mark = rows[i].mark /\ settled.changed = rows[i].changed
        /\ settled.md = IF rows[i].md = None THEN b.md ELSE rows[i].md
        /\ settled.stale <=> rows[i].stale /\ rows[i].mark # b.mark
    <2>1. PICK rep \in Row : /\ rep = Reported(rows[i], b.md)
                             /\ rep.present = rows[i].present /\ rep.tomb = rows[i].tomb
                             /\ rep.stale = rows[i].stale /\ rep.mark = rows[i].mark
                             /\ rep.changed = rows[i].changed
                             /\ rep.md = IF rows[i].md = None THEN b.md ELSE rows[i].md
      BY <1>1, ReportFacts
    <2>2. settled = [rep EXCEPT !.stale = @ /\ rows[i].mark # b.mark]
      BY <2>1
    <2>. QED  BY <2>1, <2>2 DEF Row
  <1>5. NoRow \in Row /\ NoRow.mark = 0
    BY DEF NoRow, Row, None
  <1>6. /\ docs' = [docs EXCEPT ![i] = newDocs] /\ edges' = [edges EXCEPT ![i] = newEdges]
        /\ live' = [live EXCEPT ![i] = NoLive] /\ live[i] # NoLive
        /\ UNCHANGED <<seq, src, fwd>>
    BY DEF BuildEnds
  <1>7. rows' = [rows EXCEPT ![i] = row]
    BY DEF BuildEnds
  <1>8. NoLive \in Live /\ NoLive.idx = 0 /\ NoLive.mark = 0
    BY DEF NoLive, Live, NoBody, Body, None
  <1>9. \A v \in Versions : /\ newDocs[v] = Outcome(i, v) /\ newDocs[v].ver <= seq
                            /\ newEdges[v] = IF Nothing(b) THEN RemovedSet(edges[i][v], b.idx)
                                              ELSE ReplacedSet(edges[i][v], b.idx, {})
    BY <1>1, StoreFacts DEF Outcome, Written
  <1>10. /\ Nothing(b) /\ rows[i].mark = b.mark => row = NoRow
         /\ Nothing(b) /\ rows[i].mark # b.mark => row = rows[i]
         /\ ~Nothing(b) => row = settled
    BY DEF EndedRow
  <1>11. /\ row = NoRow /\ (Outdated(i) \/ Overtaken(i, b)) => exposed' = exposed \cup {i} /\ gone' = gone \ {i}
         /\ exposed' = exposed \cup {i} \/ exposed' = exposed
    BY DEF BuildEnds
  <1>. HIDE DEF newDocs, newEdges, settled, row
  <1>12. row \in Row /\ row.mark <= seq
    <2>1. rows[i].mark <= seq
      BY StoreFacts
    <2>. QED  BY <1>1, <1>4, <1>5, <1>10, <2>1
  <1>13. /\ rows' \in [Ids -> Row] /\ docs' \in [Ids -> [Versions -> Doc]]
         /\ edges' \in [Ids -> [Versions -> EdgeSet]] /\ live' \in [Ids -> Live]
    BY <1>2, <1>3, <1>6, <1>7, <1>8, <1>12, StoreFacts
  <1>14. Walked /\ \A j \in Ids : Holds(j)
    BY <1>1, <1>6, SameWalk
  <1>15. /\ rows'[i] = row /\ docs'[i] = newDocs /\ edges'[i] = newEdges /\ live'[i] = NoLive
         /\ \A j \in Ids \ {i} : Still(j)
    BY <1>6, <1>7, <1>14, StoreFacts DEF Still, Keeps
  <1>16. Ends(i)
    BY <1>6, <1>9, <1>14, <1>15 DEF Ends
  <1>17. Builds(i)
    <2>1. CASE Nothing(b) /\ rows[i].mark = b.mark
      <3>1. i \notin exposed' \/ i \in gone' => ~Outdated(i) /\ ~Overtaken(i, live[i])
        BY <1>10, <1>11, <2>1
      <3>2. Removes(i)
        BY <1>10, <1>15, <1>16, <2>1, <3>1 DEF Removes
      <3>. QED  BY <3>2 DEF Builds
    <2>2. CASE Nothing(b) /\ rows[i].mark # b.mark
      BY <1>9, <1>10, <1>15, <1>16, <2>2 DEF Builds, Leaves
    <2>3. CASE ~Nothing(b)
      BY <1>4, <1>9, <1>10, <1>15, <1>16, <2>3 DEF Builds, Serves
    <2>. QED  BY <2>1, <2>2, <2>3
  <1>18. \A j \in Ids : Affects(j)
    BY <1>6, <1>11, <1>15, <1>17 DEF Affects
  <1>19. ASSUME NEW j \in Ids
         PROVE  /\ rows'[j].mark <= seq' /\ live'[j].mark <= seq' /\ live'[j].idx <= seq'
                /\ \A v \in Versions : docs'[j][v].ver <= seq'
    <2>1. CASE j = i
      BY <1>1, <1>6, <1>8, <1>9, <1>12, <1>15, <2>1
    <2>2. CASE j # i
      BY <1>6, <1>15, <2>2, StoreFacts DEF Still, Keeps
    <2>. QED  BY <2>1, <2>2
  <1>20. exposed' \subseteq Ids
    BY <1>11, StoreFacts
  <1>. QED  BY <1>1, <1>6, <1>13, <1>14, <1>18, <1>19, <1>20 DEF StoreStep, Stored

\* A build fails.
LEMMA FailStep ==
    ASSUME TypeOK, Underway, Drawn, NEW i \in Ids, BuildFails(i)
    PROVE  StoreStep
  <1>1. live' = [live EXCEPT ![i] = NoLive] /\ UNCHANGED <<seq, src, exposed, rows, docs, edges, fwd>>
    BY DEF BuildFails, source, store
  <1>2. NoLive \in Live /\ NoLive.idx = 0 /\ NoLive.mark = 0
    BY DEF NoLive, Live, NoBody, Body, None
  <1>3. live' \in [Ids -> Live] /\ live'[i] = NoLive /\ \A j \in Ids \ {i} : live'[j] = live[j]
    BY <1>1, <1>2, StoreFacts
  <1>4. Walked /\ \A j \in Ids : Holds(j)
    BY <1>1, StoreFacts, SameWalk
  <1>5. \A j \in Ids : Affects(j)
    BY <1>1, <1>3, <1>4 DEF Affects, Builds, Still, Keeps, Aborts
  <1>6. \A j \in Ids : live'[j].mark <= seq /\ live'[j].idx <= seq
    <2>. TAKE j \in Ids
    <2>1. CASE j = i
      BY <1>2, <1>3, <2>1, StoreFacts
    <2>2. CASE j # i
      BY <1>3, <2>2, StoreFacts
    <2>. QED  BY <2>1, <2>2
  <1>. QED  BY <1>1, <1>3, <1>4, <1>5, <1>6, StoreFacts DEF StoreStep, Stored

\* The walk's fields when it goes on with one id.
LEMMA HandStep ==
    ASSUME TypeOK, Underway, Drawn, seq' \in Nat, seq' >= seq, NEW i \in Ids, NEW h \in Hand, h.idx <= seq',
           fwd.pc = "walk", fwd' \in Fwd, fwd'.pc = fwd.pc, fwd'.left = fwd.left, fwd'.start = fwd.start,
           fwd'.todo \subseteq fwd.todo, i \notin fwd'.todo, fwd'.hand = [fwd.hand EXCEPT ![i] = h]
    PROVE  Walked /\ fwd'.hand[i] = h /\ \A j \in Ids \ {i} : Holds(j)
  <1>1. /\ fwd \in Fwd /\ fwd.hand \in [Ids -> Hand] /\ fwd.left # <<>>
        /\ \A j \in fwd.todo : fwd.hand[j].pc = "none"
        /\ fwd.todo \subseteq Ids /\ seq \in Nat /\ fwd.start \in Nat /\ fwd.start <= seq
    BY StoreFacts DEF TypeOK, Underway, Held, Fwd
  <1>2. fwd'.hand[i] = h /\ \A j \in Ids \ {i} : fwd'.hand[j] = fwd.hand[j]
    BY <1>1
  <1>3. \A j \in Ids : fwd'.hand[j].idx <= seq'
    BY <1>2, StillDrawn
  <1>4. \A j \in fwd'.todo : fwd'.hand[j].pc = "none"
    BY <1>1, <1>2
  <1>5. \A j \in Ids \ {i} : Holds(j)
    BY <1>2 DEF Holds
  <1>. QED  BY <1>1, <1>2, <1>3, <1>4, <1>5 DEF Walked

\* The walk's hand as a record, and one with another of its fields.
LEMMA HandFacts ==
    ASSUME TypeOK, NEW i \in Ids, NEW h \in Hand
    PROVE  /\ NoHand \in Hand /\ NoHand.pc = "none" /\ NoHand.idx = 0
           /\ [fwd EXCEPT !.hand[i] = h] \in Fwd
           /\ [fwd EXCEPT !.hand[i] = h].hand = [fwd.hand EXCEPT ![i] = h]
           /\ [fwd EXCEPT !.hand[i] = h].pc = fwd.pc /\ [fwd EXCEPT !.hand[i] = h].left = fwd.left
           /\ [fwd EXCEPT !.hand[i] = h].start = fwd.start /\ [fwd EXCEPT !.hand[i] = h].todo = fwd.todo
           /\ [fwd EXCEPT !.hand[i] = h].marked = fwd.marked /\ [fwd EXCEPT !.hand[i] = h].errs = fwd.errs
  <1>1. fwd \in Fwd
    BY DEF TypeOK
  <1>2. NoHand \in Hand /\ NoHand.pc = "none" /\ NoHand.idx = 0
    BY DEF NoHand, Hand, NoBody, Body
  <1>3. [fwd.hand EXCEPT ![i] = h] \in [Ids -> Hand]
    BY <1>1 DEF Fwd
  <1>. QED  BY <1>1, <1>2, <1>3 DEF Fwd

\* An id of which the walk has something is none it has still to fetch.
LEMMA InHandNotTodo ==
    ASSUME TypeOK, Underway, NEW i \in Ids, fwd.hand[i].pc # "none"
    PROVE  i \notin fwd.todo
  BY DEF Underway, Held

\* A step that touches one id alone.
LEMMA OneIdStep ==
    ASSUME NEW i \in Ids, UNCHANGED <<src, exposed>>, Stored, Walked,
           Still(i) \/ Remarks(i) \/ Walks(i), \A j \in Ids \ {i} : Still(j)
    PROVE  StoreStep
  BY DEF StoreStep, Affects

\* The walk fetches.
LEMMA FetchStep ==
    ASSUME TypeOK, Underway, Drawn, NEW i \in Ids, WalkFetches(i)
    PROVE  StoreStep
  <1>. DEFINE out == [v \in Versions |-> Fetched(i, v, Head(fwd.left))]
              h == [NoHand EXCEPT !.pc = "fetched", !.out = out]
              new == IF i \in Listed(Head(fwd.left)) THEN h ELSE fwd.hand[i]
  <1>1. out \in [Versions -> Body]
    BY FetchFacts
  <1>2. h \in Hand /\ h.pc = "fetched" /\ h.out = out /\ h.idx = 0
    <2>0. NoHand \in Hand /\ NoHand.idx = 0
      BY DEF NoHand, Hand, NoBody, Body
    <2>1. PICK g \in Hand : g = NoHand /\ g.idx = 0
      BY <2>0
    <2>. HIDE DEF out
    <2>. QED  BY <1>1, <2>1 DEF Hand
  <1>3. /\ fwd.pc = "walk" /\ i \in fwd.todo /\ UNCHANGED <<seq, src, exposed, rows, docs, edges, live>>
    BY DEF WalkFetches, source, store
  <1>4. fwd' = [fwd EXCEPT !.todo = @ \ {i}, !.hand[i] = new]
    BY DEF WalkFetches
  <1>5. new \in Hand /\ new.idx <= seq' /\ seq' \in Nat /\ seq' >= seq
    <2>1. fwd.hand[i] \in Hand /\ fwd.hand[i].idx <= seq /\ seq \in Nat
      BY IdTypes DEF Held
    <2>. QED  BY <1>2, <1>3, <2>1
  <1>6. i \in Listed(Head(fwd.left)) => new = h
    OBVIOUS
  <1>7. i \notin Listed(Head(fwd.left)) => new = fwd.hand[i]
    OBVIOUS
  <1>8. out = [v \in Versions |-> Fetched(i, v, Head(fwd.left))]
    OBVIOUS
  <1>. HIDE DEF out, h, new
  <1>9. /\ fwd' \in Fwd /\ fwd'.pc = fwd.pc /\ fwd'.left = fwd.left /\ fwd'.start = fwd.start
        /\ fwd'.todo = fwd.todo \ {i} /\ fwd'.hand = [fwd.hand EXCEPT ![i] = new]
    <2>1. PICK q \in Fwd : q = [fwd EXCEPT !.hand[i] = new]
      BY <1>5, HandFacts
    <2>2. /\ q.hand = [fwd.hand EXCEPT ![i] = new] /\ q.pc = fwd.pc /\ q.left = fwd.left
          /\ q.start = fwd.start /\ q.todo = fwd.todo
      BY <1>5, <2>1, HandFacts
    <2>3. fwd' = [q EXCEPT !.todo = fwd.todo \ {i}]
      BY <1>4, <2>1 DEF TypeOK, Fwd
    <2>. QED  BY <2>1, <2>2, <2>3 DEF Fwd
  <1>10. Walked /\ fwd'.hand[i] = new /\ \A j \in Ids \ {i} : Holds(j)
    BY <1>3, <1>5, <1>9, HandStep
  <1>11. \A j \in Ids \ {i} : Still(j)
    BY <1>3, <1>10 DEF Still, Keeps
  <1>12. Held(i).pc = "none"
    BY <1>3 DEF Underway
  <1>13. Still(i) \/ Walks(i)
    <2>1. CASE i \in Listed(Head(fwd.left))
      <3>1. Moves(i, "none", "fetched")
        BY <1>2, <1>3, <1>6, <1>9, <1>10, <1>12, <2>1 DEF Moves
      <3>2. Takes(i)
        BY <1>2, <1>3, <1>6, <1>8, <1>10, <2>1, <3>1 DEF Takes, Keeps
      <3>. QED  BY <3>2 DEF Walks
    <2>2. CASE i \notin Listed(Head(fwd.left))
      BY <1>3, <1>7, <1>9, <1>10, <2>2 DEF Still, Keeps, Holds
    <2>. QED  BY <2>1, <2>2
  <1>14. Stored
    BY <1>3, StoreFacts DEF Stored
  <1>. QED  BY <1>3, <1>10, <1>11, <1>13, <1>14, OneIdStep

\* The walk begins an id.
LEMMA StartStep ==
    ASSUME TypeOK, Underway, Drawn, NEW i \in Ids, WalkBegins(i)
    PROVE  StoreStep
  <1>1. seq \in Nat /\ seq' = seq + 1 /\ seq' \in Nat /\ seq' >= seq
    BY StoreFacts DEF WalkBegins
  <1>2. PICK n \in Nat : n = seq + 1 /\ n > seq
    BY <1>1
  <1>3. PICK g \in Hand : g = fwd.hand[i]
    BY StoreFacts
  <1>4. PICK m \in Nat : m = rows[i].mark
    BY IdTypes
  <1>5. PICK row \in Row : row = rows[i]
    BY StoreFacts
  <1>. DEFINE h == [g EXCEPT !.pc = "begun", !.idx = n, !.mark = m]
              old == [row EXCEPT !.present = TRUE]
  <1>6. h \in Hand /\ h.pc = "begun" /\ h.idx = n /\ h.mark = m /\ h.out = g.out
    BY <1>3 DEF Hand
  <1>7. /\ old \in Row /\ old.present /\ old.tomb = row.tomb /\ old.stale = row.stale /\ old.mark = row.mark
        /\ old.changed = row.changed /\ old.md = row.md
    BY <1>5 DEF Row
  <1>8. /\ fwd.pc = "walk" /\ fwd.hand[i].pc = "fetched" /\ UNCHANGED <<src, exposed, docs, edges, live>>
    BY DEF WalkBegins, Walking, source
  <1>9. fwd' = [fwd EXCEPT !.hand[i] = h] /\ rows' = [rows EXCEPT ![i] = old]
    BY <1>2, <1>3, <1>4, <1>5 DEF WalkBegins
  <1>. HIDE DEF h, old
  <1>10. /\ Walked /\ fwd'.hand[i] = h /\ (\A j \in Ids \ {i} : Holds(j))
         /\ fwd'.left = fwd.left /\ fwd'.start = fwd.start
    <2>1. i \notin fwd.todo
      BY <1>8, InHandNotTodo
    <2>2. /\ fwd' \in Fwd /\ fwd'.pc = fwd.pc /\ fwd'.left = fwd.left /\ fwd'.start = fwd.start
          /\ fwd'.todo = fwd.todo /\ fwd'.hand = [fwd.hand EXCEPT ![i] = h]
      BY <1>6, <1>9, HandFacts
    <2>. QED  BY <1>1, <1>2, <1>6, <1>8, <2>1, <2>2, HandStep
  <1>11. rows' \in [Ids -> Row] /\ rows'[i] = old /\ \A j \in Ids \ {i} : rows'[j] = rows[j]
    BY <1>7, <1>9, StoreFacts
  <1>12. \A j \in Ids \ {i} : Still(j)
    BY <1>8, <1>10, <1>11 DEF Still, Keeps
  <1>13. Moves(i, "fetched", "begun")
    BY <1>3, <1>6, <1>8, <1>10 DEF Moves, Held
  <1>14. Starts(i)
    BY <1>2, <1>4, <1>5, <1>6, <1>7, <1>8, <1>10, <1>11, <1>13 DEF Starts
  <1>15. \A j \in Ids : rows'[j].mark <= seq'
    BY <1>1, <1>5, <1>7, <1>11, StillDrawn
  <1>16. Stored
    BY <1>1, <1>8, <1>11, <1>15, StoreFacts, StillDrawn DEF Stored
  <1>. QED  BY <1>8, <1>10, <1>12, <1>14, <1>16, OneIdStep DEF Walks

\* The walk writes an id.
LEMMA PutStep ==
    ASSUME TypeOK, Underway, Drawn, NEW i \in Ids, WalkWrites(i)
    PROVE  StoreStep
  <1>1. seq \in Nat /\ seq' = seq /\ seq' \in Nat /\ seq' >= seq
    BY StoreFacts DEF WalkWrites
  <1>2. PICK g \in Hand : g = fwd.hand[i]
    BY StoreFacts
  <1>3. g.idx \in Nat /\ g.idx <= seq /\ g.out \in [Versions -> Body]
    BY <1>2, IdTypes DEF Held, Hand
  <1>4. PICK md \in Nat : md = Head(fwd.left)
    <2>1. fwd.left \in Seq(Nat) /\ fwd.left # <<>>
      BY StoreFacts DEF WalkWrites, Walking, Underway
    <2>. QED  BY <2>1
  <1>5. PICK old \in Row : old = rows[i]
    BY StoreFacts
  <1>. DEFINE h == [g EXCEPT !.pc = "written"]
              newDocs == [v \in Versions |-> Written(docs[i][v], g.out[v], g.idx)]
              newEdges == [v \in Versions |-> ReplacedSet(edges[i][v], g.idx, {})]
              row == IF old.present THEN Reported(old, md) ELSE old
  <1>6. h \in Hand /\ h.pc = "written" /\ h.idx = g.idx /\ h.mark = g.mark /\ h.out = g.out
    BY <1>2 DEF Hand
  <1>7. newDocs \in [Versions -> Doc] /\ newEdges \in [Versions -> EdgeSet]
    BY <1>3, WriteFacts, StoreFacts
  <1>8. \A v \in Versions : /\ newDocs[v] = HandOutcome(i, v) /\ newDocs[v].ver <= seq
                            /\ newEdges[v] = ReplacedSet(edges[i][v], g.idx, {})
    BY <1>1, <1>2, <1>3, StoreFacts DEF HandOutcome, Held, Written
  <1>9. /\ row \in Row /\ row.present = old.present /\ row.tomb = old.tomb /\ row.stale = old.stale
        /\ row.mark = old.mark /\ row.changed = old.changed /\ (~old.present => row = old)
        /\ row.md \in {old.md, md} /\ (old.md # None => row.md = old.md)
    <2>1. CASE old.present
      BY <1>4, <1>5, <2>1, ReportFacts
    <2>2. CASE ~old.present
      BY <1>5, <2>2
    <2>. QED  BY <2>1, <2>2
  <1>10. fwd.pc = "walk" /\ fwd.hand[i].pc = "begun" /\ UNCHANGED <<src, exposed, live>>
    BY DEF WalkWrites, Walking, source
  <1>11. /\ docs' = [docs EXCEPT ![i] = newDocs] /\ edges' = [edges EXCEPT ![i] = newEdges]
         /\ rows' = [rows EXCEPT ![i] = row]
    BY <1>2, <1>4, <1>5 DEF WalkWrites
  <1>12. fwd' = [fwd EXCEPT !.hand[i] = h]
    BY <1>2 DEF WalkWrites
  <1>. HIDE DEF h, newDocs, newEdges, row
  <1>13. /\ Walked /\ fwd'.hand[i] = h /\ (\A j \in Ids \ {i} : Holds(j))
         /\ fwd'.left = fwd.left /\ fwd'.start = fwd.start
    <2>1. i \notin fwd.todo
      BY <1>10, InHandNotTodo
    <2>2. /\ fwd' \in Fwd /\ fwd'.pc = fwd.pc /\ fwd'.left = fwd.left /\ fwd'.start = fwd.start
          /\ fwd'.todo = fwd.todo /\ fwd'.hand = [fwd.hand EXCEPT ![i] = h]
      BY <1>6, <1>12, HandFacts
    <2>. QED  BY <1>1, <1>3, <1>6, <1>10, <2>1, <2>2, HandStep
  <1>14. /\ rows' \in [Ids -> Row] /\ docs' \in [Ids -> [Versions -> Doc]]
         /\ edges' \in [Ids -> [Versions -> EdgeSet]]
         /\ rows'[i] = row /\ docs'[i] = newDocs /\ edges'[i] = newEdges
         /\ \A j \in Ids \ {i} : Keeps(j)
    BY <1>7, <1>9, <1>11, StoreFacts DEF Keeps
  <1>15. \A j \in Ids \ {i} : Still(j)
    BY <1>10, <1>13, <1>14 DEF Still
  <1>16. Moves(i, "begun", "written")
    BY <1>2, <1>6, <1>10, <1>13 DEF Moves, Held
  <1>17. Held(i).idx = g.idx
    BY <1>2 DEF Held
  <1>18. Puts(i)
    BY <1>4, <1>5, <1>8, <1>9, <1>14, <1>16, <1>17 DEF Puts
  <1>19. \A j \in Ids : rows'[j].mark <= seq' /\ \A v \in Versions : docs'[j][v].ver <= seq'
    <2>. TAKE j \in Ids
    <2>1. CASE j = i
      BY <1>1, <1>5, <1>8, <1>9, <1>14, <2>1, StillDrawn
    <2>2. CASE j # i
      BY <1>1, <1>14, <2>2, StillDrawn DEF Keeps
    <2>. QED  BY <2>1, <2>2
  <1>20. Stored
    BY <1>1, <1>10, <1>14, <1>19, StoreFacts DEF Stored
  <1>. QED  BY <1>10, <1>13, <1>15, <1>18, <1>20, OneIdStep DEF Walks

\* The walk settles an id.
LEMMA SettleStep ==
    ASSUME TypeOK, Underway, Drawn, NEW i \in Ids, WalkSettles(i)
    PROVE  StoreStep
  <1>1. seq \in Nat /\ seq' = seq /\ seq' \in Nat /\ seq' >= seq
    BY StoreFacts DEF WalkSettles
  <1>2. PICK g \in Hand : g = fwd.hand[i]
    BY StoreFacts
  <1>3. PICK old \in Row : old = rows[i]
    BY StoreFacts
  <1>. DEFINE h == IF Drifted(i) THEN [g EXCEPT !.pc = "remark"] ELSE NoHand
              row == IF Drifted(i) \/ old.mark # g.mark THEN old ELSE [old EXCEPT !.stale = FALSE]
  <1>4. /\ h \in Hand /\ h.idx <= seq /\ h.idx \in Nat
        /\ Drifted(i) => h.pc = "remark" /\ h.idx = g.idx /\ h.mark = g.mark /\ h.out = g.out
        /\ ~Drifted(i) => h = NoHand
    <2>1. g.idx \in Nat /\ g.idx <= seq /\ NoHand \in Hand /\ NoHand.idx = 0
      BY <1>2, IdTypes, HandFacts DEF Held
    <2>. QED  BY <1>1, <1>2, <2>1 DEF Hand
  <1>5. /\ row \in Row /\ row.present = old.present /\ row.tomb = old.tomb
        /\ row.mark = old.mark /\ row.changed = old.changed /\ row.md = old.md
        /\ (Drifted(i) => row = old) /\ (~old.stale => row = old)
        /\ ~Drifted(i) => (row.stale <=> old.stale /\ old.mark # g.mark)
    BY <1>3 DEF Row
  <1>6. fwd.pc = "walk" /\ fwd.hand[i].pc = "written" /\ UNCHANGED <<src, exposed, docs, edges, live>>
    BY DEF WalkSettles, Walking, source
  <1>7. fwd' = [fwd EXCEPT !.hand[i] = h]
    BY <1>2 DEF WalkSettles
  <1>8. rows' = [rows EXCEPT ![i] = row]
    <2>1. CASE Drifted(i) \/ old.mark # g.mark
      <3>1. rows' = rows
        BY <1>2, <1>3, <2>1 DEF WalkSettles
      <3>. QED  BY <1>3, <2>1, <3>1, StoreFacts
    <2>2. CASE ~(Drifted(i) \/ old.mark # g.mark)
      <3>1. rows' = [rows EXCEPT ![i].stale = FALSE]
        BY <1>2, <1>3, <2>2 DEF WalkSettles
      <3>. QED  BY <1>3, <2>2, <3>1
    <2>. QED  BY <2>1, <2>2
  <1>. HIDE DEF h, row
  <1>9. /\ Walked /\ fwd'.hand[i] = h /\ (\A j \in Ids \ {i} : Holds(j))
        /\ fwd'.left = fwd.left /\ fwd'.start = fwd.start
    <2>1. i \notin fwd.todo
      BY <1>6, InHandNotTodo
    <2>2. /\ fwd' \in Fwd /\ fwd'.pc = fwd.pc /\ fwd'.left = fwd.left /\ fwd'.start = fwd.start
          /\ fwd'.todo = fwd.todo /\ fwd'.hand = [fwd.hand EXCEPT ![i] = h]
      BY <1>4, <1>7, HandFacts
    <2>. QED  BY <1>1, <1>4, <1>6, <2>1, <2>2, HandStep
  <1>10. rows' \in [Ids -> Row] /\ rows'[i] = row /\ \A j \in Ids \ {i} : rows'[j] = rows[j]
    BY <1>5, <1>8, StoreFacts
  <1>11. \A j \in Ids \ {i} : Still(j)
    BY <1>6, <1>9, <1>10 DEF Still, Keeps
  <1>12. Held(i) = g
    BY <1>2 DEF Held
  <1>13. CASE Drifted(i)
    <2>1. Moves(i, "written", "remark")
      BY <1>2, <1>4, <1>6, <1>9, <1>12, <1>13 DEF Moves
    <2>2. Drifts(i)
      BY <1>3, <1>5, <1>6, <1>10, <1>13, <2>1 DEF Drifts, Keeps
    <2>3. Stored
      BY <1>1, <1>3, <1>5, <1>6, <1>10, StoreFacts DEF Stored
    <2>. QED  BY <1>6, <1>9, <1>11, <2>2, <2>3, OneIdStep DEF Walks
  <1>14. CASE ~Drifted(i)
    <2>1. Frees(i)
      BY <1>4, <1>9, <1>14 DEF Frees
    <2>2. Clears(i)
      BY <1>2, <1>3, <1>5, <1>6, <1>10, <1>12, <1>14, <2>1 DEF Clears
    <2>3. Stored
      BY <1>1, <1>3, <1>5, <1>6, <1>10, StoreFacts DEF Stored
    <2>. QED  BY <1>6, <1>9, <1>11, <2>2, <2>3, OneIdStep DEF Walks
  <1>. QED  BY <1>13, <1>14

\* The walk marks an id, one that drifted or one that failed.
LEMMA WalkMarkStep ==
    ASSUME TypeOK, Underway, Drawn, NEW i \in Ids, WalkRemarks(i) \/ WalkMarks(i)
    PROVE  StoreStep /\ Marks(i)
  <1>1. /\ fwd.pc = "walk" /\ fwd.hand[i].pc # "none" /\ rows' = Marked({i}) /\ seq' = seq + 1
        /\ UNCHANGED <<src, exposed, docs, edges, live>>
    BY DEF WalkRemarks, WalkMarks, Walking, source
  <1>2. Cardinality({i}) = 1
    BY FS_Singleton
  <1>3. /\ Stored /\ seq' \in Nat /\ seq' >= seq
        /\ Marks(i) /\ rows'[i].tomb = rows[i].tomb /\ rows'[i].md = rows[i].md
        /\ rows'[i].changed = rows[i].changed
        /\ \A j \in Ids \ {i} : Keeps(j) /\ live'[j] = live[j]
    <2>1. {i} \in SUBSET Ids /\ exposed' \subseteq Ids /\ seq' = seq + Cardinality({i})
      BY <1>1, <1>2, StoreFacts
    <2>. QED  BY <1>1, <2>1, MarkStored
  <1>4. /\ fwd' \in Fwd /\ fwd'.pc = fwd.pc /\ fwd'.left = fwd.left /\ fwd'.start = fwd.start
        /\ fwd'.todo = fwd.todo /\ fwd'.hand = [fwd.hand EXCEPT ![i] = NoHand]
    <2>0. NoHand \in Hand
      BY DEF NoHand, Hand, NoBody, Body
    <2>1. PICK q \in Fwd : q = [fwd EXCEPT !.hand[i] = NoHand]
      BY <2>0, HandFacts
    <2>2. /\ q.hand = [fwd.hand EXCEPT ![i] = NoHand] /\ q.pc = fwd.pc /\ q.left = fwd.left
          /\ q.start = fwd.start /\ q.todo = fwd.todo
      BY <2>0, <2>1, HandFacts
    <2>3. fwd' = q \/ fwd' = [q EXCEPT !.marked = TRUE]
      BY <2>1 DEF WalkRemarks, WalkMarks, TypeOK, Fwd
    <2>. QED  BY <2>1, <2>2, <2>3 DEF Fwd
  <1>5. Walked /\ fwd'.hand[i] = NoHand /\ \A j \in Ids \ {i} : Holds(j)
    <2>1. NoHand \in Hand /\ NoHand.idx = 0
      BY DEF NoHand, Hand, NoBody, Body
    <2>2. i \notin fwd.todo
      BY <1>1, InHandNotTodo
    <2>. QED  BY <1>1, <1>3, <1>4, <2>1, <2>2, HandStep
  <1>6. Remarks(i) /\ \A j \in Ids \ {i} : Still(j)
    BY <1>3, <1>5 DEF Remarks, Frees, Still
  <1>. QED  BY <1>1, <1>3, <1>5, <1>6, OneIdStep

\* The walks between their ids: one starts, ends, or is the last.
LEMMA BetweenStep ==
    ASSUME TypeOK, Underway, Drawn, StartWalk \/ WalkEnds \/ WalksDone
    PROVE  StoreStep
  <1>1. /\ seq \in Nat /\ fwd \in Fwd /\ fwd.start \in Nat /\ fwd.start <= seq /\ fwd.left \in Seq(Nat)
        /\ NoHands \in [Ids -> Hand] /\ \A i \in Ids : NoHands[i].pc = "none" /\ NoHands[i].idx = 0
    BY StoreFacts DEF TypeOK, NoHands, NoHand, Hand, NoBody, Body
  <1>2. fwd.hand = NoHands /\ UNCHANGED <<src, exposed, rows, docs, edges, live>>
    BY DEF StartWalk, WalkEnds, WalksDone, Underway, source, store
  <1>3. seq' \in Nat /\ seq' >= seq
    <2>1. seq' = seq + 1 \/ seq' = seq
      BY DEF StartWalk, WalkEnds, WalksDone
    <2>. QED  BY <1>1, <2>1
  <1>4. /\ fwd' \in Fwd /\ fwd'.hand = NoHands /\ fwd'.start <= seq'
        /\ fwd'.pc = "walk" => fwd'.left # <<>>
        /\ fwd'.todo \subseteq Ids
    <2>1. CASE StartWalk
      <3>1. /\ fwd.left # <<>> /\ seq' = seq + 1
            /\ fwd' = [fwd EXCEPT !.pc = "walk", !.start = seq + 1, !.todo = Ids]
        BY <2>1 DEF StartWalk
      <3>2. PICK n \in Nat : n = seq + 1
        BY <1>1
      <3>3. PICK q \in Fwd : q = fwd
        BY <1>1
      <3>4. fwd' = [q EXCEPT !.pc = "walk", !.start = n, !.todo = Ids]
        BY <3>1, <3>2, <3>3
      <3>5. /\ fwd' \in Fwd /\ fwd'.pc = "walk" /\ fwd'.start = n /\ fwd'.todo = Ids
            /\ fwd'.hand = q.hand /\ fwd'.left = q.left
        BY <3>4 DEF Fwd
      <3>. QED  BY <1>2, <3>1, <3>2, <3>3, <3>5
    <2>2. CASE WalkEnds
      <3>1. /\ fwd.pc = "walk" /\ fwd.left # <<>> /\ seq' = seq
            /\ fwd' = AfterWalk(fwd, FALSE)
        BY <2>2 DEF WalkEnds, Underway
      <3>2. Tail(fwd.left) \in Seq(Nat)
        BY <1>1, <3>1
      <3>. QED  BY <1>1, <1>2, <3>1, <3>2 DEF AfterWalk, Fwd
    <2>3. CASE WalksDone
      <3>1. fwd' = [fwd EXCEPT !.pc = "done"] /\ seq' = seq
        BY <2>3 DEF WalksDone
      <3>. QED  BY <1>1, <1>2, <3>1 DEF Fwd
    <2>. QED  BY <2>1, <2>2, <2>3
  <1>5. Walked
    BY <1>1, <1>3, <1>4 DEF Walked
  <1>6. \A i \in Ids : Affects(i)
    <2>. TAKE i \in Ids
    <2>1. Holds(i)
      BY <1>1, <1>2, <1>4 DEF Holds, Held
    <2>. QED  BY <1>2, <2>1 DEF Affects, Still, Keeps
  <1>7. Stored
    BY <1>2, <1>3, StoreFacts, StillDrawn DEF Stored
  <1>. QED  BY <1>5, <1>6, <1>7 DEF StoreStep

\* A walk fails, and marks what it has begun, or is lost.
LEMMA WalkFailStep ==
    ASSUME TypeOK, Underway, Drawn, WalkFails
    PROVE  StoreStep
  <1>1. /\ seq \in Nat /\ fwd \in Fwd /\ fwd.start \in Nat /\ fwd.start <= seq /\ fwd.left \in Seq(Nat)
        /\ fwd.left # <<>>
        /\ NoHands \in [Ids -> Hand] /\ \A i \in Ids : NoHands[i] = NoHand /\ NoHand.pc = "none" /\ NoHand.idx = 0
    BY StoreFacts DEF TypeOK, Underway, WalkFails, NoHands, NoHand, Hand, NoBody, Body
  <1>2. UNCHANGED <<src, docs, edges, live>>
    BY DEF WalkFails
  <1>3. /\ fwd' \in Fwd /\ fwd'.hand = NoHands /\ fwd'.start = fwd.start /\ fwd'.pc = "next"
        /\ fwd'.todo = {}
    <2>1. CASE fwd' = AfterWalk(fwd, TRUE)
      <3>1. Tail(fwd.left) \in Seq(Nat) /\ Head(fwd.left) \in Nat
        BY <1>1
      <3>2. fwd.errs \cup {Head(fwd.left)} \in SUBSET Nat
        BY <1>1, <3>1 DEF Fwd
      <3>. QED  BY <1>1, <2>1, <3>1, <3>2 DEF AfterWalk, Fwd
    <2>2. CASE fwd' = [fwd EXCEPT !.pc = "next", !.todo = {}, !.hand = NoHands]
      BY <1>1, <2>2 DEF Fwd
    <2>. QED  BY <2>1, <2>2 DEF WalkFails
  <1>4. \A i \in Ids : Frees(i)
    BY <1>1, <1>3 DEF Frees
  <1>5. ASSUME seq' \in Nat, seq' >= seq PROVE Walked
    BY <1>1, <1>3, <1>5 DEF Walked
  <1>6. CASE rows' = Marked(Begun) /\ seq' = seq + Cardinality(Begun) /\ UNCHANGED exposed
    <2>1. Begun \in SUBSET Ids /\ exposed' \subseteq Ids
      BY <1>6, StoreFacts DEF Begun
    <2>2. /\ Stored /\ seq' \in Nat /\ seq' >= seq
          /\ \A i \in Begun : /\ Marks(i) /\ rows'[i].tomb = rows[i].tomb /\ rows'[i].md = rows[i].md
                              /\ rows'[i].changed = rows[i].changed
          /\ \A i \in Ids \ Begun : Keeps(i) /\ live'[i] = live[i]
      BY <1>2, <1>6, <2>1, MarkStored
    <2>3. ASSUME NEW i \in Ids PROVE Affects(i)
      <3>1. CASE i \in Begun
        BY <1>2, <1>4, <1>6, <2>2, <3>1 DEF Affects, Remarks
      <3>2. CASE i \notin Begun
        <4>1. ~Exposes(i)
          BY <3>2 DEF Exposes, Begun
        <4>. QED  BY <1>2, <1>4, <1>6, <2>2, <3>2, <4>1 DEF Affects, Walks, Drops
      <3>. QED  BY <3>1, <3>2
    <2>. QED  BY <1>5, <2>2, <2>3 DEF StoreStep
  <1>7. CASE exposed' = exposed \cup {i \in Ids : Exposes(i)} /\ UNCHANGED <<rows, seq>>
    <2>1. Stored
      BY <1>1, <1>2, <1>7, StoreFacts DEF Stored
    <2>2. Walked
      BY <1>1, <1>5, <1>7
    <2>3. \A i \in Ids : Affects(i)
      BY <1>2, <1>4, <1>7 DEF Affects, Walks, Drops, Keeps
    <2>. QED  BY <2>1, <2>2, <2>3 DEF StoreStep
  <1>. QED  BY <1>6, <1>7 DEF WalkFails

\* The rows the probe pass begins are there already.
LEMMA BeginPageRows ==
    ASSUME TypeOK, Drawn, BeginPage
    PROVE  rows' = rows
  <1>. DEFINE begun == {i \in pass.page : Begins(i)}
  <1>1. begun \in SUBSET Ids
    BY DEF TypeOK, Pass
  <1>2. rows' = [i \in Ids |-> IF i \in begun THEN [rows[i] EXCEPT !.present = TRUE] ELSE rows[i]]
    BY DEF BeginPage
  <1>3. ASSUME NEW i \in begun PROVE [rows[i] EXCEPT !.present = TRUE] = rows[i]
    <2>1. PICK row \in Row : row = rows[i]
      BY <1>1, StoreFacts
    <2>2. row.present = TRUE
      BY <2>1 DEF Begins, Row
    <2>. QED  BY <2>1, <2>2 DEF Row
  <1>4. rows' = [i \in Ids |-> rows[i]]
    BY <1>2, <1>3
  <1>. QED  BY <1>4, StoreFacts

\* The probe pass begins its page: rows stay as they are, numbers are drawn.
LEMMA BeginPageStep ==
    ASSUME TypeOK, Underway, Drawn, BeginPage
    PROVE  StoreStep
  <1>. DEFINE begun == {i \in pass.page : Begins(i)}
  <1>1. begun \in SUBSET Ids
    BY DEF TypeOK, Pass
  <1>2. seq \in Nat /\ Cardinality(begun) \in Nat
    BY <1>1, IdFacts, StoreFacts
  <1>3. seq' = seq + Cardinality(begun) /\ UNCHANGED <<src, exposed, docs, edges, live, fwd>>
    BY DEF BeginPage, source
  <1>4. rows' = rows
    BY BeginPageRows
  <1>. HIDE DEF begun
  <1>5. seq' \in Nat /\ seq' >= seq
    BY <1>2, <1>3
  <1>6. Walked /\ \A i \in Ids : Holds(i)
    BY <1>3, <1>5, SameWalk
  <1>7. \A i \in Ids : Affects(i)
    BY <1>3, <1>4, <1>6 DEF Affects, Still, Keeps
  <1>8. Stored
    BY <1>3, <1>4, <1>5, StoreFacts, StillDrawn DEF Stored
  <1>. QED  BY <1>6, <1>7, <1>8 DEF StoreStep

\* The least of a finite set is one of it.
LEMMA LeastOfIsLeast ==
    ASSUME NEW S \in SUBSET Nat, IsFiniteSet(S), S # {}
    PROVE  LeastOf(S) \in S
  <1>1. Cardinality(S) \in Nat /\ Cardinality(S) # 0
    BY FS_EmptySet, FS_CardinalityType
  <1>2. 1 \in 1 .. Cardinality(S)
    BY <1>1
  <1>3. PICK i \in S : Nth(S, i) = 1
    BY <1>2, NthFacts
  <1>4. \A j \in S : ~(j < i)
    <2>1. \A j \in S : Nth(S, j) \in 1 .. Cardinality(S)
      BY NthFacts
    <2>. QED  BY <1>1, <1>3, <2>1, NthFacts
  <1>5. \A j \in S : i <= j
    BY <1>4
  <1>. QED  BY <1>5 DEF LeastOf

\* The id the pass writes next is one it has to write.
LEMMA ExcludedIsOne ==
    ASSUME TypeOK, PassShape, pass.pc \in {"delete", "edges"}
    PROVE  Excluded \in pass.todo /\ Excluded \in Ids /\ pass.seqs[Excluded] > 1
  <1>1. pass.todo # {} /\ pass.todo \in SUBSET Ids
    BY DEF PassShape, Shaped, TypeOK, Pass
  <1>2. pass.todo \in SUBSET Nat /\ IsFiniteSet(pass.todo)
    BY <1>1, IdFacts DEF TypeOK
  <1>3. Excluded \in pass.todo
    BY <1>1, <1>2, LeastOfIsLeast DEF Excluded
  <1>. QED  BY <1>1, <1>3 DEF PassShape, Shaped

\* The probe pass deletes the document of an id it excluded.
LEMMA DeleteStep ==
    ASSUME TypeOK, Underway, Drawn, PassShape, DeleteExcluded
    PROVE  StoreStep
  <1>1. PICK e \in Ids : e = Excluded /\ e \in pass.todo
    BY ExcludedIsOne DEF DeleteExcluded
  <1>2. PICK w : w = PassVersion
    OBVIOUS
  <1>3. /\ docs' = [docs EXCEPT ![e][w] = Written(docs[e][w], NoBody, pass.seqs[e])]
        /\ UNCHANGED <<seq, src, exposed, rows, edges, live, fwd>>
    BY <1>1, <1>2 DEF DeleteExcluded, source
  <1>4. ASSUME NEW i \in Ids, NEW v \in Versions
        PROVE  /\ \/ docs'[i][v] = docs[i][v]
                  \/ i = e /\ v = w /\ docs'[i][v] = Written(docs[i][v], NoBody, pass.seqs[i])
               /\ i # e => docs'[i] = docs[i]
               /\ docs'[i] = [u \in Versions |-> docs'[i][u]]
    <2>1. docs[i] = [u \in Versions |-> docs[i][u]]
      BY StoreFacts
    <2>2. docs'[i] = IF i = e THEN [docs[i] EXCEPT ![w] = Written(docs[i][w], NoBody, pass.seqs[i])]
                     ELSE docs[i]
      BY <1>3, StoreFacts
    <2>. QED  BY <2>1, <2>2
  <1>5. \A i \in Ids : pass.seqs[i] \in Nat /\ pass.seqs[i] <= seq
    BY IdTypes
  <1>6. ASSUME NEW i \in Ids, NEW v \in Versions
        PROVE  docs'[i][v] \in Doc /\ docs'[i][v].ver <= seq
    <2>1. CASE docs'[i][v] = docs[i][v]
      BY <2>1, StoreFacts
    <2>2. CASE docs'[i][v] = Written(docs[i][v], NoBody, pass.seqs[i])
      <3>1. docs[i][v] \in Doc /\ docs[i][v].ver <= seq /\ docs[i][v].ver \in Nat
        BY StoreFacts
      <3>2. CASE docs[i][v].ver <= pass.seqs[i]
        <4>1. docs'[i][v] = [ver |-> pass.seqs[i], body |-> NoBody]
          BY <2>2, <3>2 DEF Written
        <4>. QED  BY <1>5, <3>1, <3>2, <4>1 DEF Doc, NoBody, Body
      <3>3. CASE ~(docs[i][v].ver <= pass.seqs[i])
        BY <2>2, <3>1, <3>3 DEF Written
      <3>. QED  BY <3>2, <3>3
    <2>. QED  BY <1>4, <2>1, <2>2
  <1>7. Versions # {}
    BY SetupFacts, StoreFacts
  <1>8. docs' \in [Ids -> [Versions -> Doc]]
    <2>1. docs' = [i \in Ids |-> docs'[i]]
      BY <1>3, StoreFacts
    <2>2. \A i \in Ids : docs'[i] \in [Versions -> Doc]
      BY <1>4, <1>6, <1>7
    <2>. QED  BY <2>1, <2>2
  <1>9. Walked /\ \A i \in Ids : Holds(i)
    BY <1>3, StoreFacts, SameWalk
  <1>10. Rules(e)
    BY <1>1, <1>2, <1>3, <1>4, <1>9 DEF Rules
  <1>11. \A i \in Ids \ {e} : Still(i)
    BY <1>3, <1>4, <1>7, <1>9 DEF Still, Keeps
  <1>12. \A i \in Ids : Affects(i)
    BY <1>3, <1>10, <1>11 DEF Affects
  <1>13. Stored
    BY <1>3, <1>6, <1>8, StoreFacts DEF Stored
  <1>. QED  BY <1>9, <1>12, <1>13 DEF StoreStep

\* The probe pass empties the edge set of an id it excluded.
LEMMA EdgesStep ==
    ASSUME TypeOK, Underway, Drawn, PassShape, EmptyEdges
    PROVE  StoreStep
  <1>1. PICK e \in Ids : e = Excluded /\ e \in pass.todo
    BY ExcludedIsOne DEF EmptyEdges
  <1>2. PICK w : w = PassVersion
    OBVIOUS
  <1>3. /\ edges' = [edges EXCEPT ![e][w] = ReplacedSet(edges[e][w], pass.seqs[e], {})]
        /\ UNCHANGED <<seq, src, exposed, rows, docs, live, fwd>> /\ docs[e][w].ver >= pass.seqs[e]
    BY <1>1, <1>2 DEF EmptyEdges, source, PassShape
  <1>4. ASSUME NEW i \in Ids, NEW v \in Versions
        PROVE  /\ \/ edges'[i][v] = edges[i][v]
                  \/ i = e /\ v = w /\ edges'[i][v] = ReplacedSet(edges[i][v], pass.seqs[i], {})
               /\ i # e => edges'[i] = edges[i]
               /\ edges'[i] = [u \in Versions |-> edges'[i][u]]
    <2>1. edges[i] = [u \in Versions |-> edges[i][u]]
      BY StoreFacts
    <2>2. edges'[i] = IF i = e THEN [edges[i] EXCEPT ![w] = ReplacedSet(edges[i][w], pass.seqs[i], {})]
                      ELSE edges[i]
      BY <1>3, StoreFacts
    <2>. QED  BY <2>1, <2>2
  <1>5. ASSUME NEW i \in Ids, NEW v \in Versions PROVE edges'[i][v] \in EdgeSet
    <2>1. edges[i][v] \in EdgeSet /\ pass.seqs[i] \in Nat /\ NoBody \in Body
      BY IdTypes DEF NoBody, Body
    <2>2. [ver |-> 0, body |-> NoBody] \in Doc
      BY <2>1 DEF Doc
    <2>3. ReplacedSet(edges[i][v], pass.seqs[i], {}) \in EdgeSet
      BY <2>1, <2>2, WriteFacts
    <2>. QED  BY <1>4, <2>1, <2>3
  <1>6. Versions # {}
    BY SetupFacts, StoreFacts
  <1>7. edges' \in [Ids -> [Versions -> EdgeSet]]
    <2>1. edges' = [i \in Ids |-> edges'[i]]
      BY <1>3, StoreFacts
    <2>2. \A i \in Ids : edges'[i] \in [Versions -> EdgeSet]
      BY <1>4, <1>5, <1>6
    <2>. QED  BY <2>1, <2>2
  <1>8. Walked /\ \A i \in Ids : Holds(i)
    BY <1>3, StoreFacts, SameWalk
  <1>9. Rules(e)
    BY <1>1, <1>2, <1>3, <1>4, <1>8 DEF Rules
  <1>10. \A i \in Ids \ {e} : Still(i)
    BY <1>3, <1>4, <1>6, <1>8 DEF Still, Keeps
  <1>11. \A i \in Ids : Affects(i)
    BY <1>3, <1>9, <1>10 DEF Affects
  <1>12. Stored
    BY <1>3, <1>7, StoreFacts DEF Stored
  <1>. QED  BY <1>8, <1>11, <1>12 DEF StoreStep
-----------------------------------------------------------------------------
(* The steps of the sweep *)

\* The sweep keeps its types, and an id whose turn was still to come has it
\* still to come, unless the step marks its row.
SweepStep ==
    /\ sweep' \in Sweep /\ atts' \in Seq(Attempt) /\ Len(atts') <= Attempts
    /\ sweep'.outcome = "running" => atts' # <<>>
    /\ gone' \subseteq gone /\ skipped \subseteq skipped' /\ skipped' \subseteq Ids
    /\ \A i \in gone \ skipped' : Ahead(i) => Unreached(i)' \/ Marks(i)

\* The types of the sweep.
LEMMA SweepFacts ==
    ASSUME TypeOK, Underway
    PROVE  /\ sweep \in Sweep /\ atts \in Seq(Attempt) /\ Len(atts) \in Nat /\ Len(atts) <= Attempts
           /\ Attempts \in Nat \ {0} /\ PageSize \in Nat \ {0}
           /\ gone \subseteq Ids /\ skipped \subseteq Ids /\ gone \subseteq Nat
           /\ sweep.outcome = "running" => atts # <<>> /\ Len(atts) \in DOMAIN atts
           /\ sweep.recorded \in Nat
           /\ \A a \in DOMAIN atts : /\ atts[a] \in Attempt /\ a \in Nat
                                     /\ atts[a].latest \in Nat /\ atts[a].after \in Nat
                                     /\ atts[a].page \in SUBSET (Ids \X Nat)
                                     /\ atts[a].left \in SUBSET (Ids \X Nat)
                                     /\ atts[a].suspects \in SUBSET Ids
  <1>1. sweep \in Sweep /\ atts \in Seq(Attempt) /\ Len(atts) <= Attempts
    BY DEF TypeOK
  <1>2. gone \subseteq Ids /\ skipped \subseteq Ids /\ gone \subseteq Nat
    BY SetupFacts DEF TypeOK
  <1>3. \A a \in DOMAIN atts : atts[a] \in Attempt /\ a \in Nat
    BY <1>1
  <1>4. sweep.outcome = "running" => atts # <<>> /\ Len(atts) \in DOMAIN atts
    BY <1>1 DEF Underway
  <1>5. sweep.recorded \in Nat
    BY <1>1 DEF Sweep
  <1>6. \A t \in Attempt : /\ t.latest \in Nat /\ t.after \in Nat /\ t.page \in SUBSET (Ids \X Nat)
                           /\ t.left \in SUBSET (Ids \X Nat) /\ t.suspects \in SUBSET Ids
    BY DEF Attempt
  <1>. QED  BY <1>1, <1>2, <1>3, <1>4, <1>5, <1>6, AuditAssumption

\* Steps that leave the sweep alone; a change takes its id out of gone.
LEMMA OtherStep ==
    ASSUME TypeOK, Underway, UNCHANGED <<sweep, atts, skipped>>, gone' \subseteq gone
    PROVE  SweepStep
  <1>1. \A i \in gone : Unreached(i) => Unreached(i)'
    BY DEF Unreached, Before, Beyond, PageIds, LeftIds
  <1>. QED  BY <1>1, SweepFacts DEF SweepStep, Ahead

\* One attempt changes.
LEMMA AttemptFacts ==
    ASSUME TypeOK, Underway, NEW a \in DOMAIN atts, NEW t \in Attempt, NEW s,
           s = [atts EXCEPT ![a] = t]
    PROVE  /\ s \in Seq(Attempt) /\ Len(s) = Len(atts) /\ DOMAIN s = DOMAIN atts /\ s # <<>>
           /\ s[a] = t /\ \A b \in DOMAIN atts \ {a} : s[b] = atts[b]
           /\ \A i : Unreached(i) /\ Before(t, i) => \A b \in DOMAIN s : Before(s[b], i)
  <1>1. atts \in Seq(Attempt)
    BY SweepFacts
  <1>2. /\ s \in Seq(Attempt) /\ Len(s) = Len(atts) /\ DOMAIN s = DOMAIN atts
        /\ s[a] = t /\ \A b \in DOMAIN atts \ {a} : s[b] = atts[b]
    BY <1>1
  <1>3. s # <<>>
    BY <1>1, <1>2
  <1>4. ASSUME NEW i, Unreached(i), Before(t, i), NEW b \in DOMAIN s
        PROVE  Before(s[b], i)
    <2>1. CASE b = a
      BY <1>2, <1>4, <2>1
    <2>2. CASE b # a
      BY <1>2, <1>4, <2>2 DEF Unreached
    <2>. QED  BY <2>1, <2>2
  <1>. QED  BY <1>2, <1>3, <1>4

\* An attempt that is over is where it was.
LEMMA OverFacts ==
    ASSUME TypeOK, Underway, NEW a \in DOMAIN atts
    PROVE  /\ [atts[a] EXCEPT !.pc = "over"] \in Attempt
           /\ \A i : Before(atts[a], i) => Before([atts[a] EXCEPT !.pc = "over"], i)
  <1>1. PICK t \in Attempt : t = atts[a]
    BY SweepFacts
  <1>. DEFINE u == [t EXCEPT !.pc = "over"]
  <1>2. u \in Attempt /\ u.pc = "over" /\ u.latest = t.latest /\ u.after = t.after
    BY DEF Attempt
  <1>. HIDE DEF u
  <1>3. \A i : Before(t, i) => Before(u, i)
    BY <1>2 DEF Before
  <1>. QED  BY <1>1, <1>2, <1>3 DEF u

\* A retry starts after the recorded id.
LEMMA RetryFacts ==
    ASSUME TypeOK, Underway, NEW past \in Seq(Attempt), Len(past) <= Attempts, past # <<>>,
           Retried(past)
    PROVE  /\ sweep' \in Sweep /\ atts' \in Seq(Attempt) /\ Len(atts') <= Attempts /\ atts' # <<>>
           /\ \A i \in gone : Unreached(i) /\ (\A b \in DOMAIN past : Before(past[b], i)) => Unreached(i)'
  <1>1. CASE Len(past) < Attempts
    <2>. DEFINE new == NewAttempt(sweep.recorded)
    <2>1. new \in Attempt /\ new.pc = "list" /\ new.latest = sweep.recorded /\ new.after = sweep.recorded
      BY SweepFacts DEF NewAttempt, Attempt
    <2>2. atts' = Append(past, new) /\ sweep' = sweep
      BY <1>1 DEF Retried
    <2>. HIDE DEF new
    <2>3. /\ atts' \in Seq(Attempt) /\ Len(atts') = Len(past) + 1 /\ Len(past) \in Nat
          /\ \A b \in DOMAIN atts' : (b \in DOMAIN past /\ atts'[b] = past[b]) \/ atts'[b] = new
      BY <2>1, <2>2
    <2>4. ASSUME NEW i \in gone, Unreached(i), \A b \in DOMAIN past : Before(past[b], i)
          PROVE  Unreached(i)'
      <3>1. Before(new, i)
        BY <2>1, <2>4 DEF Before, Unreached
      <3>2. \A b \in DOMAIN atts' : Before(atts'[b], i)
        BY <2>3, <2>4, <3>1
      <3>. QED  BY <2>2, <2>4, <3>2 DEF Unreached, Before, Beyond, PageIds, LeftIds
    <2>5. Len(atts') <= Attempts /\ atts' # <<>>
      BY <1>1, <2>3, SweepFacts
    <2>. QED  BY <2>2, <2>3, <2>4, <2>5, SweepFacts
  <1>2. CASE ~(Len(past) < Attempts)
    <2>1. atts' = past /\ sweep' = [sweep EXCEPT !.outcome = "failed"]
      BY <1>2 DEF Retried
    <2>2. sweep' \in Sweep /\ sweep'.outcome = "failed" /\ sweep'.recorded = sweep.recorded
      BY <2>1, SweepFacts DEF Sweep
    <2>3. ASSUME NEW i \in gone, Unreached(i), \A b \in DOMAIN past : Before(past[b], i)
          PROVE  Unreached(i)'
      BY <2>1, <2>2, <2>3 DEF Unreached, Before, Beyond, PageIds, LeftIds
    <2>. QED  BY <2>1, <2>2, <2>3
  <1>. QED  BY <1>1, <1>2

\* A beat records a cursor no attempt has reached i with.
LEMMA BeatStep ==
    ASSUME TypeOK, Underway, Beat
    PROVE  SweepStep
  <1>1. atts # <<>> /\ Len(atts) \in DOMAIN atts
    BY SweepFacts DEF Beat
  <1>2. PICK n \in Nat : n = atts[Len(atts)].latest
    BY <1>1, SweepFacts
  <1>3. sweep' = [sweep EXCEPT !.recorded = n] /\ UNCHANGED <<atts, gone, skipped>>
    BY <1>2 DEF Beat
  <1>4. sweep' \in Sweep /\ sweep'.recorded = n /\ sweep'.outcome = sweep.outcome
    BY <1>3, SweepFacts DEF Sweep
  <1>5. ASSUME NEW i \in gone, Unreached(i) PROVE Unreached(i)'
    <2>1. n < i
      BY <1>1, <1>2, <1>5 DEF Unreached, Before
    <2>. QED  BY <1>3, <1>4, <1>5, <2>1 DEF Unreached, Before, Beyond, PageIds, LeftIds
  <1>. QED  BY <1>1, <1>3, <1>4, <1>5, SweepFacts DEF SweepStep, Ahead

\* The next attempt starts, beside one that runs on or not.
LEMMA TimeoutStep ==
    ASSUME TypeOK, Underway, BeatTimesOut
    PROVE  SweepStep
  <1>1. Len(atts) \in DOMAIN atts /\ atts # <<>>
    BY SweepFacts DEF BeatTimesOut
  <1>2. PICK a \in DOMAIN atts : a = Len(atts)
    BY <1>1
  <1>. DEFINE over == [atts EXCEPT ![a] = [atts[a] EXCEPT !.pc = "over"]]
  <1>3. UNCHANGED <<gone, skipped>> /\ (Retried(atts) \/ Retried(over))
    BY <1>2 DEF BeatTimesOut
  <1>4. CASE Retried(atts)
    BY <1>1, <1>3, <1>4, RetryFacts, SweepFacts DEF SweepStep, Ahead, Unreached
  <1>5. CASE Retried(over)
    <2>1. /\ over \in Seq(Attempt) /\ Len(over) = Len(atts) /\ over # <<>>
          /\ \A i : Unreached(i) => \A b \in DOMAIN over : Before(over[b], i)
      <3>1. PICK t \in Attempt : t = [atts[a] EXCEPT !.pc = "over"]
        BY OverFacts
      <3>2. \A i : Unreached(i) => Before(t, i)
        BY <3>1, OverFacts DEF Unreached
      <3>3. over = [atts EXCEPT ![a] = t]
        BY <3>1
      <3>. HIDE DEF over
      <3>. QED  BY <3>2, <3>3, AttemptFacts
    <2>. HIDE DEF over
    <2>2. /\ sweep' \in Sweep /\ atts' \in Seq(Attempt) /\ Len(atts') <= Attempts /\ atts' # <<>>
          /\ \A i \in gone : Unreached(i) => Unreached(i)'
      BY <1>5, <2>1, RetryFacts, SweepFacts
    <2>. QED  BY <1>3, <2>2, SweepFacts DEF SweepStep, Ahead
  <1>. QED  BY <1>3, <1>4, <1>5

\* An attempt fails.
LEMMA AttemptFailStep ==
    ASSUME TypeOK, Underway, NEW a \in DOMAIN atts, AttemptError(a)
    PROVE  SweepStep
  <1>. DEFINE over == [atts EXCEPT ![a] = [atts[a] EXCEPT !.pc = "over"]]
  <1>1. /\ UNCHANGED <<gone, skipped>>
        /\ Retried(over) \/ (atts' = over /\ sweep' = sweep)
    BY DEF AttemptError, AttemptFails
  <1>2. /\ over \in Seq(Attempt) /\ Len(over) = Len(atts) /\ over # <<>>
        /\ \A i : Unreached(i) => \A b \in DOMAIN over : Before(over[b], i)
    <2>1. PICK t \in Attempt : t = [atts[a] EXCEPT !.pc = "over"]
      BY OverFacts
    <2>2. \A i : Unreached(i) => Before(t, i)
      BY <2>1, OverFacts DEF Unreached
    <2>3. over = [atts EXCEPT ![a] = t]
      BY <2>1
    <2>. HIDE DEF over
    <2>. QED  BY <2>2, <2>3, AttemptFacts
  <1>. HIDE DEF over
  <1>3. CASE Retried(over)
    <2>1. /\ sweep' \in Sweep /\ atts' \in Seq(Attempt) /\ Len(atts') <= Attempts /\ atts' # <<>>
          /\ \A i \in gone : Unreached(i) => Unreached(i)'
      BY <1>2, <1>3, RetryFacts, SweepFacts
    <2>. QED  BY <1>1, <2>1, SweepFacts DEF SweepStep, Ahead
  <1>4. CASE atts' = over /\ sweep' = sweep
    <2>1. \A i \in gone : Unreached(i) => Unreached(i)'
      BY <1>2, <1>4 DEF Unreached, Before, Beyond, PageIds, LeftIds
    <2>. QED  BY <1>1, <1>2, <1>4, <2>1, SweepFacts DEF SweepStep, Ahead
  <1>. QED  BY <1>1, <1>3, <1>4

\* The end of an attempt, which ends the run if the attempt is the current one.
LEMMA EndedFacts ==
    ASSUME TypeOK, Underway, NEW a \in DOMAIN atts, Ended(a, "done")
    PROVE  sweep' \in Sweep /\ atts' \in Seq(Attempt) /\ Len(atts') <= Attempts /\ atts' # <<>>
  <1>1. PICK t \in Attempt : t = [atts[a] EXCEPT !.pc = "over"]
    BY OverFacts
  <1>2. atts' \in Seq(Attempt) /\ Len(atts') = Len(atts) /\ atts' # <<>>
    <2>1. atts' = [atts EXCEPT ![a] = t]
      BY <1>1 DEF Ended
    <2>. QED  BY <2>1, AttemptFacts
  <1>3. sweep' = sweep \/ sweep' = [sweep EXCEPT !.outcome = "done"]
    BY DEF Ended
  <1>4. sweep' \in Sweep
    BY <1>3, SweepFacts DEF Sweep
  <1>. QED  BY <1>2, <1>4, SweepFacts

\* One attempt goes on: what it has still to come to is still to come.
LEMMA GoOnFacts ==
    ASSUME TypeOK, Underway, NEW a \in DOMAIN atts, NEW t \in Attempt,
           atts' = [atts EXCEPT ![a] = t], UNCHANGED <<sweep, gone>>,
           skipped \subseteq skipped', skipped' \subseteq Ids,
           \A i \in gone \ skipped' : Ahead(i) => Before(t, i) \/ Marks(i)
    PROVE  SweepStep
  <1>1. /\ atts' \in Seq(Attempt) /\ Len(atts') = Len(atts) /\ atts' # <<>>
        /\ \A i : Unreached(i) /\ Before(t, i) => \A b \in DOMAIN atts' : Before(atts'[b], i)
    BY AttemptFacts
  <1>2. \A i : Unreached(i) /\ Before(t, i) => Unreached(i)'
    BY <1>1 DEF Unreached, Before, Beyond, PageIds, LeftIds
  <1>3. \A i \in gone \ skipped' : Ahead(i) => Unreached(i)' \/ Marks(i)
    BY <1>2 DEF Ahead
  <1>. QED  BY <1>1, <1>3, SweepFacts DEF SweepStep

\* A page of ids with the metadata of their rows.
LEMMA ListedFacts ==
    ASSUME TypeOK, NEW P \in SUBSET Ids, IsFiniteSet(P), NEW L, L = {<<i, rows[i].md>> : i \in P}
    PROVE  /\ L \in SUBSET (Ids \X Nat) /\ {r[1] : r \in L} = P
           /\ Cardinality(L) \in Nat /\ Cardinality(P) <= Cardinality(L) /\ Cardinality(P) \in Nat
  <1>1. \A i \in Ids : rows[i].md \in Nat
    BY DEF TypeOK, Row
  <1>2. L \in SUBSET (Ids \X Nat)
    BY <1>1
  <1>3. {r[1] : r \in L} = P
    <2>1. \A r \in L : \E i \in P : r = <<i, rows[i].md>> /\ r[1] = i
      OBVIOUS
    <2>2. \A i \in P : \E r \in L : r[1] = i
      <3>. TAKE i \in P
      <3>1. <<i, rows[i].md>> \in L /\ <<i, rows[i].md>>[1] = i
        OBVIOUS
      <3>. QED  BY <3>1
    <2>. QED  BY <2>1, <2>2
  <1>. DEFINE g == [i \in P |-> <<i, rows[i].md>>]
              f == [r \in L |-> r[1]]
  <1>4. g \in Surjection(P, L) /\ f \in Surjection(L, P)
    <2>1. g \in [P -> L] /\ \A r \in L : \E i \in P : g[i] = r
      OBVIOUS
    <2>2. \A r \in L : r[1] \in P
      BY <1>3
    <2>3. \A i \in P : \E r \in L : r[1] = i
      BY <1>3
    <2>4. f \in [L -> P] /\ \A i \in P : \E r \in L : f[r] = i
      BY <2>2, <2>3
    <2>. QED  BY <2>1, <2>4 DEF Surjection
  <1>5. IsFiniteSet(L)
    BY <1>4, FS_Surjection
  <1>6. Cardinality(P) <= Cardinality(L)
    BY <1>4, <1>5, FS_Surjection
  <1>. QED  BY <1>2, <1>3, <1>5, <1>6, FS_CardinalityType

\* A listing passes nothing it could list.
LEMMA ListStep ==
    ASSUME TypeOK, Underway, NEW a \in DOMAIN atts, ListPage(a)
    PROVE  SweepStep
  <1>. DEFINE S == {i \in Ids : Listable(i) /\ i > atts[a].after}
              P == FirstPage(S)
              L == {<<i, rows[i].md>> : i \in P}
  <1>1. S \in SUBSET Ids /\ S \in SUBSET Nat /\ IsFiniteSet(S)
    BY SetupFacts, FS_Subset DEF TypeOK
  <1>2. /\ P \in SUBSET Ids /\ IsFiniteSet(P) /\ (S # {} => P # {})
        /\ \A i \in S \ P : Cardinality(P) >= PageSize /\ \A j \in P : j < i
    <2>. HIDE DEF S
    <2>. QED  BY <1>1, PageFacts
  <1>3. ASSUME NEW i \in gone, Ahead(i) PROVE i \in S
    <2>1. i \in Ids /\ i \in Nat /\ atts[a].after \in Nat /\ atts[a].after < i /\ Listable(i)
      BY <1>3, SweepFacts DEF Ahead, Unreached, Before
    <2>. QED  BY <2>1
  <1>4. atts[a].pc = "list" /\ UNCHANGED <<gone, skipped>>
    BY DEF ListPage
  <1>5. CASE P = {}
    <2>1. Ended(a, "done")
      BY <1>5 DEF ListPage
    <2>2. \A i \in gone : ~Ahead(i)
      BY <1>2, <1>3, <1>5
    <2>. HIDE DEF S, P, L
    <2>. QED  BY <1>4, <2>1, <2>2, EndedFacts, SweepFacts DEF SweepStep
  <1>6. CASE P # {}
    <2>1. atts' = [atts EXCEPT ![a] = Paged(atts[a], L)] /\ UNCHANGED sweep
      BY <1>6 DEF ListPage
    <2>2. /\ L \in SUBSET (Ids \X Nat) /\ {r[1] : r \in L} = P
          /\ Cardinality(L) \in Nat /\ Cardinality(P) <= Cardinality(L) /\ Cardinality(P) \in Nat
      <3>. HIDE DEF P
      <3>. QED  BY <1>2, ListedFacts
    <2>. HIDE DEF S, P, L
    <2>3. PICK t \in Attempt : t = atts[a]
      BY SweepFacts
    <2>4. PICK u \in Attempt : /\ u = Paged(t, L) /\ u.pc = "probe" /\ u.page = L /\ u.left = L
                               /\ u.latest = t.latest /\ u.after = t.after
      <3>. DEFINE w == [t EXCEPT !.pc = "probe", !.page = L, !.left = L, !.suspects = {}]
      <3>1. /\ w \in Attempt /\ w.pc = "probe" /\ w.page = L /\ w.left = L
            /\ w.latest = t.latest /\ w.after = t.after
        BY <2>2 DEF Attempt
      <3>2. w = Paged(t, L)
        BY DEF Paged
      <3>. QED  BY <3>1, <3>2
    <2>5. ASSUME NEW i \in gone, Ahead(i) PROVE Before(u, i)
      <3>1. u.latest < i /\ u.after < i
        BY <2>3, <2>4, <2>5 DEF Ahead, Unreached, Before
      <3>2. PageIds(u) = P /\ LeftIds(u) = P
        BY <2>2, <2>4 DEF PageIds, LeftIds
      <3>3. i \in P \/ Beyond(u, i)
        BY <1>2, <1>3, <2>2, <2>4, <2>5, <3>2, SweepFacts DEF Beyond
      <3>. QED  BY <2>4, <3>1, <3>2, <3>3 DEF Before
    <2>. QED  BY <1>4, <2>1, <2>3, <2>4, <2>5, GoOnFacts, SweepFacts
  <1>. QED  BY <1>5, <1>6

\* A probe makes suspects of the ids that are gone, or they are skipped.
LEMMA ProbeStep ==
    ASSUME TypeOK, Underway, NEW a \in DOMAIN atts, Probe(a) \/ ProbeFails(a),
           \A i \in gone : ProbeVersion \notin src[i].vs
    PROVE  SweepStep
  <1>. DEFINE G == Group(a)
              left == atts[a].left \ G
  <1>1. G \in SUBSET atts[a].left
    BY DEF Group
  <1>2. G \in SUBSET (Ids \X Nat)
    BY <1>1, SweepFacts
  <1>3. PICK X \in SUBSET Ids :
          /\ ProbeNext(a, X)
          /\ \A i \in gone \ skipped' : i \in {r[1] : r \in G} => i \in X
    <2>1. CASE Probe(a)
      <3>. DEFINE X == {r[1] : r \in {q \in G : ~Finds(q[1], ProbeVersion, q[2])}}
      <3>1. X \in SUBSET Ids
        BY <1>2
      <3>2. ProbeNext(a, X)
        BY <2>1 DEF Probe
      <3>3. \A i \in gone : i \in {r[1] : r \in G} => i \in X
        BY DEF Finds
      <3>. HIDE DEF X
      <3>. QED  BY <3>1, <3>2, <3>3
    <2>2. CASE ProbeFails(a)
      <3>1. ProbeNext(a, {}) /\ skipped' = skipped \cup {r[1] : r \in G}
        BY <2>2 DEF ProbeFails
      <3>. QED  BY <3>1
    <2>. QED  BY <2>1, <2>2
  <1>4. UNCHANGED <<sweep, gone>> /\ skipped \subseteq skipped' /\ skipped' \subseteq Ids
    <2>1. CASE Probe(a)
      BY <2>1, SweepFacts DEF Probe
    <2>2. CASE ProbeFails(a)
      <3>1. skipped' = skipped \cup {r[1] : r \in G} /\ UNCHANGED <<sweep, gone>>
        BY <2>2 DEF ProbeFails
      <3>. QED  BY <1>2, <3>1, SweepFacts
    <2>. QED  BY <2>1, <2>2
  <1>5. atts[a].pc = "probe"
    BY DEF Probe, ProbeFails
  <1>. HIDE DEF G
  <1>6. PICK t \in Attempt : /\ t = atts[a] /\ t.left \in SUBSET (Ids \X Nat)
                             /\ t.suspects \in SUBSET Ids
    BY SweepFacts
  <1>7. PICK X2 \in SUBSET Ids : X2 = t.suspects \cup X
    BY <1>6
  <1>8. PICK l \in SUBSET (Ids \X Nat) : l = left
    BY <1>6
  <1>. DEFINE u == [t EXCEPT !.left = l, !.suspects = X2, !.pc = IF l = {} THEN "mark" ELSE "probe"]
  <1>9. atts' = [atts EXCEPT ![a] = u]
    BY <1>3, <1>6, <1>7, <1>8 DEF ProbeNext, G
  <1>10. /\ u \in Attempt /\ u.latest = t.latest /\ u.after = t.after /\ u.page = t.page
         /\ u.left = l /\ u.suspects = X2 /\ u.pc \in {"mark", "probe"}
         /\ u.pc = "mark" => l = {}
    BY <1>6 DEF Attempt
  <1>. HIDE DEF u
  <1>11. ASSUME NEW i \in gone \ skipped', Ahead(i) PROVE Before(u, i)
    <2>1. Before(t, i)
      BY <1>6, <1>11 DEF Ahead, Unreached
    <2>2. Beyond(t, i) => Beyond(u, i)
      BY <1>10 DEF Beyond, PageIds
    <2>3. i \in LeftIds(t) => i \in X2 \/ i \in LeftIds(u)
      <3>1. SUFFICES ASSUME i \in LeftIds(t), i \notin X2 PROVE i \in LeftIds(u)
        OBVIOUS
      <3>2. PICK r \in t.left : r[1] = i
        BY <3>1 DEF LeftIds
      <3>3. r \notin G
        BY <1>3, <1>7, <1>11, <3>1, <3>2
      <3>4. r \in u.left
        BY <1>6, <1>8, <1>10, <3>2, <3>3
      <3>. QED  BY <3>2, <3>4 DEF LeftIds
    <2>4. i \in u.suspects \cup LeftIds(u) \/ Beyond(u, i)
      BY <1>5, <1>6, <1>7, <1>10, <2>1, <2>2, <2>3 DEF Before
    <2>5. u.pc = "mark" => LeftIds(u) = {}
      BY <1>10 DEF LeftIds
    <2>. QED  BY <1>10, <2>1, <2>4, <2>5 DEF Before
  <1>. QED  BY <1>4, <1>9, <1>10, <1>11, GoOnFacts

\* A page's suspects are marked before its cursor moves or its run ends.
LEMMA MarkPageStep ==
    ASSUME TypeOK, Underway, Drawn, NEW a \in DOMAIN atts, MarkPage(a)
    PROVE  StoreStep /\ SweepStep
  <1>1. atts[a].suspects \in SUBSET Ids /\ atts[a].page \in SUBSET (Ids \X Nat) /\ PageSize \in Nat \ {0}
    BY SweepFacts
  <1>2. /\ rows' = Marked(atts[a].suspects) /\ seq' = seq + Cardinality(atts[a].suspects)
        /\ UNCHANGED <<src, exposed, docs, edges, live, fwd>> /\ UNCHANGED <<gone, skipped>> /\ atts[a].pc = "mark"
    BY DEF MarkPage, source
  <1>3. StoreStep /\ \A i \in atts[a].suspects : Marks(i)
    BY <1>1, <1>2, MarkStep
  <1>4. \A i \in gone : Ahead(i) => Marks(i) \/ Beyond(atts[a], i)
    BY <1>2, <1>3 DEF Ahead, Unreached, Before
  <1>5. CASE LastPage(a)
    <2>1. Ended(a, "done")
      BY <1>5 DEF MarkPage
    <2>2. \A i \in gone : Ahead(i) => Marks(i)
      BY <1>4, <1>5 DEF Beyond, LastPage
    <2>. QED  BY <1>2, <1>3, <2>1, <2>2, EndedFacts, SweepFacts DEF SweepStep
  <1>6. CASE ~LastPage(a)
    <2>1. PageIds(atts[a]) \in SUBSET Ids
      BY <1>1 DEF PageIds
    <2>2. PageIds(atts[a]) # {}
      <3>1. atts[a].page # {}
        BY <1>1, <1>6, FS_EmptySet DEF LastPage
      <3>. QED  BY <3>1 DEF PageIds
    <2>3. PICK last \in PageIds(atts[a]) : last = LastOf(PageIds(atts[a]))
      BY <2>1, <2>2, IdFacts DEF TypeOK
    <2>4. last \in Nat
      BY <2>1, SetupFacts DEF TypeOK
    <2>5. PICK t \in Attempt : t = atts[a]
      BY SweepFacts
    <2>. DEFINE u == [t EXCEPT !.pc = "list", !.after = last, !.latest = last]
    <2>6. atts' = [atts EXCEPT ![a] = u] /\ UNCHANGED sweep
      BY <1>6, <2>3, <2>5 DEF MarkPage, PageIds
    <2>7. u \in Attempt /\ u.pc = "list" /\ u.after = last /\ u.latest = last
      BY <2>4 DEF Attempt
    <2>. HIDE DEF u
    <2>8. \A i \in gone \ skipped' : Ahead(i) => Before(u, i) \/ Marks(i)
      BY <1>4, <2>3, <2>7 DEF Before, Beyond
    <2>9. SweepStep
      BY <1>2, <2>6, <2>7, <2>8, GoOnFacts, SweepFacts
    <2>. QED  BY <1>3, <2>9
  <1>. QED  BY <1>5, <1>6
-----------------------------------------------------------------------------
(* The steps of the probe pass *)

\* It keeps its types, and its numbers are drawn.
PassTyped == pass' \in Pass /\ \A i \in Ids : pass'.seqs[i] <= seq'

\* The pass, as far as the proofs need it.
Passing(q) == q \in Pass /\ \A i \in Ids : q.seqs[i] <= seq

\* Where a page's writes go on.
LEMMA PageStepFacts ==
    ASSUME TypeOK, NEW q, Passing(q)
    PROVE  Passing(PageStep(q)) /\ Passing(PageDone(q)) /\ Passing(VersionDone(q))
  <1>1. seq \in Nat
    BY DEF TypeOK
  <1>2. ASSUME NEW p, Passing(p) PROVE Passing(VersionDone(p))
    <2>1. VersionDone(p) \in Pass /\ VersionDone(p).seqs = p.seqs
      BY <1>2 DEF VersionDone, Passing, Pass
    <2>. QED  BY <1>2, <2>1 DEF Passing
  <1>3. ASSUME NEW p, Passing(p) PROVE Passing(PageDone(p))
    <2>1. CASE Cardinality(p.page) < PageSize
      BY <1>2, <1>3, <2>1 DEF PageDone
    <2>2. CASE ~(Cardinality(p.page) < PageSize)
      <3>1. p \in Pass /\ p.page \in SUBSET Ids
        BY <1>3 DEF Passing, Pass
      <3>2. p.page # {}
        BY <2>2, FS_EmptySet, AuditAssumption
      <3>3. PICK n \in Nat : n = LastOf(p.page)
        BY <3>1, <3>2, IdFacts DEF TypeOK
      <3>4. PageDone(p) = [p EXCEPT !.pc = "list", !.after = n, !.page = {}]
        BY <2>2, <3>3 DEF PageDone
      <3>5. PageDone(p) \in Pass /\ PageDone(p).seqs = p.seqs
        BY <3>1, <3>4 DEF Pass
      <3>. QED  BY <1>3, <3>5 DEF Passing
    <2>. QED  BY <2>1, <2>2
  <1>4. Passing(PageStep(q))
    <2>1. Passing([q EXCEPT !.pc = "delete"]) /\ Passing([q EXCEPT !.pc = "mark"])
      BY DEF Passing, Pass
    <2>2. Passing([q EXCEPT !.seqs = NoSeqs])
      <3>1. NoSeqs \in [Ids -> Nat] /\ \A i \in Ids : NoSeqs[i] = 0
        BY DEF NoSeqs
      <3>. QED  BY <1>1, <3>1 DEF Passing, Pass
    <2>3. Passing(PageDone([q EXCEPT !.seqs = NoSeqs]))
      BY <1>3, <2>2
    <2>. QED  BY <2>1, <2>3 DEF PageStep
  <1>. QED  BY <1>2, <1>3, <1>4

\* A new pass.
LEMMA NewPassFacts ==
    ASSUME used \in Used, seq \in Nat
    PROVE  Passing(NewPass) /\ Passing([NewPass EXCEPT !.pc = "failed"])
  <1>1. Setup.pass \subseteq Versions
    BY SetupFacts
  <1>2. NoSeqs \in [Ids -> Nat] /\ \A i \in Ids : NoSeqs[i] = 0
    BY DEF NoSeqs
  <1>3. NewPass \in Pass /\ NewPass.seqs = NoSeqs
    BY <1>1, <1>2 DEF NewPass, Pass
  <1>4. Passing(NewPass)
    BY <1>2, <1>3 DEF Passing
  <1>. QED  BY <1>4 DEF Passing, Pass

\* The types of the pass.
LEMMA PassFacts ==
    ASSUME TypeOK, Drawn
    PROVE  Passing(pass) /\ pass \in Pass /\ pass.seqs \in [Ids -> Nat]
  BY DEF TypeOK, Drawn, Passing, Pass

\* Steps of others.
LEMMA StandStep ==
    ASSUME TypeOK, Drawn, UNCHANGED pass, seq' \in Nat, seq' >= seq
    PROVE  PassTyped
  <1>1. \A i \in Ids : pass.seqs[i] \in Nat /\ pass.seqs[i] <= seq /\ seq \in Nat
    BY PassFacts, StoreFacts DEF Passing
  <1>2. \A i \in Ids : pass.seqs[i] <= seq'
    BY <1>1
  <1>. QED  BY <1>2, PassFacts DEF PassTyped

\* Steps of the pass that draw no number.
LEMMA PassingStep ==
    ASSUME TypeOK, Drawn, seq' \in Nat, seq' >= seq, Passing(pass')
    PROVE  PassTyped
  <1>1. \A i \in Ids : pass'.seqs[i] \in Nat /\ pass'.seqs[i] <= seq /\ seq \in Nat
    BY StoreFacts DEF Passing, Pass
  <1>2. \A i \in Ids : pass'.seqs[i] <= seq'
    BY <1>1
  <1>. QED  BY <1>2, PassFacts DEF PassTyped, Passing

\* The page is begun at numbers that are drawn.
LEMMA BeginPageTyped ==
    ASSUME TypeOK, Drawn, BeginPage
    PROVE  PassTyped
  <1>. DEFINE begun == {i \in pass.page : Begins(i)}
              asked == {i \in pass.page : Asks(i)}
              seqs == [i \in Ids |-> IF i \in asked THEN seq + Nth(begun, i) ELSE 0]
  <1>1. begun \in SUBSET Ids /\ asked \subseteq begun
    BY PassFacts DEF Pass, Asks
  <1>2. seq \in Nat /\ Cardinality(begun) \in Nat /\ \A i \in begun : Nth(begun, i) \in 1 .. Cardinality(begun)
    BY <1>1, IdFacts, StoreFacts
  <1>3. seq' = seq + Cardinality(begun)
    BY DEF BeginPage
  <1>. HIDE DEF begun
  <1>4. seq' \in Nat /\ seq' >= seq
    BY <1>2, <1>3
  <1>5. CASE asked = {}
    <2>1. pass' = PageDone(pass)
      BY <1>5 DEF BeginPage, begun
    <2>. QED  BY <1>3, <1>4, <2>1, PageStepFacts, PassingStep, PassFacts
  <1>6. CASE asked # {}
    <2>1. pass' = [pass EXCEPT !.pc = "probe", !.seqs = seqs]
      BY <1>6 DEF BeginPage, begun
    <2>2. \A i \in Ids : seqs[i] \in Nat /\ seqs[i] <= seq'
      BY <1>1, <1>2, <1>3, <1>4
    <2>3. seqs \in [Ids -> Nat]
      BY <2>2
    <2>. HIDE DEF seqs
    <2>4. pass' \in Pass /\ pass'.seqs = seqs
      BY <2>1, <2>3, PassFacts DEF Pass
    <2>. QED  BY <1>3, <2>2, <2>4, PassFacts DEF PassTyped
  <1>. QED  BY <1>5, <1>6

\* The other steps of the pass.
LEMMA PassStepTyped ==
    ASSUME TypeOK, Drawn, seq' \in Nat, seq' >= seq,
           \/ ListUncovered \/ ProbePage \/ DeleteExcluded \/ EmptyEdges \/ MarkReturned
           \/ ProbePageFails \/ ExcludedFails \/ MarkReturnedFails \/ PassEnds
    PROVE  PassTyped
  <1>0. Passing(pass) /\ pass \in Pass /\ pass.page \in SUBSET Ids /\ pass.todo \in SUBSET Ids
    BY PassFacts DEF Pass
  <1>. SUFFICES Passing(pass')
    BY PassingStep
  <1>1. CASE ListUncovered
    <2>1. PICK S \in SUBSET Ids : pass' = VersionDone(pass) \/ pass' = [pass EXCEPT !.pc = "begin", !.page = S]
      <3>. DEFINE S == {i \in Ids : /\ Listable(i) /\ i > pass.after
                                    /\ rows[i].md = Setup.md /\ Uncovered(i, PassVersion)}
      <3>1. FirstPage(S) \in SUBSET Ids
        BY DEF FirstPage
      <3>2. pass' = VersionDone(pass) \/ pass' = [pass EXCEPT !.pc = "begin", !.page = FirstPage(S)]
        BY <1>1 DEF ListUncovered
      <3>. HIDE DEF S
      <3>. QED  BY <3>1, <3>2
    <2>2. [pass EXCEPT !.pc = "begin", !.page = S] \in Pass
          /\ [pass EXCEPT !.pc = "begin", !.page = S].seqs = pass.seqs
      BY <1>0 DEF Pass
    <2>3. Passing([pass EXCEPT !.pc = "begin", !.page = S])
      BY <1>0, <2>2 DEF Passing
    <2>. QED  BY <1>0, <1>1, <2>1, <2>3, PageStepFacts DEF ListUncovered
  <1>2. CASE ProbePage
    <2>. DEFINE asked == {i \in Ids : pass.seqs[i] # 0}
                found == {i \in asked : Finds(i, PassVersion, Setup.md)}
    <2>1. PICK S \in SUBSET Ids, T \in SUBSET Ids :
            pass' = PageStep([pass EXCEPT !.todo = S, !.returned = T])
      <3>1. asked \ found \in SUBSET Ids /\ found \in SUBSET Ids
        OBVIOUS
      <3>2. pass' = PageStep([pass EXCEPT !.todo = asked \ found, !.returned = found])
        BY <1>2 DEF ProbePage
      <3>. HIDE DEF asked, found
      <3>. QED  BY <3>1, <3>2
    <2>2. Passing([pass EXCEPT !.todo = S, !.returned = T])
      BY <1>0 DEF Passing, Pass
    <2>. QED  BY <1>2, <2>1, <2>2, PageStepFacts DEF ProbePage
  <1>3. CASE DeleteExcluded
    <2>1. Passing([pass EXCEPT !.pc = "edges"])
      BY <1>0 DEF Passing, Pass
    <2>. QED  BY <1>3, <2>1 DEF DeleteExcluded
  <1>4. CASE EmptyEdges \/ ExcludedFails
    <2>1. PICK S \in SUBSET Ids : S = pass.todo \ {Excluded}
      BY <1>0
    <2>2. Passing([pass EXCEPT !.todo = S])
      BY <1>0 DEF Passing, Pass
    <2>. QED  BY <1>4, <2>1, <2>2, PageStepFacts DEF EmptyEdges, ExcludedFails
  <1>5. CASE MarkReturned \/ MarkReturnedFails
    <2>1. Passing([pass EXCEPT !.returned = {}])
      BY <1>0 DEF Passing, Pass
    <2>. QED  BY <1>5, <2>1, PageStepFacts DEF MarkReturned, MarkReturnedFails
  <1>6. CASE ProbePageFails
    BY <1>0, <1>6, PageStepFacts DEF ProbePageFails
  <1>7. CASE PassEnds
    BY <1>7, NewPassFacts, StoreFacts DEF PassEnds
  <1>. QED  BY <1>1, <1>2, <1>3, <1>4, <1>5, <1>6, <1>7

-----------------------------------------------------------------------------
(* The invariant is kept *)

\* What every step but a change of the source and the start of a run is made
\* of.  A change that is no longer waiting to be registered has been.
Parts ==
    /\ StoreStep /\ SweepStep /\ PassTyped
    /\ src' = src /\ notices' \subseteq notices /\ unheard' = unheard
    /\ \A i \in notices \ notices' : Registers(i)

\* An id that is heard of was heard of before, or has just been registered.
LEMMA HeardStep ==
    ASSUME Parts, NEW i \in Ids, Heard(i)'
    PROVE  Heard(i) \/ Registers(i)
  <1>1. Affects(i) /\ i \notin notices' /\ i \notin unheard' /\ i \notin exposed'
    BY DEF Parts, StoreStep, Heard
  <1>2. i \in exposed => Registers(i)
    BY <1>1 DEF Affects
  <1>. QED  BY <1>1, <1>2 DEF Parts, Heard

\* They keep the types, and what is stored is drawn.
LEMMA TypeStep ==
    ASSUME BaseInv, Fixed, Parts
    PROVE  TypeOK' /\ Underway' /\ Drawn'
  <1>0. TypeOK
    BY DEF BaseInv
  <1>1. TypeOK'
    <2>1. gone' \subseteq Ids /\ skipped' \subseteq Ids /\ notices' \subseteq Ids /\ unheard' \subseteq Ids
      BY <1>0 DEF SweepStep, TypeOK, Parts
    <2>2. src' \in [Ids -> [vs : SUBSET Versions, md : Nat, n : Nat]]
      BY <1>0 DEF TypeOK, Parts
    <2>3. used' \in Used
      BY DEF Fixed
    <2>4. exposed' \subseteq Ids /\ fwd' \in Fwd /\ pass' \in Pass
      BY DEF Parts, StoreStep, Stored, Walked, PassTyped
    <2>5. /\ seq' \in Nat /\ rows' \in [Ids -> Row] /\ docs' \in [Ids -> [Versions -> Doc]]
          /\ edges' \in [Ids -> [Versions -> EdgeSet]] /\ live' \in [Ids -> Live]
          /\ sweep' \in Sweep /\ atts' \in Seq(Attempt) /\ Len(atts') <= Attempts
      BY DEF Parts, StoreStep, Stored, SweepStep
    <2>. QED  BY <2>1, <2>2, <2>3, <2>4, <2>5 DEF TypeOK, Fixed, Doc, EdgeSet
  <1>2. Underway'
    BY DEF Parts, Underway, SweepStep, StoreStep, Walked, Held, Fixed
  <1>3. Drawn'
    <2>1. seq' >= 1 /\ fwd'.start <= seq'
      <3>1. seq \in Nat /\ seq >= 1
        BY <1>0 DEF BaseInv, Drawn, TypeOK
      <3>2. seq' \in Nat /\ seq' >= seq /\ fwd'.start <= seq'
        BY DEF Parts, StoreStep, Stored, Walked
      <3>. QED  BY <3>1, <3>2
    <2>. QED  BY <2>1 DEF Parts, Drawn, StoreStep, Stored, Walked, PassTyped, Held, Fixed
  <1>. QED  BY <1>1, <1>2, <1>3

\* They keep the invariant.
LEMMA InvStep ==
    ASSUME AuditInv, Fixed, Parts
    PROVE  AuditInv'
  <1>0. BaseInv /\ Swept /\ Buries
    BY DEF AuditInv
  <1>1. TypeOK' /\ Underway' /\ Drawn'
    BY <1>0, TypeStep
  <1>2. \A i \in Ids : Affects(i)
    BY DEF Parts, StoreStep
  <1>3. BaseInv'
    <2>1. \A i \in Ids : Ordered(i)' /\ HandOrdered(i)'
      BY <1>0, <1>1, <1>2, OrderedStep, HandOrderedStep
    <2>2. Ids' = Ids
      BY DEF Fixed
    <2>. QED  BY <1>1, <2>1, <2>2 DEF BaseInv
  <1>4. ASSUME NEW i \in gone'
        PROVE  /\ ProbeVersion' \notin src'[i].vs /\ Fresh(i)'
               /\ i \notin skipped' => Ahead(i)' \/ Kept(i)'
    <2>1. i \in gone /\ i \in Ids
      BY <1>0, <1>4 DEF Parts, SweepStep, BaseInv, TypeOK
    <2>2. ProbeVersion' \notin src'[i].vs
      BY <1>0, <2>1 DEF Swept, Fixed, Parts
    <2>3. Fresh(i) /\ Fresh(i)'
      BY <1>0, <1>1, <1>2, <2>1, FreshStep DEF Swept
    <2>4. /\ Kept(i) \/ Marks(i) => Kept(i)'
          /\ Listable(i) => Listable(i)' \/ Kept(i)'
      BY <1>0, <1>1, <1>2, <1>4, <2>1, <2>3, KeptStep
    <2>5. ASSUME i \notin skipped' PROVE Ahead(i)' \/ Kept(i)'
      <3>1. Ahead(i) \/ Kept(i)
        BY <1>0, <2>1, <2>5 DEF Swept, SweepStep, Parts
      <3>2. Ahead(i) => Listable(i) /\ (Unreached(i)' \/ Marks(i))
        BY <2>1, <2>5 DEF SweepStep, Ahead, Parts
      <3>. QED  BY <2>4, <3>1, <3>2 DEF Ahead
    <2>. QED  BY <2>2, <2>3, <2>5
  <1>5. Swept'
    BY <1>4 DEF Swept
  <1>6. ASSUME NEW i \in Ids, src[i].vs = {}, Heard(i)'
        PROVE  Buried(i)'
    <2>1. Heard(i) \/ Registers(i)
      BY <1>6, HeardStep
    <2>2. Buried(i) \/ Registers(i)
      BY <1>0, <1>6, <2>1 DEF Buries
    <2>. QED  BY <1>0, <1>1, <1>2, <1>6, <2>2, BuriedStep
  <1>7. Buries'
    BY <1>6 DEF Buries, Fixed, Parts
  <1>. QED  BY <1>3, <1>5, <1>7 DEF AuditInv

\* What a change leaves as it was.
LEMMA ChangeFacts ==
    ASSUME TypeOK, NEW i \in Ids, Change(i)
    PROVE  /\ UNCHANGED <<seq, exposed, rows, docs, edges, live, sweep, atts, skipped, pass, fwd>>
           /\ gone' = gone \ {i} /\ i \in notices' \cup unheard'
           /\ \A j \in Ids \ {i} : j \in notices \cup unheard => j \in notices' \cup unheard'
           /\ notices' \subseteq notices \cup {i} /\ unheard' \subseteq unheard \cup {i}
           /\ src' \in [Ids -> Sources] /\ src'[i].md \in Setup.mds
           /\ \A j \in Ids \ {i} : src'[j] = src[j]
  <1>1. /\ UNCHANGED <<seq, exposed, rows, docs, edges, live, sweep, atts, skipped, pass, fwd>>
        /\ gone' = gone \ {i} /\ i \in notices' \cup unheard'
        /\ \A j \in Ids \ {i} : j \in notices \cup unheard => j \in notices' \cup unheard'
        /\ notices' \subseteq notices \cup {i} /\ unheard' \subseteq unheard \cup {i}
    BY DEF Change, store
  <1>2. PICK vs \in Setup.existences, md \in Setup.mds :
          src' = [src EXCEPT ![i] = [vs |-> vs, md |-> md, n |-> src[i].n + 1]]
    BY DEF Change
  <1>3. vs \in SUBSET Versions /\ md \in Nat
    BY SetupFacts DEF TypeOK
  <1>4. src \in [Ids -> Sources]
    BY DEF TypeOK, Sources
  <1>5. PICK n \in Nat : n = src[i].n + 1
    BY <1>4 DEF Sources
  <1>6. [vs |-> vs, md |-> md, n |-> n] \in Sources
    BY <1>3 DEF Sources
  <1>. QED  BY <1>1, <1>2, <1>4, <1>5, <1>6

\* A change is waited for or lost, and the sweep does not answer for its id.
LEMMA ChangeInv ==
    ASSUME AuditInv, Fixed, NEW i \in Ids, Change(i)
    PROVE  AuditInv'
  <1>0. TypeOK /\ BaseInv /\ Swept /\ Buries
    BY DEF AuditInv, BaseInv
  <1>1. /\ UNCHANGED <<seq, exposed, rows, docs, edges, live, sweep, atts, skipped, pass, fwd>>
        /\ gone' = gone \ {i} /\ i \in notices' \cup unheard'
        /\ \A j \in Ids \ {i} : j \in notices \cup unheard => j \in notices' \cup unheard'
        /\ notices' \subseteq notices \cup {i} /\ unheard' \subseteq unheard \cup {i}
        /\ src' \in [Ids -> Sources] /\ src'[i].md \in Setup.mds
        /\ \A j \in Ids \ {i} : src'[j] = src[j]
    BY <1>0, ChangeFacts
  <1>2. /\ used' \in Used /\ Setup' = Setup /\ Ids' = Ids /\ Versions' = Versions
        /\ NoLive' = NoLive /\ ProbeVersion' = ProbeVersion
    BY DEF Fixed
  <1>5. TypeOK'
    <2>1. notices' \subseteq Ids /\ unheard' \subseteq Ids /\ gone' \subseteq Ids /\ exposed' \subseteq Ids
      BY <1>0, <1>1 DEF TypeOK
    <2>. QED  BY <1>0, <1>1, <1>2, <2>1 DEF TypeOK, Fixed, Sources
  <1>6. Underway' /\ Drawn'
    BY <1>0, <1>1 DEF BaseInv, Underway, Drawn, Fixed, Held
  <1>7. ASSUME NEW j \in Ids PROVE Ordered(j)' /\ HandOrdered(j)'
    <2>1. Ordered(j) /\ HandOrdered(j) /\ Held(j)' = Held(j)
      BY <1>0, <1>1 DEF BaseInv, Held
    <2>2. src'[j].md \in Setup.mds
      BY <1>1, <2>1 DEF Ordered
    <2>3. (Serving(j)' <=> Serving(j)) /\ (Turns(j)' <=> Turns(j)) /\ (Clean(j)' <=> Clean(j))
          /\ (InWork(j)' <=> InWork(j))
      BY <1>1, <1>2, <2>1 DEF Serving, Turns, Clean, InWork, Nothing
    <2>4. Ordered(j)'
      BY <1>1, <1>2, <2>1, <2>2, <2>3 DEF Ordered
    <2>5. HandOrdered(j)'
      BY <1>1, <1>2, <2>1, <2>3 DEF HandOrdered
    <2>. QED  BY <2>4, <2>5
  <1>8. ASSUME NEW j \in Ids \ {i}
        PROVE  /\ (Kept(j) => Kept(j)') /\ (Ahead(j) => Ahead(j)') /\ (Buried(j) => Buried(j)')
               /\ Fresh(j) => Fresh(j)'
    <2>1. src'[j] = src[j] /\ Held(j)' = Held(j)
      BY <1>1 DEF Held
    <2>2. /\ (Listable(j)' <=> Listable(j)) /\ (Guarded(j)' <=> Guarded(j))
          /\ (HandGuarded(j)' <=> HandGuarded(j)) /\ (Known(j)' <=> Known(j)) /\ (Drifted(j)' <=> Drifted(j))
      BY <1>1, <1>2, <2>1 DEF Listable, Guarded, HandGuarded, Known, Drifted
    <2>3. \A v \in Versions : Outcome(j, v)' = Outcome(j, v) /\ HandOutcome(j, v)' = HandOutcome(j, v)
      BY <1>1, <2>1 DEF Outcome, HandOutcome
    <2>4. Ahead(j) => Ahead(j)'
      BY <1>1, <2>2 DEF Ahead, Unreached, Before, Beyond, PageIds, LeftIds
    <2>5. Kept(j) => Kept(j)'
      BY <1>1, <1>2, <2>1, <2>2, <2>3 DEF Kept
    <2>6. Buried(j) => Buried(j)'
      BY <1>1, <1>2, <2>1, <2>2 DEF Buried
    <2>7. Fresh(j) => Fresh(j)'
      BY <1>2, <2>1 DEF Fresh
    <2>. QED  BY <2>4, <2>5, <2>6, <2>7
  <1>9. Swept'
    <2>1. \A j \in gone' : j \in gone /\ j \in Ids \ {i}
      BY <1>0, <1>1 DEF TypeOK
    <2>2. ASSUME NEW j \in gone'
          PROVE  /\ ProbeVersion' \notin src'[j].vs /\ Fresh(j)'
                 /\ j \notin skipped' => Ahead(j)' \/ Kept(j)'
      BY <1>0, <1>1, <1>2, <1>8, <2>1, <2>2 DEF Swept
    <2>. QED  BY <2>2 DEF Swept
  <1>10. Buries'
    <2>1. ASSUME NEW j \in Ids, src'[j].vs = {}, Heard(j)' PROVE Buried(j)'
      <3>1. j \in Ids \ {i} /\ Heard(j)
        BY <1>1, <2>1 DEF Heard
      <3>. QED  BY <1>0, <1>1, <1>8, <2>1, <3>1 DEF Buries
    <2>. QED  BY <1>2, <2>1 DEF Buries
  <1>. QED  BY <1>2, <1>5, <1>6, <1>7, <1>9, <1>10 DEF AuditInv, BaseInv

\* A run starts with everything ahead of it.
LEMMA StartInv ==
    ASSUME AuditInv, Fixed, StartRun
    PROVE  AuditInv'
  <1>0. TypeOK /\ Underway /\ Drawn /\ BaseInv /\ Buries
    BY DEF AuditInv, BaseInv
  <1>1. /\ UNCHANGED <<seq, src, notices, unheard, exposed, rows, docs, edges, live, pass, fwd>>
        /\ gone' = {i \in Ids : /\ Listable(i) /\ ProbeVersion \notin src[i].vs
                                /\ ~(Outdated(i) /\ fwd.hand[i].pc = "fetched")}
        /\ skipped' = {} /\ atts' = <<NewAttempt(0)>>
        /\ sweep' = [runs |-> IF Setup.runs = Forever THEN 0 ELSE sweep.runs + 1,
                     outcome |-> "running", recorded |-> 0]
    BY DEF StartRun, source, store
  <1>2. PICK t \in Attempt : t = NewAttempt(0) /\ t.pc = "list" /\ t.latest = 0 /\ t.after = 0
    <2>1. /\ NewAttempt(0) \in Attempt /\ NewAttempt(0).pc = "list"
          /\ NewAttempt(0).latest = 0 /\ NewAttempt(0).after = 0
      BY DEF NewAttempt, Attempt
    <2>. QED  BY <2>1
  <1>3. atts' \in Seq(Attempt) /\ Len(atts') = 1 /\ \A a \in DOMAIN atts' : atts'[a] = t
    BY <1>1, <1>2
  <1>4. sweep' \in Sweep /\ sweep'.outcome = "running" /\ sweep'.recorded = 0
    <2>1. sweep.runs \in Nat
      BY <1>0 DEF TypeOK, Sweep
    <2>2. PICK n \in Nat : n = IF Setup.runs = Forever THEN 0 ELSE sweep.runs + 1
      BY <2>1
    <2>3. sweep' = [runs |-> n, outcome |-> "running", recorded |-> 0]
      BY <1>1, <2>2
    <2>. QED  BY <2>3 DEF Sweep
  <1>5. TypeOK'
    <2>1. gone' \subseteq Ids /\ skipped' \subseteq Ids /\ used' \in Used
      BY <1>1 DEF Fixed
    <2>2. Len(atts') <= Attempts
      BY <1>3, AuditAssumption
    <2>. QED  BY <1>0, <1>1, <1>3, <1>4, <2>1, <2>2 DEF TypeOK, Fixed
  <1>6. BaseInv'
    <2>1. atts' # <<>> /\ Ids' = Ids /\ Versions' = Versions /\ Setup' = Setup /\ NoLive' = NoLive
          /\ NoHands' = NoHands
      <3>1. atts' # <<>>
        BY <1>1, <1>3
      <3>. QED  BY <3>1 DEF Fixed
    <2>2. Underway'
      BY <1>0, <1>1, <2>1 DEF Underway, Held
    <2>3. Drawn'
      BY <1>0, <1>1, <2>1 DEF Drawn, Held
    <2>4. ASSUME NEW j \in Ids PROVE Ordered(j)' /\ HandOrdered(j)'
      <3>1. Ordered(j) /\ HandOrdered(j) /\ Held(j)' = Held(j)
        BY <1>0, <1>1 DEF BaseInv, Held
      <3>2. /\ (Serving(j)' <=> Serving(j)) /\ (Turns(j)' <=> Turns(j)) /\ (Clean(j)' <=> Clean(j))
            /\ (InWork(j)' <=> InWork(j))
        BY <1>1, <2>1, <3>1 DEF Serving, Turns, Clean, InWork, Nothing
      <3>3. Ordered(j)'
        BY <1>1, <2>1, <3>1, <3>2 DEF Ordered
      <3>4. HandOrdered(j)'
        BY <1>1, <2>1, <3>1, <3>2 DEF HandOrdered
      <3>. QED  BY <3>3, <3>4
    <2>. QED  BY <1>5, <2>1, <2>2, <2>3, <2>4 DEF BaseInv
  <1>7. ASSUME NEW i \in gone' PROVE ProbeVersion' \notin src'[i].vs /\ Fresh(i)' /\ Ahead(i)'
    <2>1. /\ i \in Ids /\ Listable(i) /\ ProbeVersion \notin src[i].vs /\ i \in Nat \ {0}
          /\ ~(Outdated(i) /\ Held(i).pc = "fetched")
      BY <1>0, <1>1, <1>7, SetupFacts DEF TypeOK, Held
    <2>2. Listable(i)'
      BY <1>1, <2>1 DEF Listable
    <2>3. \A a \in DOMAIN atts' : Before(atts'[a], i)
      BY <1>2, <1>3, <2>1 DEF Before
    <2>4. Unreached(i)'
      BY <1>4, <2>1, <2>3 DEF Unreached, Before, Beyond, PageIds, LeftIds
    <2>5. Fresh(i)
      <3>1. HandOrdered(i)
        BY <1>0, <2>1 DEF BaseInv
      <3>2. CASE Held(i).pc = "fetched"
        BY <1>0, <2>1, <3>1, <3>2, CurrentHand DEF Fresh
      <3>. QED  BY <3>2 DEF Fresh
    <2>6. Fresh(i)'
      BY <1>1, <2>5 DEF Fresh, Held, Fixed
    <2>. QED  BY <1>1, <2>1, <2>2, <2>4, <2>6 DEF Ahead, Fixed
  <1>8. Swept'
    BY <1>7 DEF Swept
  <1>9. Buries'
    <2>1. ASSUME NEW i \in Ids, Buried(i) PROVE Buried(i)'
      BY <1>1, <2>1 DEF Buried, Guarded, Fixed, Held, Drifted
    <2>. QED  BY <1>0, <1>1, <2>1 DEF Buries, Heard, Fixed
  <1>. QED  BY <1>6, <1>8, <1>9 DEF AuditInv

\* Every step is a change of the source, the start of a run, or has the parts.
LEMMA StepParts ==
    ASSUME AuditInv, PassShape, [Next]_vars
    PROVE  Parts \/ StartRun \/ \E i \in Ids : Change(i)
  <1>0. TypeOK /\ Underway /\ Drawn /\ seq \in Nat /\ \A i \in gone : ProbeVersion \notin src[i].vs
    BY DEF AuditInv, BaseInv, Swept, TypeOK
  <1>1. ASSUME StoreStep, SweepStep, PassTyped, UNCHANGED <<src, notices, unheard>>
        PROVE  Parts
    BY <1>1 DEF Parts
  <1>2. ASSUME StoreStep, UNCHANGED <<sweep, atts, skipped>>, gone' \subseteq gone, PassTyped,
               UNCHANGED <<src, notices, unheard>>
        PROVE  Parts
    BY <1>0, <1>1, <1>2, OtherStep
  <1>3. ASSUME StoreStep PROVE seq' \in Nat /\ seq' >= seq
    BY <1>3 DEF StoreStep, Stored
  <1>4. ASSUME NEW i \in Ids, Register(i) \/ BuildStep(i) \/ BuildFails(i)
        PROVE  Parts
    <2>1. CASE Register(i)
      <3>1. StoreStep /\ Registers(i)
        BY <1>0, <2>1, RegisterStep
      <3>2. UNCHANGED <<sweep, atts, skipped, gone, pass, src, unheard>> /\ notices' = notices \ {i}
        BY <2>1 DEF Register, sweeping
      <3>3. SweepStep /\ PassTyped
        BY <1>0, <1>3, <3>1, <3>2, OtherStep, StandStep
      <3>. QED  BY <3>1, <3>2, <3>3 DEF Parts
    <2>2. CASE BuildBegins(i) \/ BuildFails(i)
      <3>1. StoreStep
        BY <1>0, <2>2, BeginStep, FailStep
      <3>2. UNCHANGED <<sweep, atts, skipped, gone, pass, src, notices, unheard>>
        BY <2>2 DEF BuildBegins, BuildFails, sweeping, source
      <3>. QED  BY <1>0, <1>2, <1>3, <3>1, <3>2, StandStep
    <2>3. CASE BuildEnds(i)
      <3>1. StoreStep
        BY <1>0, <2>3, EndStep
      <3>2. UNCHANGED <<sweep, atts, skipped, pass, src, notices, unheard>> /\ gone' \subseteq gone
        BY <2>3 DEF BuildEnds
      <3>. QED  BY <1>0, <1>2, <1>3, <3>1, <3>2, StandStep
    <2>. QED  BY <1>4, <2>1, <2>2, <2>3 DEF BuildStep
  <1>5. CASE Beat \/ BeatTimesOut
    <2>1. UNCHANGED <<seq, src, notices, unheard, exposed, rows, docs, edges, live, pass, fwd>>
      BY <1>5 DEF Beat, BeatTimesOut, source, store
    <2>2. StoreStep /\ SweepStep
      BY <1>0, <1>5, <2>1, QuietStep, BeatStep, TimeoutStep
    <2>. QED  BY <1>0, <1>1, <1>3, <2>1, <2>2, StandStep
  <1>6. ASSUME NEW a \in DOMAIN atts, AttemptStep(a) \/ AttemptError(a)
        PROVE  Parts
    <2>1. UNCHANGED <<src, notices, unheard, pass>>
      BY <1>6 DEF AttemptStep, ListPage, Probe, ProbeFails, MarkPage, AttemptError, source
    <2>2. StoreStep /\ SweepStep
      <3>1. CASE MarkPage(a)
        BY <1>0, <3>1, MarkPageStep
      <3>2. CASE ListPage(a) \/ Probe(a) \/ ProbeFails(a) \/ AttemptError(a)
        <4>1. UNCHANGED <<seq, src, exposed, rows, docs, edges, live, fwd>>
          BY <3>2 DEF ListPage, Probe, ProbeFails, AttemptError, source, store
        <4>. QED  BY <1>0, <3>2, <4>1, QuietStep, ListStep, ProbeStep, AttemptFailStep
      <3>. QED  BY <1>6, <3>1, <3>2 DEF AttemptStep
    <2>. QED  BY <1>0, <1>1, <1>3, <2>1, <2>2, StandStep
  <1>7. CASE PassStep
    <2>1. UNCHANGED <<sweep, atts, skipped, gone, src, notices, unheard>>
      BY <1>7 DEF PassStep, ListUncovered, BeginPage, ProbePage, DeleteExcluded, EmptyEdges, sweeping,
                  MarkReturned, ProbePageFails, ExcludedFails, MarkReturnedFails, PassEnds, source
    <2>2. StoreStep
      <3>1. CASE BeginPage \/ DeleteExcluded \/ EmptyEdges
        BY <1>0, <3>1, BeginPageStep, DeleteStep, EdgesStep
      <3>2. CASE MarkReturned
        <4>1. pass.returned \in SUBSET Ids
          BY <1>0 DEF TypeOK, Pass
        <4>2. /\ rows' = Marked(pass.returned) /\ seq' = seq + Cardinality(pass.returned)
              /\ UNCHANGED <<src, exposed, docs, edges, live, fwd>>
          BY <3>2 DEF MarkReturned, source
        <4>. QED  BY <1>0, <4>1, <4>2, MarkStep
      <3>3. CASE \/ ListUncovered \/ ProbePage \/ ProbePageFails \/ ExcludedFails
                 \/ MarkReturnedFails \/ PassEnds
        <4>1. UNCHANGED <<seq, src, exposed, rows, docs, edges, live, fwd>>
          BY <3>3 DEF ListUncovered, ProbePage, ProbePageFails, ExcludedFails, MarkReturnedFails,
                      PassEnds, source, store
        <4>. QED  BY <1>0, <4>1, QuietStep
      <3>. QED  BY <1>7, <3>1, <3>2, <3>3 DEF PassStep
    <2>3. PassTyped
      <3>1. CASE BeginPage
        BY <1>0, <3>1, BeginPageTyped
      <3>2. CASE ~BeginPage
        BY <1>0, <1>3, <1>7, <2>2, <3>2, PassStepTyped DEF PassStep
      <3>. QED  BY <3>1, <3>2
    <2>. QED  BY <1>2, <2>1, <2>2, <2>3
  <1>8. CASE FwdStep
    <2>1. UNCHANGED <<sweep, atts, skipped, gone, src, notices, unheard, pass>>
      BY <1>8 DEF FwdStep, StartWalk, WalkEnds, WalkFails, WalksDone, WalkId, WalkFetches, WalkBegins,
                  WalkWrites, WalkSettles, WalkRemarks, WalkMarks, sweeping, source
    <2>2. StoreStep
      <3>1. ASSUME NEW i \in Ids, WalkId(i) PROVE StoreStep
        BY <1>0, <3>1, FetchStep, StartStep, PutStep, SettleStep, WalkMarkStep DEF WalkId
      <3>2. CASE StartWalk \/ WalkEnds \/ WalkFails \/ WalksDone
        BY <1>0, <3>2, BetweenStep, WalkFailStep
      <3>. QED  BY <1>8, <3>1, <3>2 DEF FwdStep
    <2>. QED  BY <1>0, <1>2, <1>3, <2>1, <2>2, StandStep
  <1>9. CASE Rest \/ UNCHANGED vars
    <2>1. UNCHANGED <<sweep, atts, skipped, gone, src, notices, unheard, exposed,
                      seq, rows, docs, edges, live, pass, fwd>>
      BY <1>9 DEF Rest, vars, source, store, sweeping
    <2>2. StoreStep
      BY <1>0, <2>1, QuietStep
    <2>. QED  BY <1>0, <1>2, <1>3, <2>1, <2>2, StandStep
  <1>. QED  BY <1>4, <1>5, <1>6, <1>7, <1>8, <1>9 DEF Next, SourceStep

\* Every step keeps the invariant.
LEMMA NextInv ==
    ASSUME AuditInv, PassShape, [Next]_vars
    PROVE  AuditInv'
  <1>1. Fixed
    BY StepFixed DEF AuditInv, BaseInv
  <1>. QED  BY <1>1, StepParts, InvStep, StartInv, ChangeInv

\* The first state has it: a row without its resource is one whose delete
\* nobody notified.
LEMMA InitInv ==
    ASSUME Init
    PROVE  AuditInv
  <1>1. used \in Used /\ seq = 1
    <2>1. used \in [setup : DOMAIN Setups, changes : {0}, losses : {0}, errors : {0}, crashes : {0}]
      BY Zenon DEF Init
    <2>2. seq = 1
      BY Zenon DEF Init
    <2>. QED  BY <2>1, <2>2 DEF Used
  <1>2. src \in [Ids -> [vs : SUBSET Versions, md : Nat, n : Nat]]
    <2>1. src \in [Ids -> [vs : Setup.existences, md : Setup.mds, n : {1}]]
      BY DEF Init
    <2>2. Setup.existences \subseteq SUBSET Versions /\ Setup.mds \subseteq Nat
      BY <1>1, SetupFacts
    <2>3. \A i \in Ids : src[i] \in [vs : SUBSET Versions, md : Nat, n : Nat]
      <3>. TAKE i \in Ids
      <3>1. src[i] \in [vs : Setup.existences, md : Setup.mds, n : {1}]
        BY <2>1
      <3>. QED  BY <2>2, <3>1
    <2>. QED  BY <2>1, <2>3
  <1>3. PICK rowless \in IF Setup.rowless THEN SUBSET Ids ELSE {{}}, left \in [Ids -> BOOLEAN] :
       /\ rows = [i \in Ids |-> IF i \in rowless THEN NoRow
                                ELSE [NoRow EXCEPT !.present = TRUE, !.md = src[i].md]]
       /\ docs = [i \in Ids |-> [v \in Versions |->
             IF i \in rowless \/ (v \in Setup.pass /\ ~left[i]) THEN [ver |-> 0, body |-> NoBody]
             ELSE IF Setup.pass # {} /\ v \notin Setup.pass
             THEN [ver |-> 1, body |-> Fetched(i, v, src[i].md)]
             ELSE [ver |-> 1, body |-> [found |-> TRUE, n |-> 0]]]]
       /\ edges = [i \in Ids |-> [v \in Versions |->
             IF i \in rowless \/ v \in Setup.pass THEN NoEdges ELSE [stamp |-> 1, kids |-> {}]]]
       /\ Setup.pass = {} => left = [i \in Ids |-> TRUE]
    BY Zenon DEF Init
  <1>4. ASSUME NEW i \in Ids
        PROVE  /\ rows[i] \in Row /\ rows[i].mark = 0 /\ rows[i].changed = 0 /\ ~rows[i].stale
               /\ ~rows[i].tomb /\ (i \in rowless => ~rows[i].present)
               /\ ~rows[i].present => rows[i] = NoRow
    <2>1. /\ NoRow \in Row /\ ~NoRow.present /\ NoRow.mark = 0 /\ NoRow.changed = 0 /\ ~NoRow.stale
          /\ ~NoRow.tomb
      BY DEF NoRow, Row, None
    <2>2. PICK md \in Nat : md = src[i].md
      BY <1>2
    <2>3. rows[i] = IF i \in rowless THEN NoRow ELSE [NoRow EXCEPT !.present = TRUE, !.md = md]
      BY <1>3, <2>2
    <2>. QED  BY <2>1, <2>3 DEF Row
  <1>5. rows \in [Ids -> Row]
    BY <1>3, <1>4
  <1>6. ASSUME NEW i \in Ids, NEW v \in Versions
        PROVE  docs[i][v] \in Doc /\ docs[i][v].ver <= 1
    <2>1. Fetched(i, v, src[i].md) \in Body
      BY <1>2 DEF Fetched, NoBody, Body
    <2>2. NoBody \in Body /\ [found |-> TRUE, n |-> 0] \in Body
      BY DEF NoBody, Body
    <2>3. PICK body \in Body : docs[i][v] \in {[ver |-> 0, body |-> body], [ver |-> 1, body |-> body]}
      BY <1>3, <2>1, <2>2
    <2>. QED  BY <2>3 DEF Doc
  <1>7. docs \in [Ids -> [Versions -> Doc]]
    BY <1>3, <1>6
  <1>8. edges \in [Ids -> [Versions -> EdgeSet]]
    <2>1. \A i \in Ids, v \in Versions : edges[i][v] \in EdgeSet
      BY <1>3 DEF NoEdges, EdgeSet
    <2>. QED  BY <1>3, <2>1
  <1>9. NoLive \in Live /\ NoLive.idx = 0 /\ NoLive.mark = 0
    BY DEF NoLive, Live, NoBody, Body, None
  <1>10. live = [i \in Ids |-> NoLive]
    BY DEF Init
  <1>11. Passing(NewPass) /\ pass = NewPass
    <2>1. pass = NewPass
      BY Zenon DEF Init
    <2>2. seq \in Nat
      BY <1>1
    <2>. QED  BY <1>1, <2>1, <2>2, NewPassFacts
  <1>12. /\ fwd \in Fwd /\ fwd.pc # "walk" /\ fwd.hand = NoHands /\ fwd.todo = {} /\ fwd.start = 0
         /\ \A i \in Ids : Held(i).pc = "none" /\ Held(i).idx = 0
    <2>1. Setup.walks \in Seq(Nat)
      BY <1>1, SetupFacts
    <2>2. fwd = [pc |-> IF Setup.walks = <<>> THEN "off" ELSE "next", left |-> Setup.walks,
                 start |-> 0, todo |-> {}, hand |-> NoHands, marked |-> FALSE, errs |-> {}]
      BY DEF Init
    <2>3. NoHands \in [Ids -> Hand] /\ \A i \in Ids : NoHands[i].pc = "none" /\ NoHands[i].idx = 0
      BY DEF NoHands, NoHand, Hand, NoBody, Body
    <2>4. fwd.hand = NoHands /\ fwd.todo = {} /\ fwd.start = 0 /\ fwd \in Fwd /\ fwd.pc # "walk"
      BY <2>1, <2>2, <2>3 DEF Fwd
    <2>. QED  BY <2>3, <2>4 DEF Held
  <1>13. /\ sweep \in Sweep /\ sweep.outcome = "idle" /\ atts = <<>> /\ gone = {} /\ skipped = {}
         /\ notices = {} /\ unheard \subseteq Ids /\ exposed = {}
    BY DEF Init, Sweep
  <1>14. TypeOK
    <2>1. atts \in Seq(Attempt) /\ Len(atts) <= Attempts
      BY <1>13, AuditAssumption
    <2>. QED  BY <1>1, <1>2, <1>5, <1>7, <1>8, <1>9, <1>10, <1>11, <1>12, <1>13, <2>1
              DEF TypeOK, Doc, EdgeSet, Passing
  <1>15. Underway /\ Swept
    BY <1>12, <1>13 DEF Underway, Swept
  <1>16. Drawn
    BY <1>1, <1>4, <1>6, <1>9, <1>10, <1>11, <1>12 DEF Drawn, Passing
  <1>17. ASSUME NEW i \in Ids, src[i].vs = {}, i \notin unheard
         PROVE  Buried(i)
    <2>1. Setup.pass = {}
      BY <1>17 DEF Init
    <2>2. PICK v \in Versions : TRUE
      BY <1>1, SetupFacts
    <2>3. docs[i][v].body.found = (v \in src[i].vs)
      BY <1>17, <2>1, <2>2 DEF Init
    <2>4. i \notin rowless => docs[i][v].body = [found |-> TRUE, n |-> 0]
      BY <1>3, <2>1, <2>2
    <2>5. [found |-> TRUE, n |-> 0].found = TRUE /\ (v \in src[i].vs) = FALSE
      BY <1>17
    <2>6. i \in rowless
      BY <2>3, <2>4, <2>5
    <2>. QED  BY <1>4, <1>10, <1>12, <2>6 DEF Buried
  <1>18. Buries
    BY <1>17 DEF Buries, Heard
  <1>19. ASSUME NEW i \in Ids PROVE Ordered(i) /\ HandOrdered(i)
    <2>1. src[i].md \in Setup.mds
      BY DEF Init
    <2>2. live[i] = NoLive
      BY <1>10
    <2>3. Ordered(i)
      BY <1>4, <2>1, <2>2 DEF Ordered, Clean
    <2>4. HandOrdered(i)
      BY <1>12 DEF HandOrdered, InWork
    <2>. QED  BY <2>3, <2>4
  <1>. QED  BY <1>14, <1>15, <1>16, <1>18, <1>19 DEF AuditInv, BaseInv

-----------------------------------------------------------------------------
(* Where the probe pass goes on *)

\* The version a pass is at, and when it is the last.
LEMMA VersionFacts ==
    ASSUME TypeOK, NEW q \in Pass, q.left # {}
    PROVE  /\ LeastOf(q.left) \in q.left /\ LeastOf(q.left) \in Versions
           /\ Cardinality(q.left) = 1 <=> q.left \ {LeastOf(q.left)} = {}
  <1>1. q.left \in SUBSET Versions
    BY DEF Pass
  <1>2. Versions \in SUBSET Nat /\ IsFiniteSet(Versions)
    BY SetupFacts DEF TypeOK
  <1>3. q.left \in SUBSET Nat /\ IsFiniteSet(q.left)
    BY <1>1, <1>2, FS_Subset
  <1>4. LeastOf(q.left) \in q.left
    BY <1>3, LeastOfIsLeast
  <1>. DEFINE rest == q.left \ {LeastOf(q.left)}
  <1>5. IsFiniteSet(rest) /\ Cardinality(rest) = Cardinality(q.left) - 1
    BY <1>3, <1>4, FS_RemoveElement
  <1>6. Cardinality(rest) = 0 <=> rest = {}
    BY <1>5, FS_EmptySet
  <1>7. Cardinality(q.left) \in Nat
    BY <1>3, FS_CardinalityType
  <1>. QED  BY <1>1, <1>4, <1>5, <1>6, <1>7

\* A version is done.
LEMMA VersionDoneFacts ==
    ASSUME TypeOK, NEW q \in Pass, q.left # {}
    PROVE  /\ VersionDone(q).left = q.left \ {LeastOf(q.left)}
           /\ VersionDone(q).after = 0 /\ VersionDone(q).page = {} /\ VersionDone(q).seqs = q.seqs
           /\ VersionDone(q).todo = q.todo /\ VersionDone(q).returned = q.returned
           /\ VersionDone(q).pc = IF VersionDone(q).left = {} THEN "done" ELSE "list"
  <1>1. PICK rest : rest = q.left \ {LeastOf(q.left)}
    OBVIOUS
  <1>2. PICK pc : pc = IF rest = {} THEN "done" ELSE "list"
    OBVIOUS
  <1>3. VersionDone(q) = [q EXCEPT !.left = rest, !.after = 0, !.page = {}, !.pc = pc]
    BY <1>1, <1>2, VersionFacts DEF VersionDone
  <1>4. /\ VersionDone(q).left = rest /\ VersionDone(q).pc = pc
        /\ VersionDone(q).after = 0 /\ VersionDone(q).page = {} /\ VersionDone(q).seqs = q.seqs
        /\ VersionDone(q).todo = q.todo /\ VersionDone(q).returned = q.returned
    BY <1>3 DEF Pass
  <1>. QED  BY <1>1, <1>2, <1>4

\* A page is done: its version too if the page was not full.
LEMMA PageDoneFacts ==
    ASSUME TypeOK, NEW q \in Pass, q.left # {}
    PROVE  \/ Cardinality(q.page) < PageSize /\ PageDone(q) = VersionDone(q)
           \/ /\ Cardinality(q.page) >= PageSize /\ q.page # {}
              /\ PageDone(q).pc = "list" /\ PageDone(q).left = q.left
              /\ PageDone(q).page = {} /\ PageDone(q).seqs = q.seqs
              /\ PageDone(q).todo = q.todo /\ PageDone(q).returned = q.returned
              /\ PageDone(q).after \in q.page
  <1>1. q.page \in SUBSET Ids
    BY DEF Pass
  <1>2. CASE Cardinality(q.page) < PageSize
    BY <1>2 DEF PageDone
  <1>3. CASE ~(Cardinality(q.page) < PageSize)
    <2>1. PageSize \in Nat \ {0} /\ Cardinality(q.page) \in Nat
      BY <1>1, AuditAssumption, IdFacts DEF TypeOK
    <2>2. q.page # {}
      BY <1>3, <2>1, FS_EmptySet
    <2>3. PICK n : n = LastOf(q.page) /\ n \in q.page
      BY <1>1, <2>2, IdFacts DEF TypeOK
    <2>4. PageDone(q) = [q EXCEPT !.pc = "list", !.after = n, !.page = {}]
      BY <1>3, <2>3 DEF PageDone
    <2>5. /\ PageDone(q).pc = "list" /\ PageDone(q).left = q.left
          /\ PageDone(q).page = {} /\ PageDone(q).seqs = q.seqs
          /\ PageDone(q).todo = q.todo /\ PageDone(q).returned = q.returned
          /\ PageDone(q).after = n
      BY <2>4 DEF Pass
    <2>. QED  BY <1>3, <2>1, <2>2, <2>3, <2>5
  <1>. QED  BY <1>2, <1>3

\* After a page or a version the pass has nothing in hand.
LEMMA DoneShape ==
    ASSUME TypeOK, NEW q \in Pass, q.left # {}, q.left \subseteq Setup.pass, q.todo = {}, q.returned = {},
           \A i \in Ids : q.seqs[i] # 0 => q.seqs[i] > 1
    PROVE  /\ Shaped(PageDone(q)) /\ PageDone(q).pc \in {"list", "done"} /\ PageDone(q).todo = {}
           /\ Shaped(VersionDone(q)) /\ VersionDone(q).pc \in {"list", "done"} /\ VersionDone(q).todo = {}
  <1>1. /\ VersionDone(q).seqs = q.seqs /\ VersionDone(q).todo = {} /\ VersionDone(q).returned = {}
        /\ VersionDone(q).left \subseteq Setup.pass
        /\ VersionDone(q).pc = IF VersionDone(q).left = {} THEN "done" ELSE "list"
    BY VersionDoneFacts
  <1>2. Shaped(VersionDone(q)) /\ VersionDone(q).pc \in {"list", "done"}
    BY <1>1 DEF Shaped, InHand
  <1>3. CASE PageDone(q) = VersionDone(q)
    BY <1>1, <1>2, <1>3
  <1>4. CASE /\ PageDone(q).pc = "list" /\ PageDone(q).left = q.left /\ PageDone(q).seqs = q.seqs
             /\ PageDone(q).todo = q.todo /\ PageDone(q).returned = q.returned
    <2>1. Shaped(PageDone(q))
      BY <1>4 DEF Shaped, InHand
    <2>. QED  BY <1>1, <1>2, <1>4, <2>1
  <1>. QED  BY <1>3, <1>4, PageDoneFacts

\* What is covered of a version that is done stays so, and the next begins at
\* the first id.
LEMMA VersionDecides ==
    ASSUME TypeOK, NEW q \in Pass, q.left # {}, NEW c,
           \A i \in Ids : (\A v \in Setup.pass \ q.left : v \in c[i]) /\ LeastOf(q.left) \in c[i]
    PROVE  Decides(VersionDone(q), c)
  <1>1. /\ VersionDone(q).left = q.left \ {LeastOf(q.left)} /\ VersionDone(q).after = 0
        /\ VersionDone(q).pc = IF VersionDone(q).left = {} THEN "done" ELSE "list"
    BY VersionDoneFacts
  <1>2. \A i \in Ids : i > 0
    BY SetupFacts DEF TypeOK
  <1>3. ASSUME NEW i \in Ids
        PROVE  /\ \A v \in Setup.pass \ VersionDone(q).left : v \in c[i]
               /\ VersionDone(q).pc # "done" => Awaited(VersionDone(q), i)
    <2>1. \A v \in Setup.pass \ VersionDone(q).left : v \in c[i]
      BY <1>1
    <2>2. VersionDone(q).pc # "done" => Awaited(VersionDone(q), i)
      BY <1>1, <1>2 DEF Awaited
    <2>. QED  BY <2>1, <2>2
  <1>. QED  BY <1>3 DEF Decides

\* A page that is done leaves what comes after it, if it was full.
LEMMA PageDecides ==
    ASSUME TypeOK, NEW q \in Pass, q.left # {}, NEW c,
           \A i \in Ids : /\ \A v \in Setup.pass \ q.left : v \in c[i]
                          /\ Coming(q, i) \/ LeastOf(q.left) \in c[i]
    PROVE  Decides(PageDone(q), c)
  <1>0. q.page \in SUBSET Ids /\ PageSize \in Nat /\ Cardinality(q.page) \in Nat
    BY IdFacts, AuditAssumption DEF Pass, TypeOK
  <1>1. CASE Cardinality(q.page) < PageSize /\ PageDone(q) = VersionDone(q)
    <2>1. \A i \in Ids : ~Coming(q, i)
      BY <1>0, <1>1 DEF Coming
    <2>. QED  BY <1>1, <2>1, VersionDecides
  <1>2. CASE /\ PageDone(q).pc = "list" /\ PageDone(q).left = q.left
             /\ PageDone(q).after \in q.page
    <2>1. \A i \in Ids : Coming(q, i) => i > PageDone(q).after
      <3>1. \A i \in Ids : i \in Nat
        BY SetupFacts DEF TypeOK
      <3>. QED  BY <1>0, <1>2, <3>1 DEF Coming
    <2>. QED  BY <1>2, <2>1 DEF Decides, Awaited
  <1>. QED  BY <1>1, <1>2, PageDoneFacts

\* Where the page's writes go on: what is left to write keeps its numbers, and
\* nothing on the page is passed undecided.
LEMMA PageStepCover ==
    ASSUME TypeOK, NEW q \in Pass, q.left # {}, q.left \subseteq Setup.pass,
           \A i \in q.todo : q.seqs[i] # 0,
           \A i \in Ids : q.seqs[i] # 0 => q.seqs[i] > 1
    PROVE  /\ Shaped(PageStep(q)) /\ PageStep(q).pc \in {"delete", "mark", "list", "done"}
           /\ \A i \in PageStep(q).todo :
                 i \in q.todo /\ PageStep(q).seqs = q.seqs /\ PageStep(q).left = q.left
           /\ \A c : (\A i \in Ids : /\ \A v \in Setup.pass \ q.left : v \in c[i]
                                     /\ \/ Coming(q, i) \/ LeastOf(q.left) \in c[i]
                                        \/ i \in q.page /\ i \in q.todo \cup q.returned)
                     => Decides(PageStep(q), c)
  <1>1. CASE q.todo # {} \/ q.returned # {}
    <2>1. PICK pc \in {"delete", "mark"} :
             PageStep(q) = [q EXCEPT !.pc = pc] /\ (pc = "delete" <=> q.todo # {})
      BY <1>1 DEF PageStep
    <2>2. /\ PageStep(q).pc = pc /\ PageStep(q).left = q.left /\ PageStep(q).todo = q.todo
          /\ PageStep(q).returned = q.returned /\ PageStep(q).seqs = q.seqs
          /\ PageStep(q).page = q.page
      BY <2>1 DEF Pass
    <2>3. Shaped(PageStep(q))
      BY <2>1, <2>2 DEF Shaped, InHand
    <2>4. \A i \in Ids : Coming(q, i) \/ (i \in q.page /\ i \in q.todo \cup q.returned)
                         => Awaited(PageStep(q), i)
      BY <2>1, <2>2 DEF Awaited, Coming, InHand
    <2>5. ASSUME NEW c, \A i \in Ids : /\ \A v \in Setup.pass \ q.left : v \in c[i]
                                       /\ \/ Coming(q, i) \/ LeastOf(q.left) \in c[i]
                                          \/ i \in q.page /\ i \in q.todo \cup q.returned
          PROVE  Decides(PageStep(q), c)
      BY <2>2, <2>4, <2>5 DEF Decides
    <2>. QED  BY <2>1, <2>2, <2>3, <2>5
  <1>2. CASE q.todo = {} /\ q.returned = {}
    <2>1. PICK p : p = [q EXCEPT !.seqs = NoSeqs]
      OBVIOUS
    <2>2. PageStep(q) = PageDone(p)
      BY <1>2, <2>1 DEF PageStep
    <2>3. NoSeqs \in [Ids -> Nat] /\ \A i \in Ids : NoSeqs[i] = 0
      BY DEF NoSeqs
    <2>4. p \in Pass /\ p.left = q.left /\ p.todo = {} /\ p.returned = {} /\ p.seqs = NoSeqs /\ p.page = q.page
      BY <1>2, <2>1, <2>3 DEF Pass
    <2>5. Shaped(PageDone(p)) /\ PageDone(p).pc \in {"list", "done"} /\ PageDone(p).todo = {}
      BY <2>3, <2>4, DoneShape
    <2>6. ASSUME NEW c, \A i \in Ids : /\ \A v \in Setup.pass \ q.left : v \in c[i]
                                       /\ \/ Coming(q, i) \/ LeastOf(q.left) \in c[i]
                                          \/ i \in q.page /\ i \in q.todo \cup q.returned
          PROVE  Decides(PageStep(q), c)
      <3>1. \A i \in Ids : /\ \A v \in Setup.pass \ p.left : v \in c[i]
                           /\ Coming(p, i) \/ LeastOf(p.left) \in c[i]
        BY <1>2, <2>4, <2>6 DEF Coming
      <3>2. p.left # {}
        BY <2>4
      <3>. QED  BY <2>2, <2>4, <3>1, <3>2, PageDecides
    <2>. QED  BY <2>2, <2>5, <2>6
  <1>. QED  BY <1>1, <1>2

-----------------------------------------------------------------------------
(* What a version has answered stays so *)

\* Every step keeps what was heard of truthful, and undoes nothing that was
\* written above another write or covered.
LEMMA IdsFacts ==
    ASSUME BaseInv, TypeOK', Fixed, CoverInv, Parts, NEW i \in Ids
    PROVE  /\ Heard(i)' => Truthful(i)' /\ (Heard(i) \/ Registers(i))
           /\ \A v \in Versions :
                 /\ Covered(i, v) \/ Marks(i) => Covered(i, v)'
                 /\ docs'[i][v].ver \in Nat /\ docs'[i][v].ver >= docs[i][v].ver
           /\ \A v \in Versions, n \in Nat :
                 Heard(i)' /\ n <= seq /\ (Superseded(i, v, n) \/ Registers(i)) =>
                     Superseded(i, v, n)' \/ src[i].vs = {}
  <1>0. TypeOK /\ Drawn
    BY DEF BaseInv
  <1>1. Affects(i) /\ (i \in pass.todo => pass.seqs[i] > 1)
    BY DEF Parts, StoreStep, CoverInv, PassShape, Shaped
  <1>2. Heard(i)' => Heard(i) \/ Registers(i)
    BY HeardStep
  <1>3. Heard(i) => Truthful(i) /\ Ruled(i)
    BY DEF CoverInv
  <1>4. ASSUME Heard(i)' PROVE Truthful(i)'
    BY <1>1, <1>2, <1>3, <1>4, TruthfulStep DEF Ruled
  <1>5. ASSUME NEW v \in Versions
        PROVE  /\ Covered(i, v) \/ Marks(i) => Covered(i, v)'
               /\ docs'[i][v].ver \in Nat /\ docs'[i][v].ver >= docs[i][v].ver
    BY <1>0, <1>1, CoveredStep, GrowFacts
  <1>6. ASSUME NEW v \in Versions, NEW n \in Nat, Heard(i)', n <= seq, Superseded(i, v, n) \/ Registers(i)
        PROVE  Superseded(i, v, n)' \/ src[i].vs = {}
    BY <1>1, <1>2, <1>3, <1>6, SupersededStep
  <1>. QED  BY <1>2, <1>4, <1>5, <1>6

\* Coverage grows, and by what is marked.
LEMMA CoverageFacts ==
    ASSUME BaseInv, TypeOK', Fixed, CoverInv, Parts, NEW i \in Ids
    PROVE  /\ Coverage[i] \subseteq Coverage'[i]
           /\ Marks(i) => Versions \subseteq Coverage'[i]
           /\ \A v \in Versions : /\ v \in Coverage[i] <=> Covered(i, v)
                                  /\ v \in Coverage'[i] <=> Covered(i, v)'
  <1>1. Coverage[i] = {v \in Versions : Covered(i, v)}
    BY DEF Coverage
  <1>2. Coverage'[i] = {v \in Versions : Covered(i, v)'}
    BY DEF Coverage, Fixed
  <1>3. \A v \in Versions : Covered(i, v) \/ Marks(i) => Covered(i, v)'
    BY IdsFacts
  <1>. QED  BY <1>1, <1>2, <1>3

\* What is decided stays decided.
LEMMA DecidesGrows ==
    ASSUME NEW q, NEW c, NEW d, \A i \in Ids : c[i] \subseteq d[i], Decides(q, c)
    PROVE  Decides(q, d)
  BY DEF Decides

\* A step of the pass, beside what it does to the ids.
LEMMA PassCover ==
    ASSUME BaseInv, TypeOK', Fixed, CoverInv, Parts, Shaped(pass'),
           pass'.pc = "edges" =>
               docs'[LeastOf(pass'.todo)][LeastOf(pass'.left)].ver >= pass'.seqs[LeastOf(pass'.todo)],
           \A i \in Ids : Heard(i)' => Ruled(i)',
           used'.errors = 0 /\ pass'.pc \notin {"off", "failed"} => Decides(pass', Coverage')
    PROVE  CoverInv'
  <1>2. Shaped(pass)'
    BY DEF Shaped, Fixed
  <1>3. PassShape'
    BY <1>2 DEF PassShape, Excluded, PassVersion
  <1>4. Decides(pass', Coverage') => Decides(pass, Coverage)'
    BY DEF Decides, Fixed
  <1>5. Deciding'
    BY <1>4 DEF Deciding
  <1>6. \A i \in Ids : Heard(i)' => Truthful(i)' /\ Ruled(i)'
    BY IdsFacts
  <1>. QED  BY <1>3, <1>5, <1>6 DEF CoverInv, Fixed

\* A page's ids are ruled as they were: what is excluded stays so.
LEMMA RuledStep ==
    ASSUME BaseInv, TypeOK', Fixed, CoverInv, Parts, NEW i \in Ids, Heard(i)',
           \A j \in pass'.todo : j \in pass.todo /\ pass'.seqs = pass.seqs /\ pass'.left = pass.left,
           pass'.pc = "probe" => pass' = pass
    PROVE  Ruled(i)'
  <1>0. TypeOK /\ Drawn
    BY DEF BaseInv
  <1>1. Heard(i) => Ruled(i)
    BY DEF CoverInv
  <1>2. pass.seqs[i] \in Nat /\ pass.seqs[i] <= seq /\ pass \in Pass
    BY <1>0, IdTypes DEF TypeOK
  <1>3. Heard(i) \/ Registers(i)
    BY IdsFacts
  <1>4. ASSUME pass.left # {}, Superseded(i, PassVersion, pass.seqs[i]) \/ Registers(i),
               pass'.seqs = pass.seqs, pass'.left = pass.left
        PROVE  Superseded(i, PassVersion, pass.seqs[i])' \/ src[i].vs = {}
    <2>1. PICK v \in Versions : v = PassVersion
      BY <1>0, <1>2, <1>4, VersionFacts DEF PassVersion
    <2>2. PICK n \in Nat : n = pass.seqs[i] /\ n <= seq
      BY <1>2
    <2>3. Superseded(i, v, n)' \/ src[i].vs = {}
      BY <1>4, <2>1, <2>2, IdsFacts
    <2>4. PassVersion' = v /\ pass'.seqs[i] = n
      BY <1>4, <2>1, <2>2 DEF PassVersion
    <2>. QED  BY <2>3, <2>4 DEF Superseded
  <1>5. src'[i] = src[i] /\ Setup' = Setup
    BY DEF Parts, Fixed
  <1>6. ASSUME pass'.pc = "probe", pass'.seqs[i] # 0
        PROVE  src'[i].md = Setup'.md \/ src'[i].vs = {} \/ Superseded(i, PassVersion, pass.seqs[i])'
    <2>1. pass' = pass /\ pass.pc = "probe" /\ pass.seqs[i] # 0
      BY <1>6
    <2>2. pass.left # {}
      BY <2>1 DEF CoverInv, PassShape, Shaped, InHand
    <2>. QED  BY <1>1, <1>3, <1>4, <1>5, <2>1, <2>2 DEF Ruled
  <1>7. ASSUME i \in pass'.todo
        PROVE  PassVersion' \notin src'[i].vs \/ Superseded(i, PassVersion, pass.seqs[i])'
    <2>1. i \in pass.todo /\ pass'.seqs = pass.seqs /\ pass'.left = pass.left
      BY <1>7
    <2>2. pass.left # {}
      BY <2>1 DEF CoverInv, PassShape, Shaped, InHand
    <2>3. PassVersion' = PassVersion
      BY <2>1 DEF PassVersion
    <2>. QED  BY <1>1, <1>3, <1>4, <1>5, <2>1, <2>2, <2>3 DEF Ruled
  <1>. QED  BY <1>6, <1>7 DEF Ruled

\* What the pass is about to write of.
LEMMA ExcludedFacts ==
    ASSUME TypeOK, PassShape, pass.pc \in {"delete", "edges"}
    PROVE  /\ Excluded \in pass.todo /\ Excluded \in Ids /\ pass.seqs[Excluded] > 1
           /\ PassVersion \in Versions /\ pass.left # {}
  <1>1. Shaped(pass) /\ pass \in Pass
    BY DEF PassShape, TypeOK
  <1>2. pass.left # {}
    BY <1>1 DEF Shaped, InHand
  <1>3. PassVersion \in Versions
    BY <1>1, <1>2, VersionFacts DEF PassVersion
  <1>. QED  BY <1>2, <1>3, ExcludedIsOne

\* Steps that are not the pass's.
LEMMA StandCover ==
    ASSUME BaseInv, TypeOK', Fixed, CoverInv, Parts, pass' = pass,
           used'.errors = 0 => used.errors = 0
    PROVE  CoverInv'
  <1>0. TypeOK /\ Drawn
    BY DEF BaseInv
  <1>1. Shaped(pass) /\ pass \in Pass /\ PassShape
    BY <1>0 DEF CoverInv, PassShape, TypeOK
  <1>2. ASSUME pass.pc = "edges"
        PROVE  docs'[Excluded][PassVersion].ver >= pass.seqs[Excluded]
    <2>1. PICK i \in Ids, v \in Versions : i = Excluded /\ v = PassVersion
      BY <1>0, <1>1, <1>2, ExcludedFacts
    <2>2. docs[i][v].ver >= pass.seqs[i]
      BY <1>1, <1>2, <2>1 DEF PassShape
    <2>3. docs[i][v].ver \in Nat /\ pass.seqs[i] \in Nat
      BY <1>0, IdTypes
    <2>4. docs'[i][v].ver \in Nat /\ docs'[i][v].ver >= docs[i][v].ver
      BY IdsFacts
    <2>. QED  BY <2>1, <2>2, <2>3, <2>4
  <1>3. \A i \in Ids : Heard(i)' => Ruled(i)'
    BY RuledStep
  <1>4. Decides(pass, Coverage) => Decides(pass, Coverage')
    BY CoverageFacts, DecidesGrows
  <1>5. used'.errors = 0 /\ pass'.pc \notin {"off", "failed"} => Decides(pass', Coverage')
    BY <1>4 DEF CoverInv, Deciding
  <1>6. pass'.pc = "edges" =>
           docs'[LeastOf(pass'.todo)][LeastOf(pass'.left)].ver >= pass'.seqs[LeastOf(pass'.todo)]
    BY <1>2 DEF Excluded, PassVersion
  <1>. QED  BY <1>1, <1>3, <1>5, <1>6, PassCover

\* The delete is written at the number drawn before the probe, or above it.
LEMMA DeleteVersion ==
    ASSUME TypeOK, Drawn, PassShape, DeleteExcluded
    PROVE  docs'[Excluded][PassVersion].ver >= pass.seqs[Excluded]
  <1>1. PICK e \in Ids, w \in Versions : e = Excluded /\ w = PassVersion
    BY ExcludedFacts DEF DeleteExcluded
  <1>2. PICK new : new = Written(docs[e][w], NoBody, pass.seqs[e])
    OBVIOUS
  <1>3. docs' = [docs EXCEPT ![e][w] = new]
    BY <1>1, <1>2 DEF DeleteExcluded
  <1>4. docs'[e][w] = new
    BY <1>3, StoreFacts
  <1>5. docs[e][w].ver \in Nat /\ pass.seqs[e] \in Nat
    BY IdTypes
  <1>. QED  BY <1>1, <1>2, <1>4, <1>5 DEF Written

\* The emptied edge set is one that was decided.
LEMMA EdgesStamp ==
    ASSUME TypeOK, Drawn, PassShape, EmptyEdges
    PROVE  edges'[Excluded][PassVersion].stamp # 0
  <1>1. PICK e \in Ids, w \in Versions : e = Excluded /\ w = PassVersion /\ pass.seqs[e] > 1
    BY ExcludedFacts DEF EmptyEdges
  <1>2. PICK new : new = ReplacedSet(edges[e][w], pass.seqs[e], {})
    OBVIOUS
  <1>3. edges' = [edges EXCEPT ![e][w] = new]
    BY <1>1, <1>2 DEF EmptyEdges
  <1>4. edges'[e][w] = new
    BY <1>3, StoreFacts
  <1>5. edges[e][w].stamp \in Nat /\ pass.seqs[e] \in Nat
    BY IdTypes
  <1>. QED  BY <1>1, <1>2, <1>4, <1>5 DEF ReplacedSet

\* A change is nobody's to answer for until it is registered.
LEMMA ChangeCover ==
    ASSUME BaseInv, TypeOK', Fixed, CoverInv, NEW i \in Ids, Change(i),
           used'.errors = 0 => used.errors = 0
    PROVE  CoverInv'
  <1>1. /\ UNCHANGED <<seq, exposed, rows, docs, edges, live, pass, fwd>>
        /\ i \in notices' \cup unheard'
        /\ \A j \in Ids \ {i} : j \in notices \cup unheard => j \in notices' \cup unheard'
        /\ \A j \in Ids \ {i} : src'[j] = src[j]
    BY ChangeFacts DEF BaseInv
  <1>5. Versions' = Versions /\ NoLive' = NoLive /\ Setup' = Setup /\ Ids' = Ids
    BY DEF Fixed
  <1>7. PassVersion' = PassVersion /\ Excluded' = Excluded
    BY <1>1 DEF PassVersion, Excluded
  <1>8. ASSUME NEW j \in Ids, Heard(j)' PROVE Truthful(j)' /\ Ruled(j)'
    <2>1. j # i /\ Heard(j)
      BY <1>1, <1>8 DEF Heard
    <2>2. src'[j] = src[j] /\ Truthful(j) /\ Ruled(j)
      BY <1>1, <2>1 DEF CoverInv
    <2>3. Holds(j)
      BY <1>1 DEF Holds
    <2>4. Outdated(j)' <=> Outdated(j)
      BY <2>2, <2>3, OutdatedStep
    <2>5. /\ (Drifted(j)' <=> Drifted(j)) /\ Held(j)' = Held(j)
          /\ \A v \in Versions : (Agrees(j, v)' <=> Agrees(j, v)) /\ (Decisive(j, v)' <=> Decisive(j, v))
      BY <1>1, <2>2 DEF Drifted, Held, Agrees, Decisive
    <2>6. Late(j)' <=> Late(j)
      BY <1>1, <2>4, <2>5 DEF Late
    <2>7. Truthful(j)'
      BY <1>1, <1>5, <2>2, <2>4, <2>5, <2>6 DEF Truthful
    <2>8. Superseded(j, PassVersion, pass.seqs[j])' <=> Superseded(j, PassVersion, pass.seqs[j])
      BY <1>1, <1>7, <2>2 DEF Superseded
    <2>9. Ruled(j)'
      BY <1>1, <1>5, <1>7, <2>2, <2>8 DEF Ruled
    <2>. QED  BY <2>7, <2>9
  <1>9. PassShape'
    BY <1>1, <1>5, <1>7 DEF CoverInv, PassShape, Shaped
  <1>10. Coverage' = Coverage
    <2>1. \A j \in Ids, v \in Versions : Covered(j, v)' <=> Covered(j, v)
      BY <1>1, <1>5 DEF Covered, Clean, Held
    <2>. QED  BY <1>5, <2>1 DEF Coverage
  <1>11. Deciding'
    <2>1. Deciding
      BY DEF CoverInv
    <2>2. Decides(pass, Coverage)' <=> Decides(pass, Coverage)
      BY <1>1, <1>5, <1>10 DEF Decides
    <2>. QED  BY <1>1, <2>1, <2>2 DEF Deciding
  <1>. QED  BY <1>5, <1>8, <1>9, <1>11 DEF CoverInv

\* So is the start of a run.
LEMMA StartCover ==
    ASSUME CoverInv, Fixed, StartRun
    PROVE  CoverInv'
  <1>1. UNCHANGED <<used, src, notices, unheard, exposed, rows, docs, edges, live, pass, fwd>>
    BY DEF StartRun, source, store
  <1>5. Versions' = Versions /\ NoLive' = NoLive /\ Setup' = Setup /\ Ids' = Ids
    BY DEF Fixed
  <1>7. PassVersion' = PassVersion /\ Excluded' = Excluded
    BY <1>1 DEF PassVersion, Excluded
  <1>8. ASSUME NEW j \in Ids, Heard(j)' PROVE Truthful(j)' /\ Ruled(j)'
    <2>2. src'[j] = src[j] /\ Truthful(j) /\ Ruled(j)
      BY <1>1, <1>8 DEF CoverInv, Heard
    <2>3. Holds(j)
      BY <1>1 DEF Holds
    <2>4. Outdated(j)' <=> Outdated(j)
      BY <2>2, <2>3, OutdatedStep
    <2>5. /\ (Drifted(j)' <=> Drifted(j)) /\ Held(j)' = Held(j)
          /\ \A v \in Versions : (Agrees(j, v)' <=> Agrees(j, v)) /\ (Decisive(j, v)' <=> Decisive(j, v))
      BY <1>1, <2>2 DEF Drifted, Held, Agrees, Decisive
    <2>6. Late(j)' <=> Late(j)
      BY <1>1, <2>4, <2>5 DEF Late
    <2>7. Truthful(j)'
      BY <1>1, <1>5, <2>2, <2>4, <2>5, <2>6 DEF Truthful
    <2>8. Superseded(j, PassVersion, pass.seqs[j])' <=> Superseded(j, PassVersion, pass.seqs[j])
      BY <1>1, <1>7, <2>2 DEF Superseded
    <2>9. Ruled(j)'
      BY <1>1, <1>5, <1>7, <2>2, <2>8 DEF Ruled
    <2>. QED  BY <2>7, <2>9
  <1>9. PassShape'
    BY <1>1, <1>5, <1>7 DEF CoverInv, PassShape, Shaped
  <1>10. Coverage' = Coverage
    <2>1. \A j \in Ids, v \in Versions : Covered(j, v)' <=> Covered(j, v)
      BY <1>1, <1>5 DEF Covered, Clean, Held
    <2>. QED  BY <1>5, <2>1 DEF Coverage
  <1>11. Deciding'
    <2>1. Deciding
      BY DEF CoverInv
    <2>2. Decides(pass, Coverage)' <=> Decides(pass, Coverage)
      BY <1>1, <1>5, <1>10 DEF Decides
    <2>. QED  BY <1>1, <2>1, <2>2 DEF Deciding
  <1>. QED  BY <1>5, <1>8, <1>9, <1>11 DEF CoverInv

\* page that is full.
LEMMA ListCover ==
    ASSUME BaseInv, TypeOK', Fixed, CoverInv, Parts, ListUncovered
    PROVE  CoverInv'
  <1>. TypeOK /\ Underway /\ Drawn
    BY DEF BaseInv
  <1>. DEFINE S == {i \in Ids : /\ Listable(i) /\ i > pass.after
                                /\ rows[i].md = Setup.md /\ Uncovered(i, PassVersion)}
              page == FirstPage(S)
  <1>1. /\ pass.pc = "list" /\ UNCHANGED <<used, seq, src, notices, unheard, exposed, rows, docs, edges, live, fwd>>
        /\ pass' = IF page = {} THEN VersionDone(pass) ELSE [pass EXCEPT !.pc = "begin", !.page = page]
    BY DEF ListUncovered, source, store
  <1>3. Shaped(pass) /\ pass.left \subseteq Setup.pass /\ pass \in Pass /\ pass.left # {} /\ pass.todo = {} /\ pass.returned = {}
    BY <1>1 DEF CoverInv, PassShape, Shaped, InHand, TypeOK
  <1>4. PassVersion \in Versions
    BY <1>3, VersionFacts DEF PassVersion
  <1>5. /\ page \subseteq S /\ (S # {} => page # {})
        /\ \A i \in S \ page : (\A j \in page : j < i) /\ Cardinality(page) >= PageSize
    <2>1. S \in SUBSET Nat /\ IsFiniteSet(S)
      BY IdFacts DEF TypeOK
    <2>. HIDE DEF S
    <2>. QED  BY <2>1, PageFacts
  <1>6. ASSUME NEW i \in Ids, i > pass.after, i \notin S PROVE PassVersion \in Coverage'[i]
    <2>1. rows[i].stale \in BOOLEAN
      BY StoreFacts DEF Row
    <2>2. Covered(i, PassVersion)
      BY <1>6, <2>1 DEF Covered, Clean, Listable, Uncovered
    <2>. QED  BY <1>4, <2>2, CoverageFacts
  <1>. HIDE DEF S
  <1>7. ASSUME used'.errors = 0
        PROVE  \A i \in Ids : /\ \A v \in Setup.pass \ pass.left : v \in Coverage'[i]
                              /\ i \in S \/ PassVersion \in Coverage'[i]
    <2>1. Decides(pass, Coverage)
      BY <1>1, <1>7 DEF CoverInv, Deciding
    <2>2. Decides(pass, Coverage')
      BY <2>1, CoverageFacts, DecidesGrows
    <2>3. \A i \in Ids : Awaited(pass, i) => i > pass.after
      BY <1>1 DEF Awaited, InHand
    <2>. QED  BY <1>1, <1>6, <2>2, <2>3 DEF Decides, PassVersion
  <1>8. CASE page = {}
    <2>1. pass' = VersionDone(pass)
      BY <1>1, <1>8
    <2>2. Shaped(pass') /\ pass'.pc \in {"list", "done"} /\ pass'.todo = {}
      BY <1>3, <2>1, DoneShape DEF Shaped
    <2>3. used'.errors = 0 => Decides(pass', Coverage')
      <3>1. ASSUME used'.errors = 0
            PROVE  \A i \in Ids : (\A v \in Setup.pass \ pass.left : v \in Coverage'[i])
                                  /\ LeastOf(pass.left) \in Coverage'[i]
        BY <1>5, <1>7, <1>8, <3>1 DEF PassVersion
      <3>. QED  BY <1>3, <2>1, <3>1, VersionDecides
    <2>4. \A i \in Ids : Ruled(i)'
      BY <2>2 DEF Ruled
    <2>. QED  BY <2>2, <2>3, <2>4, PassCover
  <1>9. CASE page # {}
    <2>1. PICK p : p = page
      OBVIOUS
    <2>2. pass' = [pass EXCEPT !.pc = "begin", !.page = p]
      BY <1>1, <1>9, <2>1
    <2>3. /\ pass'.pc = "begin" /\ pass'.page = p /\ pass'.left = pass.left /\ pass'.seqs = pass.seqs
          /\ pass'.todo = {} /\ pass'.returned = {}
      BY <1>3, <2>2 DEF Pass
    <2>4. Shaped(pass')
      BY <1>3, <2>3 DEF Shaped, InHand
    <2>5. \A i \in S : Awaited(pass', i)
      BY <1>5, <2>1, <2>3 DEF Awaited, Coming, InHand
    <2>6. used'.errors = 0 => Decides(pass', Coverage')
      BY <1>7, <2>3, <2>5 DEF Decides, PassVersion
    <2>7. \A i \in Ids : Ruled(i)'
      BY <2>3 DEF Ruled
    <2>. QED  BY <2>3, <2>4, <2>6, <2>7, PassCover
  <1>. QED  BY <1>8, <1>9

\* who is asked has the pass's metadata.
LEMMA BeginCover ==
    ASSUME BaseInv, TypeOK', Fixed, CoverInv, Parts, BeginPage
    PROVE  CoverInv'
  <1>. TypeOK /\ Underway /\ Drawn
    BY DEF BaseInv
  <1>. DEFINE begun == {i \in pass.page : Begins(i)}
              asked == {i \in pass.page : Asks(i)}
              seqs == [i \in Ids |-> IF i \in asked THEN seq + Nth(begun, i) ELSE 0]
  <1>1. /\ pass.pc = "begin" /\ UNCHANGED <<used, src, notices, unheard, exposed, docs, edges, live, fwd>>
        /\ seq' = seq + Cardinality(begun)
        /\ pass' = IF asked = {} THEN PageDone(pass) ELSE [pass EXCEPT !.pc = "probe", !.seqs = seqs]
    BY DEF BeginPage, source
  <1>2. rows' = rows
    BY BeginPageRows
  <1>4. Shaped(pass) /\ pass.left \subseteq Setup.pass /\ pass \in Pass /\ pass.left # {} /\ pass.todo = {} /\ pass.returned = {}
    BY <1>1 DEF CoverInv, PassShape, Shaped, InHand, TypeOK
  <1>5. begun \in SUBSET Ids /\ asked \subseteq begun /\ asked \subseteq pass.page
    BY <1>4 DEF Pass, Asks
  <1>6. seq \in Nat /\ seq >= 1 /\ Cardinality(begun) \in Nat /\ \A i \in begun : Nth(begun, i) \in 1 .. Cardinality(begun)
    BY <1>5, IdFacts, StoreFacts
  <1>7. ASSUME NEW i \in asked, Heard(i) PROVE src[i].md = Setup.md
    <2>1. i \in Ids /\ rows[i].md = Setup.md /\ rows[i].present
      BY <1>5, <1>7 DEF Asks, Begins
    <2>2. rows[i].md = src[i].md \/ rows[i].md = None
      BY <1>7, <2>1 DEF CoverInv, Truthful
    <2>3. src[i].md \in Setup.mds
      BY <2>1 DEF BaseInv, Ordered
    <2>4. Setup.mds = {None} \/ Setup.md # None
      BY <1>4, SetupFacts, StoreFacts
    <2>. QED  BY <2>1, <2>2, <2>3, <2>4
  <1>8. PassVersion \in Versions
    BY <1>4, VersionFacts DEF PassVersion
  <1>9. ASSUME NEW i \in Ids, i \in pass.page \ asked PROVE PassVersion \in Coverage'[i]
    <2>1. Covered(i, PassVersion)
      BY <1>9 DEF Covered, Clean, Asks, Begins
    <2>. QED  BY <1>8, <2>1, CoverageFacts
  <1>. HIDE DEF begun, asked
  <1>11. ASSUME used'.errors = 0
         PROVE  \A i \in Ids : /\ \A v \in Setup.pass \ pass.left : v \in Coverage'[i]
                               /\ i \in asked \/ Coming(pass, i) \/ PassVersion \in Coverage'[i]
    <2>1. Decides(pass, Coverage)
      BY <1>1, <1>11 DEF CoverInv, Deciding
    <2>2. Decides(pass, Coverage')
      BY <2>1, CoverageFacts, DecidesGrows
    <2>3. \A i \in Ids : Awaited(pass, i) => i \in pass.page \/ Coming(pass, i)
      BY <1>1 DEF Awaited, InHand
    <2>. QED  BY <1>1, <1>9, <2>2, <2>3 DEF Decides, PassVersion
  <1>12. CASE asked = {}
    <2>1. pass' = PageDone(pass)
      BY <1>1, <1>12
    <2>2. Shaped(pass') /\ pass'.pc \in {"list", "done"} /\ pass'.todo = {}
      BY <1>4, <2>1, DoneShape DEF Shaped
    <2>3. used'.errors = 0 => Decides(pass', Coverage')
      BY <1>4, <1>11, <1>12, <2>1, PageDecides DEF PassVersion
    <2>4. \A i \in Ids : Ruled(i)'
      BY <2>2 DEF Ruled
    <2>. QED  BY <2>2, <2>3, <2>4, PassCover
  <1>13. CASE asked # {}
    <2>1. pass' = [pass EXCEPT !.pc = "probe", !.seqs = seqs]
      BY <1>1, <1>13
    <2>2. \A i \in Ids : /\ i \in asked => seqs[i] > 1 /\ seqs[i] # 0
                         /\ i \notin asked => seqs[i] = 0
      BY <1>5, <1>6
    <2>. HIDE DEF seqs
    <2>3. /\ pass'.pc = "probe" /\ pass'.page = pass.page /\ pass'.left = pass.left /\ pass'.seqs = seqs
          /\ pass'.todo = {} /\ pass'.returned = {}
      BY <1>4, <2>1 DEF Pass
    <2>4. Shaped(pass')
      BY <1>4, <2>2, <2>3 DEF Shaped, InHand
    <2>5. \A i \in Ids : i \in asked \/ Coming(pass, i) => Awaited(pass', i)
      BY <1>5, <2>2, <2>3 DEF Awaited, Coming, InHand
    <2>6. used'.errors = 0 => Decides(pass', Coverage')
      BY <1>11, <2>3, <2>5 DEF Decides, PassVersion
    <2>7. ASSUME NEW i \in Ids, Heard(i)' PROVE Ruled(i)'
      <3>1. Heard(i) /\ src'[i] = src[i] /\ Setup' = Setup
        BY <1>1, <2>7 DEF Heard, Fixed
      <3>2. pass'.seqs[i] # 0 => src'[i].md = Setup'.md
        BY <1>7, <2>2, <2>3, <3>1
      <3>. QED  BY <2>3, <3>2 DEF Ruled
    <2>. QED  BY <2>3, <2>4, <2>6, <2>7, PassCover
  <1>. QED  BY <1>12, <1>13

\* The page's writes go on with q.
LEMMA PageCover ==
    ASSUME BaseInv, TypeOK', Fixed, CoverInv, Parts,
           pass.pc \in InHand, used'.errors = 0 => used.errors = 0,
           NEW q \in Pass, pass' = PageStep(q),
           q.left = pass.left, q.seqs = pass.seqs, q.page = pass.page,
           \A i \in q.todo : q.seqs[i] # 0,
           \A i \in q.todo : Heard(i)' =>
               PassVersion \notin src[i].vs \/ \A v, n : v = PassVersion /\ n = pass.seqs[i] => Superseded(i, v, n)',
           used'.errors = 0 =>
               \A i \in Ids : Awaited(pass, i) =>
                   \/ Coming(pass, i) \/ PassVersion \in Coverage'[i]
                   \/ i \in pass.page /\ i \in q.todo \cup q.returned
    PROVE  CoverInv'
  <1>. TypeOK /\ Underway /\ Drawn
    BY DEF BaseInv
  <1>1. Shaped(pass) /\ pass.left \subseteq Setup.pass /\ pass.left # {} /\ pass.pc \notin {"off", "failed", "done"}
    BY DEF CoverInv, PassShape, Shaped, InHand
  <1>2. \A i \in Ids : q.seqs[i] # 0 => q.seqs[i] > 1
    BY <1>1 DEF Shaped
  <1>3. /\ Shaped(pass') /\ pass'.pc \in {"delete", "mark", "list", "done"}
        /\ \A i \in pass'.todo : i \in q.todo /\ pass'.seqs = q.seqs /\ pass'.left = q.left
    BY <1>1, <1>2, PageStepCover
  <1>4. ASSUME NEW i \in Ids, Heard(i)' PROVE Ruled(i)'
    <2>1. ASSUME i \in pass'.todo
          PROVE  PassVersion' \notin src'[i].vs \/ Superseded(i, PassVersion, pass.seqs[i])'
      <3>1. PICK v, n : v = PassVersion /\ n = pass.seqs[i]
        OBVIOUS
      <3>2. PassVersion' = v /\ pass'.seqs[i] = n
        BY <1>3, <2>1, <3>1 DEF PassVersion
      <3>3. v \notin src[i].vs \/ Superseded(i, v, n)'
        BY <1>3, <1>4, <2>1, <3>1
      <3>4. Superseded(i, v, n)' => Superseded(i, PassVersion, pass.seqs[i])'
        BY <3>2 DEF Superseded
      <3>. QED  BY <3>2, <3>3, <3>4 DEF Parts
    <2>. QED  BY <1>3, <2>1 DEF Ruled
  <1>5. ASSUME used'.errors = 0 PROVE Decides(pass', Coverage')
    <2>1. Decides(pass, Coverage)
      BY <1>1, <1>5 DEF CoverInv, Deciding
    <2>2. Decides(pass, Coverage')
      BY <2>1, CoverageFacts, DecidesGrows
    <2>3. \A i \in Ids : (\A v \in Setup.pass \ q.left : v \in Coverage'[i])
                         /\ (Awaited(pass, i) \/ LeastOf(q.left) \in Coverage'[i])
      BY <1>1, <2>2 DEF Decides
    <2>4. \A i \in Ids : Coming(pass, i) => Coming(q, i)
      BY DEF Coming
    <2>5. \A i \in Ids : /\ \A v \in Setup.pass \ q.left : v \in Coverage'[i]
                         /\ \/ Coming(q, i) \/ LeastOf(q.left) \in Coverage'[i]
                            \/ i \in q.page /\ i \in q.todo \cup q.returned
      BY <1>5, <2>3, <2>4 DEF PassVersion
    <2>6. Decides(PageStep(q), Coverage')
      BY <1>1, <1>2, <2>5, PageStepCover
    <2>. QED  BY <2>6
  <1>. QED  BY <1>3, <1>4, <1>5, PassCover

\* The probe answers, for what its metadata still asks for.
LEMMA ProbeCover ==
    ASSUME BaseInv, TypeOK', Fixed, CoverInv, Parts, ProbePage
    PROVE  CoverInv'
  <1>. TypeOK /\ Underway /\ Drawn
    BY DEF BaseInv
  <1>. DEFINE asked == {i \in Ids : pass.seqs[i] # 0}
              found == {i \in asked : Finds(i, PassVersion, Setup.md)}
  <1>1. /\ pass.pc = "probe" /\ UNCHANGED <<used, seq, src, notices, unheard, exposed, rows, docs, edges, live, fwd>>
        /\ pass' = PageStep([pass EXCEPT !.todo = asked \ found, !.returned = found])
    BY DEF ProbePage, source, store
  <1>3. PICK S \in SUBSET Ids, T \in SUBSET Ids : S = asked \ found /\ T = found
    OBVIOUS
  <1>4. PICK q : q = [pass EXCEPT !.todo = S, !.returned = T]
    OBVIOUS
  <1>5. /\ q \in Pass /\ q.left = pass.left /\ q.seqs = pass.seqs /\ q.page = pass.page
        /\ q.todo = S /\ q.returned = T
    BY <1>4 DEF TypeOK, Pass
  <1>6. pass' = PageStep(q)
    BY <1>1, <1>3, <1>4
  <1>7. \A i \in Ids : pass.seqs[i] # 0 <=> i \in S \cup T
    BY <1>3
  <1>8. ASSUME NEW i \in S, Heard(i)'
        PROVE  PassVersion \notin src[i].vs \/ \A v, n : v = PassVersion /\ n = pass.seqs[i] => Superseded(i, v, n)'
    <2>1. i \in Ids /\ pass.seqs[i] # 0 /\ ~Finds(i, PassVersion, Setup.md)
      BY <1>3
    <2>2. Ruled(i)
      BY <1>1, <1>8, <2>1 DEF Heard, CoverInv
    <2>3. \A v, n : Superseded(i, v, n) => Superseded(i, v, n)'
      BY <1>1 DEF Superseded
    <2>4. src[i].md = Setup.md \/ src[i].vs = {} => PassVersion \notin src[i].vs
      BY <2>1 DEF Finds
    <2>. QED  BY <1>1, <2>1, <2>2, <2>3, <2>4 DEF Ruled
  <1>9. ASSUME NEW i \in Ids, Awaited(pass, i)
        PROVE  Coming(pass, i) \/ (i \in pass.page /\ i \in q.todo \cup q.returned)
    <2>1. pass.todo = {} /\ pass.returned = {}
      BY <1>1 DEF CoverInv, PassShape, Shaped
    <2>. QED  BY <1>1, <1>5, <1>7, <1>9, <2>1 DEF Awaited, InHand
  <1>10. pass.pc \in InHand /\ used' = used
    BY <1>1 DEF InHand
  <1>11. \A i \in q.todo : q.seqs[i] # 0
    BY <1>5, <1>7
  <1>. HIDE DEF asked, found
  <1>. QED  BY <1>5, <1>6, <1>8, <1>9, <1>10, <1>11, PageCover

\* What was excluded stays ruled while others are written.
LEMMA RestRuled ==
    ASSUME BaseInv, TypeOK', Fixed, CoverInv, Parts,
           NEW i \in pass.todo, Heard(i)'
    PROVE  PassVersion \notin src[i].vs \/ \A v, n : v = PassVersion /\ n = pass.seqs[i] => Superseded(i, v, n)'
  <1>. TypeOK /\ Underway /\ Drawn
    BY DEF BaseInv
  <1>1. i \in Ids /\ pass.left # {} /\ pass \in Pass
    BY DEF TypeOK, Pass, CoverInv, PassShape, Shaped, InHand
  <1>2. Heard(i) \/ Registers(i)
    BY <1>1, HeardStep
  <1>3. Heard(i) => Ruled(i)
    BY <1>1 DEF CoverInv
  <1>4. PassVersion \in Versions
    BY <1>1, VersionFacts DEF PassVersion
  <1>5. pass.seqs[i] \in Nat /\ pass.seqs[i] <= seq
    BY <1>1, IdTypes
  <1>6. ASSUME NEW v, NEW n, v = PassVersion, n = pass.seqs[i], Superseded(i, v, n) \/ Registers(i)
        PROVE  Superseded(i, v, n)' \/ src[i].vs = {}
    BY <1>1, <1>4, <1>5, <1>6, IdsFacts
  <1>. QED  BY <1>2, <1>3, <1>6 DEF Ruled

\* An excluded id is deleted.
LEMMA DeleteCover ==
    ASSUME BaseInv, TypeOK', Fixed, CoverInv, Parts, DeleteExcluded
    PROVE  CoverInv'
  <1>. TypeOK /\ Underway /\ Drawn
    BY DEF BaseInv
  <1>1. /\ pass.pc = "delete" /\ UNCHANGED <<used, seq, src, notices, unheard>>
        /\ pass' = [pass EXCEPT !.pc = "edges"]
    BY DEF DeleteExcluded, source
  <1>2. Shaped(pass) /\ pass \in Pass /\ PassShape
    BY DEF CoverInv, PassShape, TypeOK
  <1>3. docs'[Excluded][PassVersion].ver >= pass.seqs[Excluded]
    BY <1>2, DeleteVersion
  <1>5. /\ pass'.pc = "edges" /\ pass'.page = pass.page /\ pass'.left = pass.left
        /\ pass'.seqs = pass.seqs /\ pass'.todo = pass.todo /\ pass'.returned = pass.returned
    BY <1>1, <1>2 DEF Pass
  <1>6. Shaped(pass')
    BY <1>1, <1>2, <1>5 DEF Shaped, InHand
  <1>7. \A i \in Ids : Awaited(pass, i) => Awaited(pass', i)
    BY <1>1, <1>5 DEF Awaited, Coming, InHand
  <1>8. used'.errors = 0 => Decides(pass', Coverage')
    <2>1. used'.errors = 0 => Decides(pass, Coverage)
      BY <1>1 DEF CoverInv, Deciding
    <2>2. used'.errors = 0 => Decides(pass, Coverage')
      BY <2>1, CoverageFacts, DecidesGrows
    <2>. QED  BY <1>1, <1>5, <1>7, <2>2 DEF Decides
  <1>9. \A i \in Ids : Heard(i)' => Ruled(i)'
    BY <1>5, RuledStep
  <1>10. pass'.pc = "edges" =>
           docs'[LeastOf(pass'.todo)][LeastOf(pass'.left)].ver >= pass'.seqs[LeastOf(pass'.todo)]
    BY <1>3, <1>5 DEF Excluded, PassVersion
  <1>. QED  BY <1>6, <1>8, <1>9, <1>10, PassCover

\* An excluded id's edge set is emptied, or its write fails.
LEMMA EdgesCover ==
    ASSUME BaseInv, TypeOK', Fixed, CoverInv, Parts, EmptyEdges \/ ExcludedFails,
           used'.errors = 0 => used.errors = 0, Spend("errors") => used'.errors # 0
    PROVE  CoverInv'
  <1>. TypeOK /\ Underway /\ Drawn
    BY DEF BaseInv
  <1>1. /\ pass.pc \in {"delete", "edges"} /\ UNCHANGED <<seq, src, notices, unheard>>
        /\ pass' = PageStep([pass EXCEPT !.todo = pass.todo \ {Excluded}])
    BY DEF EmptyEdges, ExcludedFails, source
  <1>2. Shaped(pass) /\ pass \in Pass /\ PassShape
    BY DEF CoverInv, PassShape, TypeOK
  <1>5. Excluded \in Ids /\ PassVersion \in Versions
    BY <1>1, <1>2, ExcludedFacts
  <1>6. PICK S \in SUBSET Ids : S = pass.todo \ {Excluded}
    BY <1>2 DEF Pass
  <1>7. PICK q : q = [pass EXCEPT !.todo = S]
    OBVIOUS
  <1>8. /\ q \in Pass /\ q.left = pass.left /\ q.seqs = pass.seqs /\ q.page = pass.page
        /\ q.todo = S /\ q.returned = pass.returned
    BY <1>2, <1>7 DEF Pass
  <1>9. pass' = PageStep(q)
    BY <1>1, <1>6, <1>7
  <1>10. \A i \in q.todo : q.seqs[i] # 0
    BY <1>2, <1>6, <1>8 DEF Shaped
  <1>11. ASSUME NEW i \in q.todo, Heard(i)'
         PROVE  PassVersion \notin src[i].vs \/ \A v, n : v = PassVersion /\ n = pass.seqs[i] => Superseded(i, v, n)'
    BY <1>1, <1>6, <1>8, <1>11, RestRuled
  <1>12. used'.errors = 0 => PassVersion \in Coverage'[Excluded]
    <2>1. SUFFICES ASSUME EmptyEdges PROVE PassVersion \in Coverage'[Excluded]
      BY DEF ExcludedFails
    <2>2. PICK i \in Ids, v \in Versions : i = Excluded /\ v = PassVersion
      BY <1>5
    <2>3. edges'[i][v].stamp # 0
      BY <1>2, <2>1, <2>2, EdgesStamp
    <2>4. Covered(i, v)'
      BY <2>3 DEF Covered
    <2>. QED  BY <2>2, <2>4, CoverageFacts
  <1>13. ASSUME used'.errors = 0, NEW i \in Ids, Awaited(pass, i)
         PROVE  \/ Coming(pass, i) \/ PassVersion \in Coverage'[i]
                \/ i \in pass.page /\ i \in q.todo \cup q.returned
    <2>1. Coming(pass, i) \/ (i \in pass.page /\ i \in pass.todo \cup pass.returned)
      BY <1>1, <1>13 DEF Awaited
    <2>2. i = Excluded \/ (i \in pass.todo \cup pass.returned => i \in q.todo \cup q.returned)
      BY <1>6, <1>8
    <2>. QED  BY <1>12, <1>13, <2>1, <2>2
  <1>14. pass.pc \in InHand
    BY <1>1 DEF InHand
  <1>. QED  BY <1>8, <1>9, <1>10, <1>11, <1>13, <1>14, PageCover

\* What the probe returned is marked, or the mark fails.
LEMMA ReturnedCover ==
    ASSUME BaseInv, TypeOK', Fixed, CoverInv, Parts, MarkReturned \/ MarkReturnedFails,
           used'.errors = 0 => used.errors = 0, Spend("errors") => used'.errors # 0
    PROVE  CoverInv'
  <1>. TypeOK /\ Underway /\ Drawn
    BY DEF BaseInv
  <1>1. /\ pass.pc = "mark" /\ UNCHANGED <<src, notices, unheard, docs, edges, live>>
        /\ pass' = PageStep([pass EXCEPT !.returned = {}])
    BY DEF MarkReturned, MarkReturnedFails, source, store
  <1>2. Shaped(pass) /\ pass \in Pass /\ pass.returned \in SUBSET Ids /\ pass.todo = {} /\ pass.left # {}
    BY <1>1 DEF CoverInv, PassShape, TypeOK, Pass, Shaped, InHand
  <1>3. MarkReturned => \A i \in pass.returned : Marks(i)
    BY <1>2, MarkStep DEF MarkReturned, source
  <1>7. PassVersion \in Versions
    BY <1>2, VersionFacts DEF PassVersion
  <1>8. PICK q : q = [pass EXCEPT !.returned = {}]
    OBVIOUS
  <1>9. /\ q \in Pass /\ q.left = pass.left /\ q.seqs = pass.seqs /\ q.page = pass.page
        /\ q.todo = {} /\ q.returned = {}
    BY <1>2, <1>8 DEF Pass
  <1>10. pass' = PageStep(q)
    BY <1>1, <1>8
  <1>11. ASSUME used'.errors = 0, NEW i \in Ids, Awaited(pass, i)
         PROVE  Coming(pass, i) \/ PassVersion \in Coverage'[i]
    <2>1. MarkReturned
      BY <1>11 DEF MarkReturnedFails
    <2>2. Coming(pass, i) \/ i \in pass.returned
      BY <1>1, <1>2, <1>11 DEF Awaited
    <2>3. i \in pass.returned => Versions \subseteq Coverage'[i]
      BY <1>3, <2>1, CoverageFacts
    <2>. QED  BY <1>7, <2>2, <2>3
  <1>12. pass.pc \in InHand
    BY <1>1 DEF InHand
  <1>. QED  BY <1>9, <1>10, <1>11, <1>12, PageCover

\* A probe that fails leaves its page to be decided by nobody.
LEMMA ProbeFailCover ==
    ASSUME BaseInv, TypeOK', Fixed, CoverInv, Parts, ProbePageFails,
           used'.errors = 0 => used.errors = 0, Spend("errors") => used'.errors # 0
    PROVE  CoverInv'
  <1>. TypeOK /\ Underway /\ Drawn
    BY DEF BaseInv
  <1>1. /\ pass.pc = "probe" /\ UNCHANGED <<seq, src, notices, unheard, exposed, rows, docs, edges, live>>
        /\ pass' = PageStep(pass) /\ used'.errors # 0
    BY DEF ProbePageFails, source, store
  <1>3. pass \in Pass /\ pass.todo = {} /\ pass.pc \in InHand
    BY <1>1 DEF CoverInv, PassShape, Shaped, InHand, TypeOK
  <1>. QED  BY <1>1, <1>3, PageCover

\* A new pass has everything before it.
LEMMA NewPassCover ==
    ASSUME used \in Used
    PROVE  /\ Shaped(NewPass) /\ Shaped([NewPass EXCEPT !.pc = "failed"])
           /\ NewPass.pc \in {"off", "list"} /\ NewPass.todo = {}
           /\ [NewPass EXCEPT !.pc = "failed"].pc = "failed"
           /\ [NewPass EXCEPT !.pc = "failed"].todo = {}
           /\ NewPass.pc # "off" => \A c : Decides(NewPass, c)
  <1>1. NoSeqs \in [Ids -> Nat] /\ \A i \in Ids : NoSeqs[i] = 0
    BY DEF NoSeqs
  <1>2. PICK p, s : p = Setup.pass /\ s = NoSeqs
    OBVIOUS
  <1>3. PICK pc : pc = (IF p = {} THEN "off" ELSE "list")
    OBVIOUS
  <1>4. NewPass = [pc |-> pc, left |-> p, after |-> 0, page |-> {}, seqs |-> s, todo |-> {}, returned |-> {}]
    BY <1>2, <1>3 DEF NewPass
  <1>5. /\ NewPass.pc = pc /\ NewPass.left = p /\ NewPass.after = 0 /\ NewPass.seqs = s
        /\ NewPass.todo = {} /\ NewPass.returned = {}
    BY <1>4
  <1>6. [NewPass EXCEPT !.pc = "failed"] =
          [pc |-> "failed", left |-> p, after |-> 0, page |-> {}, seqs |-> s, todo |-> {}, returned |-> {}]
    BY <1>4
  <1>7. PICK f : f = [NewPass EXCEPT !.pc = "failed"]
    OBVIOUS
  <1>8. f.pc = "failed" /\ f.left = p /\ f.todo = {} /\ f.returned = {} /\ f.seqs = s
    BY <1>6, <1>7
  <1>9. Shaped(NewPass)
    BY <1>1, <1>2, <1>3, <1>5 DEF Shaped, InHand
  <1>10. Shaped(f)
    BY <1>1, <1>2, <1>8 DEF Shaped, InHand
  <1>11. ASSUME NewPass.pc # "off", NEW c PROVE Decides(NewPass, c)
    <2>1. \A i \in Ids : i > 0
      BY SetupFacts
    <2>2. \A i \in Ids : Awaited(NewPass, i)
      BY <1>3, <1>5, <1>11, <2>1 DEF Awaited
    <2>. QED  BY <1>2, <1>5, <2>2 DEF Decides
  <1>. QED  BY <1>3, <1>5, <1>7, <1>8, <1>9, <1>10, <1>11

\* A pass that fails or is lost starts again, or not.
LEMMA PassEndsCover ==
    ASSUME BaseInv, TypeOK', Fixed, CoverInv, Parts, PassEnds
    PROVE  CoverInv'
  <1>. TypeOK /\ Underway /\ Drawn
    BY DEF BaseInv
  <1>1. /\ UNCHANGED <<seq, src, notices, unheard, rows, docs, edges, live>>
        /\ pass' \in {NewPass, [NewPass EXCEPT !.pc = "failed"]}
    BY DEF PassEnds, source, store
  <1>2. used \in Used
    BY DEF TypeOK
  <1>3. /\ Shaped(pass') /\ pass'.pc \in {"off", "list", "failed"} /\ pass'.todo = {}
        /\ pass'.pc \notin {"off", "failed"} => Decides(pass', Coverage')
    <2>1. CASE pass' = NewPass
      BY <1>2, <2>1, NewPassCover
    <2>2. CASE pass' = [NewPass EXCEPT !.pc = "failed"]
      BY <1>2, <2>2, NewPassCover
    <2>. QED  BY <1>1, <2>1, <2>2
  <1>4. \A i \in Ids : Ruled(i)'
    BY <1>3 DEF Ruled
  <1>. QED  BY <1>3, <1>4, PassCover


\* Every step keeps what is covered and what is answered.
LEMMA NextCover ==
    ASSUME AuditInv, AuditInv', CoverInv, [Next]_vars
    PROVE  CoverInv'
  <1>0. BaseInv /\ TypeOK /\ TypeOK' /\ PassShape
    BY DEF AuditInv, BaseInv, CoverInv
  <1>1. Fixed
    BY <1>0, StepFixed
  <1>2. /\ used'.errors = 0 => used.errors = 0
        /\ Spend("errors") => used'.errors # 0
    BY <1>0, ErrorFacts
  <1>3. CASE Parts
    <2>1. CASE PassStep
      <3>1. CASE ListUncovered \/ BeginPage \/ ProbePage
        BY <1>0, <1>1, <1>3, <3>1, ListCover, BeginCover, ProbeCover
      <3>2. CASE DeleteExcluded \/ PassEnds
        BY <1>0, <1>1, <1>3, <3>2, DeleteCover, PassEndsCover
      <3>3. CASE EmptyEdges \/ ExcludedFails
        BY <1>0, <1>1, <1>2, <1>3, <3>3, EdgesCover
      <3>4. CASE MarkReturned \/ MarkReturnedFails
        BY <1>0, <1>1, <1>2, <1>3, <3>4, ReturnedCover
      <3>5. CASE ProbePageFails
        BY <1>0, <1>1, <1>2, <1>3, <3>5, ProbeFailCover
      <3>. QED  BY <2>1, <3>1, <3>2, <3>3, <3>4, <3>5 DEF PassStep
    <2>2. CASE ~PassStep
      <3>1. ASSUME NEW i \in Ids, SourceStep(i) \/ BuildStep(i) \/ BuildFails(i) PROVE pass' = pass
        BY <3>1 DEF SourceStep, BuildStep, Change, Register, BuildBegins, BuildEnds, BuildFails
      <3>2. ASSUME NEW a \in DOMAIN atts, AttemptStep(a) \/ AttemptError(a) PROVE pass' = pass
        BY <3>2 DEF AttemptStep, ListPage, Probe, ProbeFails, MarkPage, AttemptError
      <3>3. FwdStep => pass' = pass
        BY DEF FwdStep, StartWalk, WalkEnds, WalkFails, WalksDone, WalkId, WalkFetches, WalkBegins,
               WalkWrites, WalkSettles, WalkRemarks, WalkMarks
      <3>4. StartRun \/ Beat \/ BeatTimesOut \/ Rest \/ UNCHANGED vars => pass' = pass
        BY DEF StartRun, Beat, BeatTimesOut, Rest, vars
      <3>5. pass' = pass
        BY <2>2, <3>1, <3>2, <3>3, <3>4 DEF Next
      <3>. QED  BY <1>0, <1>1, <1>2, <1>3, <3>5, StandCover
    <2>. QED  BY <2>1, <2>2
  <1>4. CASE StartRun
    BY <1>1, <1>4, StartCover
  <1>5. ASSUME NEW i \in Ids, Change(i) PROVE CoverInv'
    BY <1>0, <1>1, <1>2, <1>5, ChangeCover
  <1>. QED  BY <1>0, <1>3, <1>4, <1>5, StepParts

\* The first state has it: nothing is marked, and what is covered answers, or
\* nobody notified the change.
LEMMA InitCover ==
    ASSUME Init
    PROVE  CoverInv
  <1>0. used \in Used
    <2>1. used \in [setup : DOMAIN Setups, changes : {0}, losses : {0}, errors : {0}, crashes : {0}]
      BY Zenon DEF Init
    <2>. QED  BY <2>1 DEF Used
  <1>2. PICK rowless \in IF Setup.rowless THEN SUBSET Ids ELSE {{}}, left \in [Ids -> BOOLEAN] :
        /\ rows = [i \in Ids |-> IF i \in rowless THEN NoRow
                                 ELSE [NoRow EXCEPT !.present = TRUE, !.md = src[i].md]]
        /\ docs = [i \in Ids |-> [v \in Versions |->
              IF i \in rowless \/ (v \in Setup.pass /\ ~left[i]) THEN [ver |-> 0, body |-> NoBody]
              ELSE IF Setup.pass # {} /\ v \notin Setup.pass
              THEN [ver |-> 1, body |-> Fetched(i, v, src[i].md)]
              ELSE [ver |-> 1, body |-> [found |-> TRUE, n |-> 0]]]]
        /\ edges = [i \in Ids |-> [v \in Versions |->
              IF i \in rowless \/ v \in Setup.pass THEN NoEdges ELSE [stamp |-> 1, kids |-> {}]]]
        /\ Setup.pass = {} => left = [i \in Ids |-> TRUE]
    BY Zenon DEF Init
  <1>3. ASSUME NEW i \in Ids
        PROVE  ~rows[i].tomb /\ rows[i].mark = 0 /\ (rows[i].present => rows[i].md = src[i].md)
    <2>1. PICK md : md = src[i].md
      OBVIOUS
    <2>2. rows[i] = IF i \in rowless THEN NoRow ELSE [NoRow EXCEPT !.present = TRUE, !.md = md]
      BY <1>2, <2>1
    <2>. QED  BY <2>1, <2>2 DEF NoRow
  <1>4. live = [i \in Ids |-> NoLive] /\ notices = {} /\ pass = NewPass
    BY Zenon DEF Init
  <1>5. ASSUME NEW i \in Ids PROVE fwd.hand[i].pc = "none"
    <2>1. fwd.hand = NoHands
      <3>1. fwd = [pc |-> IF Setup.walks = <<>> THEN "off" ELSE "next", left |-> Setup.walks,
                   start |-> 0, todo |-> {}, hand |-> NoHands, marked |-> FALSE, errs |-> {}]
        BY Zenon DEF Init
      <3>. QED  BY <3>1
    <2>. QED  BY <2>1 DEF NoHands, NoHand
  <1>6. ASSUME NEW i \in Ids, NEW v \in Versions
        PROVE  /\ ~(docs[i][v].ver > 1)
               /\ edges[i][v].stamp # 0 => v \notin Setup.pass
    <2>1. PICK body : docs[i][v] \in {[ver |-> 0, body |-> body], [ver |-> 1, body |-> body]}
      BY <1>2
    <2>2. ~(docs[i][v].ver > 1)
      BY <2>1
    <2>3. v \in Setup.pass => edges[i][v] = NoEdges
      BY <1>2
    <2>. QED  BY <2>2, <2>3 DEF NoEdges
  <1>7. ASSUME NEW i \in Ids, Heard(i) PROVE Truthful(i)
    <2>1. ASSUME NEW v \in Versions, edges[i][v].stamp # 0 PROVE Agrees(i, v)
      <3>1. v \in Versions \ Setup.pass
        BY <1>6, <2>1
      <3>2. i \notin unheard
        BY <1>7 DEF Heard
      <3>3. unheard = {j \in Ids : \E w \in Versions \ Setup.pass :
                           docs[j][w].body.found # (w \in src[j].vs)}
        BY Zenon DEF Init
      <3>. QED  BY <3>1, <3>2, <3>3, Zenon DEF Agrees
    <2>2. \A v \in Versions : Decisive(i, v) => Agrees(i, v)
      BY <1>6, <2>1 DEF Decisive
    <2>3. live[i] = NoLive /\ ~Outdated(i)
      BY <1>4, <1>5 DEF Outdated
    <2>. QED  BY <1>3, <2>2, <2>3 DEF Truthful
  <1>8. /\ Shaped(pass) /\ pass.pc \in {"off", "list"} /\ pass.todo = {}
        /\ pass.pc # "off" => Decides(pass, Coverage)
    BY <1>0, <1>4, NewPassCover
  <1>9. \A i \in Ids : Ruled(i)
    BY <1>8 DEF Ruled
  <1>10. PassShape /\ Deciding
    BY <1>8 DEF PassShape, Deciding
  <1>. QED  BY <1>7, <1>9, <1>10 DEF CoverInv

-----------------------------------------------------------------------------
(* What SourceAudit promises *)

\* The invariant holds of every behaviour: of rows, documents and builds under
\* reverse sweeps, probe passes, registrations and forward walks whose fetch,
\* begin, write and clear are steps of their own, for every deployment, page
\* size and retry policy.
THEOREM AuditInvariant == Spec => [](AuditInv /\ CoverInv)
  <1>1. Init => AuditInv /\ CoverInv
    BY InitInv, InitCover
  <1>2. AuditInv /\ CoverInv /\ [Next]_vars => AuditInv' /\ CoverInv'
    <2>1. SUFFICES ASSUME AuditInv, CoverInv, [Next]_vars PROVE AuditInv' /\ CoverInv'
      OBVIOUS
    <2>2. AuditInv'
      BY <2>1, NextInv DEF CoverInv
    <2>. QED  BY <2>1, <2>2, NextCover
  <1>. QED  BY <1>1, <1>2, PTL DEF Spec

\* The rows, documents, attempts, pass and walk keep their types, and no run
\* has more attempts than its retry policy allows.
THEOREM AuditTypes == Spec => []TypeOK
  <1>1. AuditInv => TypeOK
    BY DEF AuditInv, BaseInv
  <1>. QED  BY <1>1, AuditInvariant, PTL

\* RunReverseSweep passes no listable row of a resource the source had lost
\* when its run began without marking it, unless its probe failed, whatever
\* attempts are retried or run on beside their successors and whatever builds
\* and registrations do to the row meanwhile, and whatever a walk that began
\* its older answer before the run, or fetches it after, writes and clears.
THEOREM SweepsMissNothing == Spec => []SweptIsSettled
  <1>1. AuditInv => SweptIsSettled
    <2>1. SUFFICES ASSUME AuditInv, NEW i \in gone \ skipped, Listable(i),
                          i <= sweep.recorded \/ sweep.outcome = "done"
                   PROVE  Settled(i)
      BY DEF SweptIsSettled
    <2>2. i \in Nat /\ sweep.recorded \in Nat
      <3>1. i \in Ids /\ used \in Used /\ sweep \in Sweep
        BY <2>1 DEF AuditInv, BaseInv, TypeOK
      <3>. QED  BY <3>1, SetupFacts DEF Sweep
    <2>3. ~Ahead(i)
      BY <2>1, <2>2 DEF Ahead, Unreached
    <2>4. Kept(i)
      BY <2>1, <2>3 DEF AuditInv, Swept
    <2>. QED  BY <2>1, <2>4 DEF Kept, Settled, Known, Listable
  <1>. QED  BY <1>1, AuditInvariant, PTL

\* No sweep, probe pass, late build or walk that finds the change registered
\* leaves the unmarked row of a resource whose delete was notified: what is
\* left is the row a walk inserts for a page it fetched before the delete's
\* build removed it.
THEOREM NoRowComesBack == Spec => []NoGhostRow
  <1>1. AuditInv => NoGhostRow
    <2>1. SUFFICES ASSUME AuditInv, Quiet, NEW i \in Ids \ (unheard \cup exposed), rows[i].present,
                          src[i].vs = {}
                   PROVE  rows[i].stale
      BY DEF NoGhostRow
    <2>2. Heard(i)
      BY <2>1 DEF Quiet, Heard
    <2>. QED  BY <2>1, <2>2 DEF AuditInv, Buries, Buried
  <1>. QED  BY <1>1, AuditInvariant, PTL

\* Whatever builds, walks, sweeps and registrations do between a probe pass's
\* listing, begin, probe and writes, and between a walk's fetch and its clear:
\* a pass none of whose calls failed leaves no row of its metadata undecided,
\* and a version that covers an unmarked row nobody has in hand has the
\* document exactly when its plan finds the resource, unless a change of it is
\* not registered yet or its row went, or the walk was lost, under the walk's
\* older answer.
THEOREM PassAnswers == Spec => []CoveredIsAnswered
  <1>1. AuditInv /\ CoverInv => CoveredIsAnswered
    <2>1. SUFFICES ASSUME AuditInv, CoverInv, NEW i \in Ids, NEW v \in Versions
                   PROVE  /\ Decided(i, v)
                          /\ i \notin unheard \cup notices \cup exposed => Answered(i, v)
      BY DEF CoveredIsAnswered
    <2>2. TypeOK /\ Drawn /\ Ordered(i)
      BY <2>1 DEF AuditInv, BaseInv
    <2>3. rows[i].mark \in Nat /\ docs[i][v].ver \in Nat /\ rows[i].stale \in BOOLEAN
      BY <2>2, IdTypes
    <2>4. Decided(i, v)
      <3>1. SUFFICES ASSUME pass.pc = "done", used.errors = 0, v \in Setup.pass, rows[i].present,
                            ~rows[i].tomb, rows[i].md = Setup.md, fwd.hand[i].pc = "none",
                            i \notin exposed
                     PROVE  ~Uncovered(i, v)
        BY DEF Decided
      <3>2. pass.left = {}
        BY <2>1, <3>1 DEF CoverInv, PassShape, Shaped
      <3>3. v \in Coverage[i]
        BY <2>1, <3>1, <3>2 DEF CoverInv, Deciding, Decides
      <3>4. Covered(i, v)
        BY <3>3 DEF Coverage
      <3>. QED  BY <2>3, <3>1, <3>4 DEF Covered, Clean, Uncovered, Held
    <2>5. ASSUME i \notin unheard \cup notices \cup exposed PROVE Answered(i, v)
      <3>1. SUFFICES ASSUME rows[i].present, ~rows[i].stale, fwd.hand[i].pc = "none",
                            edges[i][v].stamp # 0
                     PROVE  Agrees(i, v)
        BY DEF Answered, Uncovered, Agrees
      <3>2. Truthful(i) /\ ~Late(i)
        BY <2>1, <2>5, <3>1 DEF CoverInv, Heard, Late, Held
      <3>3. Decisive(i, v)
        <4>1. CASE rows[i].mark = 0
          BY <3>1, <4>1 DEF Decisive
        <4>2. CASE rows[i].mark # 0
          <5>1. docs[i][v].ver > rows[i].mark /\ rows[i].mark > 1
            BY <2>2, <3>1, <4>2 DEF Ordered, Clean
          <5>. QED  BY <2>3, <5>1 DEF Decisive
        <4>. QED  BY <4>1, <4>2
      <3>. QED  BY <3>2, <3>3 DEF Truthful
    <2>. QED  BY <2>4, <2>5
  <1>. QED  BY <1>1, AuditInvariant, PTL

==============================================================================
