--------------------------- MODULE RowLocksProofs ---------------------------
(***************************************************************************)
(* Proofs about RowLocks, for any number of calls made at once, of any     *)
(* resources, Schema Versions and Build Sequences, over any rows and edge  *)
(* sets they may find.                                                     *)
(***************************************************************************)
EXTENDS RowLocks, WellFoundedInduction, TLAPS

-----------------------------------------------------------------------------
(* The inductive invariant *)

PCs == {"idle", "lock", "write", "parents", "meta", "commit", "over"}

TypeOK ==
    /\ setup \in Setups
    /\ rows \subseteq Resources
    /\ edges \in EdgeTables
    /\ lock \in [Locks -> Txs \cup {None}]
    /\ pc \in [Txs -> PCs]
    /\ todo \in [Txs -> SUBSET Nat]
    /\ seen \in [Txs -> [rows : SUBSET Resources, edges : EdgeTables]]
    /\ took \in [Txs -> SUBSET Versions]
    /\ cut \in [Txs -> SUBSET Nat]
    /\ made \in [Txs -> SUBSET Resources]
    /\ moved \in [Txs -> SUBSET Locks]
    /\ out \in [Txs -> [Versions -> SUBSET Resources]]

Open(t) == pc[t] \notin {"idle", "over"}

\* Which rows a transaction has still to come to, and which it writes.
TodoOf(t) ==
    /\ took[t] \subseteq DOMAIN Call(t).sets
    /\ cut[t] \subseteq (IF OfEdges(t) THEN Versions ELSE Resources)
    /\ pc[t] = "lock" => todo[t] \subseteq (IF OfEdges(t) THEN Versions ELSE Resources)
    /\ pc[t] = "write" => Call(t).kind \in {"mark", "register"} /\ todo[t] \subseteq Call(t).items
    /\ pc[t] = "parents" => Call(t).kind = "register"
                               /\ todo[t] \subseteq Parents(seen[t].edges, Call(t).items)
    /\ pc[t] = "meta" => Call(t).kind = "replace" /\ todo[t] \subseteq {Call(t).at}

TodoKnown == \A t \in Txs : TodoOf(t)

\* An edge_sets row is held by a transaction of its resource, which has only
\* rows of higher versions left to take.
EdgeLocksAscend ==
    \A r \in Resources, v \in Versions, t \in Txs :
        lock[EdgeLock(r, v)] = t =>
            /\ OfEdges(t) /\ Call(t).at = r /\ Open(t)
            /\ pc[t] = "lock" => \A x \in todo[t] : v < x

\* A resources row is held by a transaction of edge sets that has nothing left
\* to take, or by one that has only higher rows left to lock.
RowLocksAscend ==
    \A r \in Resources, t \in Txs :
        lock[RowLock(r)] = t =>
            /\ Open(t)
            /\ OfEdges(t) => pc[t] = "commit" \/ (pc[t] = "meta" /\ todo[t] = {})
            /\ pc[t] = "lock" => \A x \in todo[t] : r < x

\* The rows a statement is to write were locked before it writes the first,
\* but for those that were not there and those that have been removed.
InputOf(t) ==
    Call(t).kind \in {"mark", "register"} /\ pc[t] \in {"lock", "write", "parents"} =>
        \A r \in seen[t].rows \cap Input(t, seen[t].edges) :
            \/ RowLock(r) \in moved[t]
            \/ lock[RowLock(r)] = t
            \/ pc[t] = "lock" /\ r \in todo[t]

InputLocked == \A t \in Txs : InputOf(t)

LockInv == TypeOK /\ TodoKnown /\ EdgeLocksAscend /\ RowLocksAscend /\ InputLocked

-----------------------------------------------------------------------------
(* Facts about the operators *)

\* A set of numbers that is not empty has a least one, and LeastOf is it.
LEMMA LeastOfIsLeast ==
  ASSUME NEW S \in SUBSET Nat, S # {}
  PROVE  LeastOf(S) \in S /\ \A u \in S : LeastOf(S) <= u
<1>1. PICK x \in S : \A y \in S : ~(<<y, x>> \in OpToRel(<, Nat))
  BY NatLessThanWellFounded, WFMin
<1>2. \A y \in S : ~(y < x)
  BY <1>1 DEF OpToRel
<1>3. \A y \in S : x <= y
  BY <1>2
<1> QED
  BY <1>3 DEF LeastOf

\* Locks of different rows are different.
LEMMA LockNames ==
  /\ \A r, v, q, w : EdgeLock(r, v) = EdgeLock(q, w) => r = q /\ v = w
  /\ \A r, q : RowLock(r) = RowLock(q) => r = q
  /\ \A r, v, q : EdgeLock(r, v) # RowLock(q)
  BY DEF EdgeLock, RowLock

\* Every lock is of an edge_sets row or of a resources row.
LEMMA LockTypes ==
  /\ \A r \in Resources, v \in Versions : EdgeLock(r, v) \in Locks
  /\ \A r \in Resources : RowLock(r) \in Locks
  /\ \A l \in Locks : \/ \E r \in Resources, v \in Versions : l = EdgeLock(r, v)
                      \/ \E r \in Resources : l = RowLock(r)
  BY DEF Locks

\* What a setup gives the calls.
LEMMA SetupFacts ==
  ASSUME setup \in Setups
  PROVE  /\ Txs \subseteq Nat \ {0} /\ None \notin Txs
         /\ \A t \in Txs : IsCall(Call(t))
         /\ setup.rows \subseteq SUBSET Resources
         /\ setup.edges \subseteq EdgeTables
  BY LocksAssumption DEF IsSetup, Txs, Calls, Call, None

\* The row a transaction is at is the lowest of those it has left.
LEMMA HereFacts ==
  ASSUME TypeOK, NEW t \in Txs, todo[t] # {}
  PROVE  /\ Here(t) \in todo[t] /\ Here(t) \in Nat
         /\ \A x \in todo[t] : x \in Nat /\ Here(t) <= x
         /\ \A x \in todo[t] \ {Here(t)} : Here(t) < x
<1>1. todo[t] \in SUBSET Nat
  BY DEF TypeOK
<1>2. Here(t) \in todo[t] /\ \A u \in todo[t] : Here(t) <= u
  BY <1>1, LeastOfIsLeast DEF Here
<1> QED
  BY <1>1, <1>2

\* What the assumption on setups says of one call.
LEMMA CallFacts ==
  ASSUME TypeOK, NEW t \in Txs
  PROVE  /\ Call(t).kind \in Kinds /\ Call(t).at \in Resources /\ Call(t).items \subseteq Resources
         /\ Call(t).seq \in Nat /\ (OfEdges(t) => Call(t).seq # 0)
         /\ DOMAIN Call(t).sets \subseteq Versions
         /\ \A v \in DOMAIN Call(t).sets : Call(t).sets[v] \subseteq Resources
  BY SetupFacts DEF TypeOK, IsCall, OfEdges

-----------------------------------------------------------------------------
(* Typing *)

\* The steps past a lock, one row after the other.
LockStep(t) ==
    TakeSet(t) \/ DropSet(t) \/ RemoveSet(t) \/ LockRow(t) \/ WriteRow(t) \/ ReportMetadata(t)

\* The calls do not change.
LEMMA SetupStays ==
  ASSUME setup' = setup
  PROVE  /\ Txs' = Txs
         /\ \A t : Call(t)' = Call(t) /\ (OfEdges(t)' <=> OfEdges(t))
  BY DEF Txs, Calls, Call, OfEdges

\* Every step keeps the state well typed; in particular what a commit stores
\* is a table of edge sets.
LEMMA TypeStep ==
  ASSUME TypeOK, TodoKnown, NEW t \in Txs, Step(t)
  PROVE  TypeOK' /\ setup' = setup
<1>0. setup' = setup => Txs' = Txs
  BY SetupStays
<1>1. CASE Begin(t)
  <2>1. FirstLocks(t) \in SUBSET Nat
    BY CallFacts, LocksAssumption DEF FirstLocks, Undeclared, LockedInput, TypeOK
  <2> QED
    BY <1>1, <2>1, <1>0 DEF Begin, did, PCs, TypeOK
<1>2. CASE ListStale(t)
  BY <1>2, <1>0 DEF ListStale, did, PCs, TypeOK
<1>3. CASE LockStep(t)
  <2>1. /\ t \in Txs /\ setup' = setup /\ rows' = rows /\ edges' = edges /\ pc' = pc /\ seen' = seen
        /\ moved' = moved /\ out' = out
        /\ todo' = [todo EXCEPT ![t] = @ \ {Here(t)}]
        /\ lock' = lock \/ Takes(t)
        /\ todo[t] # {}
    BY <1>3 DEF LockStep, TakeSet, DropSet, RemoveSet, LockRow, WriteRow, ReportMetadata, Past, At
  <2>2. lock' \in [Locks -> Txs \cup {None}] /\ todo' \in [Txs -> SUBSET Nat]
    BY <2>1 DEF Takes, TypeOK
  <2>3. Here(t) \in Nat /\ Here(t) \in todo[t]
    BY <2>1, HereFacts
  <2>4. took' \in [Txs -> SUBSET Versions]
    <3>1. \/ took' = took
          \/ took' = [took EXCEPT ![t] = @ \cup {Here(t)}] /\ Here(t) \in DOMAIN Call(t).sets
      BY <1>3 DEF LockStep, TakeSet, DropSet, RemoveSet, LockRow, WriteRow, ReportMetadata, did
    <3>2. DOMAIN Call(t).sets \subseteq Versions /\ took \in [Txs -> SUBSET Versions]
      BY CallFacts DEF TypeOK
    <3> QED
      BY <3>1, <3>2
  <2>5. cut' \in [Txs -> SUBSET Nat]
    <3>1. cut' = cut \/ cut' = [cut EXCEPT ![t] = @ \cup {Here(t)}]
      BY <1>3 DEF LockStep, TakeSet, DropSet, RemoveSet, LockRow, WriteRow, ReportMetadata, did
    <3>2. cut \in [Txs -> SUBSET Nat]
      BY DEF TypeOK
    <3> QED
      BY <3>1, <3>2, <2>3
  <2>6. made' \in [Txs -> SUBSET Resources]
    <3>1. made' = made \/ (WriteRow(t) /\ made' = [made EXCEPT ![t] = @ \cup ({Here(t)} \ rows)])
      BY <1>3 DEF LockStep, TakeSet, DropSet, RemoveSet, LockRow, WriteRow, ReportMetadata, did
    <3>2. WriteRow(t) => Here(t) \in Resources
      BY <2>3, CallFacts DEF WriteRow, At, TodoKnown, TodoOf, Parents
    <3>3. made \in [Txs -> SUBSET Resources]
      BY DEF TypeOK
    <3> QED
      BY <3>1, <3>2, <3>3
  <2> QED
    BY <2>1, <2>2, <2>4, <2>5, <2>6, <1>0 DEF TypeOK
<1>4. CASE Locked(t)
  <2>1. Call(t).items \in SUBSET Nat /\ {Call(t).at} \in SUBSET Nat
    BY CallFacts, LocksAssumption
  <2>2. \A v \in took[t] : Rewritten(t, v) \in SUBSET Resources
    <3> SUFFICES ASSUME NEW v \in took[t] PROVE Rewritten(t, v) \in SUBSET Resources
      OBVIOUS
    <3>1. v \in Versions /\ Call(t).sets[v] \subseteq Resources /\ Call(t).at \in Resources
      BY CallFacts DEF TypeOK, TodoKnown, TodoOf
    <3>2. edges[Call(t).at][v].kids \subseteq Resources
      BY <3>1 DEF TypeOK, EdgeTables, EdgeSets
    <3> QED
      BY <3>1, <3>2 DEF Rewritten
  <2>3. /\ setup' = setup /\ rows' = rows /\ edges' = edges /\ lock' = lock /\ seen' = seen /\ moved' = moved
        /\ pc' \in [Txs -> PCs] /\ todo' \in [Txs -> SUBSET Nat]
    <3>1. PICK p \in PCs, next \in SUBSET Nat : Goes(t, p, next)
      BY <1>4, <2>1 DEF Locked, PCs
    <3> QED
      BY <3>1 DEF Goes, TypeOK
  <2>4. out' \in [Txs -> [Versions -> SUBSET Resources]]
    <3>1. [v \in Versions |-> IF v \in took[t] THEN Rewritten(t, v) ELSE {}] \in [Versions -> SUBSET Resources]
      BY <2>2
    <3>2. \/ out' = out
          \/ out' = [out EXCEPT ![t] = [v \in Versions |-> IF v \in took[t] THEN Rewritten(t, v) ELSE {}]]
      BY <1>4 DEF Locked
    <3> QED
      BY <3>1, <3>2 DEF TypeOK
  <2>5. took' = took /\ made' = made /\ cut' \in [Txs -> SUBSET Nat]
    BY <1>4, <2>1 DEF Locked, did, TypeOK
  <2> QED
    BY <2>3, <2>4, <2>5, <1>0 DEF TypeOK
<1>5. CASE AllWritten(t)
  <2>1. \A S : Parents(seen[t].edges, S) \ S \in SUBSET Nat
    BY LocksAssumption DEF Parents
  <2>2. todo' \in [Txs -> SUBSET Nat] /\ pc' \in [Txs -> PCs]
    <3>1. PICK p \in PCs, next \in SUBSET Nat : Goes(t, p, next)
      BY <1>5, <2>1 DEF AllWritten, PCs
    <3> QED
      BY <3>1 DEF Goes, TypeOK
  <2>3. UNCHANGED <<setup, rows, edges, lock, seen, did, moved, out>>
    BY <1>5 DEF AllWritten, Goes
  <2> QED
    BY <2>2, <2>3, <1>0 DEF TypeOK, did
<1>6. CASE Commit(t)
  <2>1. edges' \in EdgeTables
    BY <1>6, CallFacts DEF Commit, EdgeTables, EdgeSets, NoEdges, TypeOK
  <2>2. Removed(t) \in SUBSET Locks
    BY CallFacts DEF Removed, Locks, TodoKnown, TodoOf
  <2>3. rows' \subseteq Resources
    BY <1>6 DEF Commit, TypeOK
  <2> QED
    BY <1>6, <2>1, <2>2, <2>3, <1>0 DEF Commit, Release, did, PCs, TypeOK
<1>7. CASE Abort(t)
  BY <1>7, <1>0 DEF Abort, Release, did, PCs, TypeOK
<1> QED
  BY <1>1, <1>2, <1>3, <1>4, <1>5, <1>6, <1>7 DEF Step, LockStep

-----------------------------------------------------------------------------
(* The order in which locks are taken *)

\* What every step past a lock does: the row at hand is left behind, and its
\* lock, which nobody else holds, is taken - unless the transaction is one of
\* edge sets or the row has been removed.
Advances(t) ==
    /\ pc[t] \in {"lock", "write", "parents", "meta"} /\ todo[t] # {}
    /\ UNCHANGED <<setup, rows, edges, pc, seen, moved, out>>
    /\ todo' = [todo EXCEPT ![t] = @ \ {Here(t)}]
    /\ \/ Takes(t) /\ lock[Wanted(t)] \in {None, t}
       \/ lock' = lock /\ (OfEdges(t) \/ (pc[t] = "lock" /\ Moved(t)))

\* Each of these steps goes past the row the transaction is at.
LEMMA LockStepAdvances ==
  ASSUME TypeOK, TodoKnown, NEW t \in Txs, LockStep(t)
  PROVE  Advances(t)
<1>1. CASE TakeSet(t)
  BY <1>1 DEF TakeSet, Advances, At, Past, Blocked, Passes
<1>2. CASE DropSet(t)
  BY <1>2 DEF DropSet, Advances, At, Past, Blocked, OfEdges
<1>3. CASE RemoveSet(t)
  BY <1>3 DEF RemoveSet, Advances, At, Past, Blocked, Passes, OfEdges
<1>4. CASE LockRow(t)
  BY <1>4 DEF LockRow, Advances, At, Past, Blocked, Passes, OfEdges
<1>5. CASE WriteRow(t)
  BY <1>5 DEF WriteRow, Advances, At, Past, Blocked, Passes
<1>6. CASE ReportMetadata(t)
  BY <1>6 DEF ReportMetadata, Advances, At, Past, Blocked, Passes, TodoKnown, TodoOf, OfEdges
<1> QED
  BY <1>1, <1>2, <1>3, <1>4, <1>5, <1>6 DEF LockStep

\* The lock a transaction is at, by where it is.
LEMMA WantedFacts ==
  ASSUME TypeOK, TodoKnown, NEW t \in Txs, todo[t] # {}, pc[t] \in {"lock", "write", "parents", "meta"}
  PROVE  /\ OfEdges(t) /\ pc[t] = "lock" =>
              /\ Wanted(t) = EdgeLock(Call(t).at, Here(t))
              /\ Call(t).at \in Resources /\ Here(t) \in Versions
         /\ ~(OfEdges(t) /\ pc[t] = "lock") =>
              Wanted(t) = RowLock(Here(t)) /\ Here(t) \in Resources
         /\ Wanted(t) \in Locks
<1>1. Here(t) \in todo[t]
  BY HereFacts
<1>2. OfEdges(t) /\ pc[t] = "lock" => Here(t) \in Versions
  BY <1>1 DEF TodoKnown, TodoOf
<1>3. ~(OfEdges(t) /\ pc[t] = "lock") => Here(t) \in Resources
  BY <1>1, CallFacts DEF TodoKnown, TodoOf, Parents
<1> QED
  BY <1>2, <1>3, CallFacts, LockTypes DEF Wanted

\* Steps keep what is known of the rows left to take.
LEMMA TodoStep ==
  ASSUME TypeOK, TodoKnown, NEW t \in Txs, Step(t)
  PROVE  TodoKnown'
<1>0. setup' = setup /\ Txs' = Txs /\ \A u : Call(u)' = Call(u) /\ (OfEdges(u)' <=> OfEdges(u))
  BY TypeStep, SetupStays
<1> SUFFICES ASSUME NEW u \in Txs PROVE TodoOf(u)'
  BY <1>0 DEF TodoKnown
<1>1. TodoOf(u)
  BY DEF TodoKnown
<1>2. CASE Begin(t)
  <2>1. FirstLocks(t) \subseteq (IF OfEdges(t) THEN Versions ELSE Resources)
    BY CallFacts DEF FirstLocks, Undeclared, LockedInput, OfEdges, TypeOK
  <2>2. seen'[u].edges = seen[u].edges \/ pc'[u] = "lock"
    BY <1>2 DEF Begin, TypeOK
  <2> QED
    BY <1>2, <2>1, <2>2, <1>1, <1>0 DEF Begin, TodoOf, did, TypeOK
<1>3. CASE ListStale(t)
  BY <1>3, <1>1, <1>0 DEF ListStale, TodoOf, did, TypeOK
<1>4. CASE LockStep(t)
  <2>1. Advances(t)
    BY <1>4, LockStepAdvances
  <2>2. pc' = pc /\ seen' = seen /\ todo'[u] \subseteq todo[u]
    BY <2>1 DEF Advances, TypeOK
  <2>3. took'[u] \subseteq DOMAIN Call(u).sets
    <3>1. \/ took' = took
          \/ took' = [took EXCEPT ![t] = @ \cup {Here(t)}] /\ Here(t) \in DOMAIN Call(t).sets
      BY <1>4 DEF LockStep, TakeSet, DropSet, RemoveSet, LockRow, WriteRow, ReportMetadata, did
    <3>2. took[u] \subseteq DOMAIN Call(u).sets /\ took \in [Txs -> SUBSET Versions]
      BY <1>1 DEF TodoOf, TypeOK
    <3> QED
      BY <3>1, <3>2
  <2>4. cut'[u] \subseteq (IF OfEdges(u) THEN Versions ELSE Resources)
    <3>1. \/ cut' = cut
          \/ cut' = [cut EXCEPT ![t] = @ \cup {Here(t)}] /\ OfEdges(t) /\ At(t, "lock")
      BY <1>4 DEF LockStep, TakeSet, DropSet, RemoveSet, LockRow, WriteRow, ReportMetadata, did, OfEdges
    <3>2. OfEdges(t) /\ At(t, "lock") => Here(t) \in Versions
      BY WantedFacts DEF At
    <3>3. cut[u] \subseteq (IF OfEdges(u) THEN Versions ELSE Resources) /\ cut \in [Txs -> SUBSET Nat]
      BY <1>1 DEF TodoOf, TypeOK
    <3> QED
      BY <3>1, <3>2, <3>3
  <2> QED
    BY <2>2, <2>3, <2>4, <1>1, <1>0 DEF TodoOf
<1>5. CASE Locked(t)
  <2>1. cut'[u] \subseteq (IF OfEdges(u) THEN Versions ELSE Resources)
    <3>1. \/ cut' = cut
          \/ /\ ~OfEdges(t)
             /\ \E S \in SUBSET Call(t).items : cut' = [cut EXCEPT ![t] = S]
      BY <1>5, CallFacts DEF Locked, did, OfEdges
    <3> QED
      BY <3>1, <1>1, CallFacts DEF TodoOf, TypeOK
  <2>2. took' = took /\ seen' = seen
    BY <1>5 DEF Locked, did, Goes
  <2>3. u # t => pc'[u] = pc[u] /\ todo'[u] = todo[u]
    BY <1>5 DEF Locked, Goes, TypeOK
  <2>4. \/ pc'[t] = "meta" /\ todo'[t] = {Call(t).at} /\ Call(t).kind = "replace"
        \/ pc'[t] = "write" /\ todo'[t] = Call(t).items /\ Call(t).kind \in {"mark", "register"}
        \/ pc'[t] = "commit"
    BY <1>5 DEF Locked, Goes, TypeOK
  <2> QED
    BY <2>1, <2>2, <2>3, <2>4, <1>1, <1>0 DEF TodoOf
<1>6. CASE AllWritten(t)
  <2>1. took' = took /\ seen' = seen /\ cut' = cut
    BY <1>6 DEF AllWritten, did, Goes
  <2>2. u # t => pc'[u] = pc[u] /\ todo'[u] = todo[u]
    BY <1>6 DEF AllWritten, Goes, TypeOK
  <2>3. \/ /\ pc'[t] = "parents" /\ Call(t).kind = "register"
           /\ \E S \in SUBSET Call(t).items : todo'[t] = Parents(seen[t].edges, S) \ S
        \/ pc'[t] = "commit"
    BY <1>6 DEF AllWritten, Goes, TypeOK
  <2>4. \A S \in SUBSET Call(t).items : Parents(seen[t].edges, S) \subseteq Parents(seen[t].edges, Call(t).items)
    BY DEF Parents
  <2> QED
    BY <2>1, <2>2, <2>3, <2>4, <1>1, <1>0 DEF TodoOf
<1>7. CASE Commit(t) \/ Abort(t)
  <2>1. took' = took /\ seen' = seen /\ cut' = cut /\ todo' = todo /\ pc' = [pc EXCEPT ![t] = "over"]
    BY <1>7 DEF Commit, Abort, did
  <2> QED
    BY <2>1, <1>1, <1>0 DEF TodoOf, TypeOK
<1> QED
  BY <1>2, <1>3, <1>4, <1>5, <1>6, <1>7 DEF Step, LockStep

\* What the other steps do to the locks: they leave them, or give back those of
\* a transaction that ends, or take free resources rows for one that lists.
LEMMA LocksOtherwise ==
  ASSUME TypeOK, NEW t \in Txs
  PROVE  /\ Begin(t) \/ Locked(t) \/ AllWritten(t) => lock' = lock
         /\ Commit(t) \/ Abort(t) =>
              /\ \A l \in Locks : lock'[l] = IF lock[l] = t THEN None ELSE lock[l]
              /\ pc' = [pc EXCEPT ![t] = "over"] /\ todo' = todo
         /\ ListStale(t) =>
              /\ \A l \in Locks : lock'[l] = lock[l] \/ (lock'[l] = t /\ \E r \in Resources : l = RowLock(r))
              /\ pc' = [pc EXCEPT ![t] = "commit"] /\ todo' = todo
              /\ ~OfEdges(t)
  BY DEF Begin, Locked, AllWritten, Goes, Commit, Abort, Release, ListStale, TypeOK, OfEdges

\* Steps keep the order of the locks on edge sets.
LEMMA EdgeLocksStep ==
  ASSUME TypeOK, TodoKnown, EdgeLocksAscend, NEW t \in Txs, Step(t)
  PROVE  EdgeLocksAscend'
<1>0. setup' = setup /\ Txs' = Txs /\ \A u : Call(u)' = Call(u) /\ (OfEdges(u)' <=> OfEdges(u))
  BY TypeStep, SetupStays
<1> SUFFICES ASSUME NEW r \in Resources, NEW v \in Versions, NEW u \in Txs, lock'[EdgeLock(r, v)] = u
             PROVE  /\ OfEdges(u) /\ Call(u).at = r /\ pc'[u] \notin {"idle", "over"}
                    /\ pc'[u] = "lock" => \A x \in todo'[u] : v < x
  BY <1>0 DEF EdgeLocksAscend, Open
<1>1. EdgeLock(r, v) \in Locks /\ u # None
  BY LockTypes, SetupFacts DEF TypeOK
<1>2. lock[EdgeLock(r, v)] = u => /\ OfEdges(u) /\ Call(u).at = r /\ pc[u] \notin {"idle", "over"}
                                  /\ pc[u] = "lock" => \A x \in todo[u] : v < x
  BY DEF EdgeLocksAscend, Open
<1>3. CASE Begin(t)
  BY <1>3, <1>2, LocksOtherwise DEF Begin, TypeOK
<1>4. CASE ListStale(t)
  <2>1. lock[EdgeLock(r, v)] = u
    BY <1>4, <1>1, LocksOtherwise, LockNames
  <2>2. todo' = todo /\ pc' = [pc EXCEPT ![t] = "commit"]
    BY <1>4, LocksOtherwise
  <2> QED
    BY <2>1, <2>2, <1>2 DEF TypeOK
<1>5. CASE LockStep(t)
  <2>1. Advances(t)
    BY <1>5, LockStepAdvances
  <2>2. pc' = pc /\ todo'[u] \subseteq todo[u] /\ (u = t => todo'[u] = todo[u] \ {Here(t)})
    BY <2>1 DEF Advances, TypeOK
  <2>3. CASE lock[EdgeLock(r, v)] = u
    BY <2>2, <2>3, <1>2
  <2>4. CASE lock[EdgeLock(r, v)] # u
    <3>1. u = t /\ Wanted(t) = EdgeLock(r, v)
      BY <2>1, <2>4, <1>1 DEF Advances, Takes, TypeOK
    <3>2. OfEdges(t) /\ pc[t] = "lock" /\ r = Call(t).at /\ v = Here(t)
      BY <3>1, <2>1, WantedFacts, LockNames DEF Advances
    <3>3. \A x \in todo'[u] : v < x
      BY <3>1, <3>2, <2>1, <2>2, HereFacts DEF Advances
    <3> QED
      BY <3>1, <3>2, <3>3, <2>2
  <2> QED
    BY <2>3, <2>4
<1>6. CASE Locked(t) \/ AllWritten(t)
  <2>1. lock' = lock
    BY <1>6, LocksOtherwise
  <2>2. /\ u # t => pc'[u] = pc[u] /\ todo'[u] = todo[u]
        /\ pc'[t] \in {"meta", "write", "parents", "commit"}
    BY <1>6 DEF Locked, AllWritten, Goes, TypeOK
  <2> QED
    BY <2>1, <2>2, <1>2
<1>7. CASE Commit(t) \/ Abort(t)
  <2>1. lock[EdgeLock(r, v)] = u /\ u # t
    BY <1>7, <1>1, LocksOtherwise
  <2>2. todo' = todo /\ pc' = [pc EXCEPT ![t] = "over"]
    BY <1>7, LocksOtherwise
  <2> QED
    BY <2>1, <2>2, <1>2 DEF TypeOK
<1> QED
  BY <1>3, <1>4, <1>5, <1>6, <1>7 DEF Step, LockStep

\* Steps keep the order of the locks on resources rows.
LEMMA RowLocksStep ==
  ASSUME TypeOK, TodoKnown, RowLocksAscend, NEW t \in Txs, Step(t)
  PROVE  RowLocksAscend'
<1>0. setup' = setup /\ Txs' = Txs /\ \A u : Call(u)' = Call(u) /\ (OfEdges(u)' <=> OfEdges(u))
  BY TypeStep, SetupStays
<1> DEFINE Fine(u, r, p, S) ==
      /\ p \notin {"idle", "over"}
      /\ OfEdges(u) => p = "commit" \/ (p = "meta" /\ S = {})
      /\ p = "lock" => \A x \in S : r < x
<1> SUFFICES ASSUME NEW r \in Resources, NEW u \in Txs, lock'[RowLock(r)] = u
             PROVE  Fine(u, r, pc'[u], todo'[u])
  BY <1>0 DEF RowLocksAscend, Open
<1>1. RowLock(r) \in Locks /\ u # None
  BY LockTypes, SetupFacts DEF TypeOK
<1>2. lock[RowLock(r)] = u => Fine(u, r, pc[u], todo[u])
  BY DEF RowLocksAscend, Open
<1>3. CASE Begin(t)
  <2>1. lock[RowLock(r)] = u /\ u # t
    BY <1>3, <1>2, LocksOtherwise DEF Begin
  <2>2. pc'[u] = pc[u] /\ todo'[u] = todo[u]
    BY <1>3, <2>1 DEF Begin, TypeOK
  <2> QED
    BY <2>1, <2>2, <1>2
<1>4. CASE ListStale(t)
  <2>1. todo' = todo /\ pc' = [pc EXCEPT ![t] = "commit"] /\ ~OfEdges(t)
    BY <1>4, LocksOtherwise
  <2>2. lock[RowLock(r)] = u \/ u = t
    BY <1>4, <1>1, LocksOtherwise
  <2>3. pc'[t] = "commit" /\ (u # t => pc'[u] = pc[u])
    BY <2>1 DEF TypeOK
  <2> QED
    BY <2>1, <2>2, <2>3, <1>2
<1>5. CASE LockStep(t)
  <2>1. Advances(t)
    BY <1>5, LockStepAdvances
  <2>2. pc' = pc /\ todo'[u] \subseteq todo[u] /\ (u = t => todo'[u] = todo[u] \ {Here(t)})
    BY <2>1 DEF Advances, TypeOK
  <2>3. CASE lock[RowLock(r)] = u
    BY <2>2, <2>3, <1>2
  <2>4. CASE lock[RowLock(r)] # u
    <3>1. u = t /\ Wanted(t) = RowLock(r)
      BY <2>1, <2>4, <1>1 DEF Advances, Takes, TypeOK
    <3>2. ~(OfEdges(t) /\ pc[t] = "lock") /\ r = Here(t)
      BY <3>1, <2>1, WantedFacts, LockNames DEF Advances
    <3>3. \A x \in todo'[u] : r < x
      BY <3>1, <3>2, <2>1, <2>2, HereFacts DEF Advances
    <3>4. pc[t] \in {"lock", "write", "parents", "meta"} /\ Here(t) \in todo[t]
      BY <2>1, HereFacts DEF Advances
    <3>5. OfEdges(t) => pc[t] = "meta" /\ todo'[t] = {}
      BY <3>1, <3>2, <3>4, <2>2 DEF TodoKnown, TodoOf, OfEdges
    <3> QED
      BY <3>1, <3>3, <3>4, <3>5, <2>2
  <2> QED
    BY <2>3, <2>4
<1>6. CASE Locked(t)
  <2>1. lock' = lock
    BY <1>6, LocksOtherwise
  <2>2. /\ u # t => pc'[u] = pc[u] /\ todo'[u] = todo[u]
        /\ pc[t] = "lock" /\ pc'[t] \in {"meta", "write", "commit"}
    BY <1>6 DEF Locked, Goes, TypeOK
  <2> QED
    BY <2>1, <2>2, <1>2
<1>7. CASE AllWritten(t)
  <2>1. lock' = lock
    BY <1>7, LocksOtherwise
  <2>2. /\ u # t => pc'[u] = pc[u] /\ todo'[u] = todo[u]
        /\ pc'[t] = "commit" \/ (pc'[t] = "parents" /\ ~OfEdges(t))
    BY <1>7 DEF AllWritten, Goes, TypeOK, OfEdges
  <2> QED
    BY <2>1, <2>2, <1>2
<1>8. CASE Commit(t) \/ Abort(t)
  <2>1. lock[RowLock(r)] = u /\ u # t
    BY <1>8, <1>1, LocksOtherwise
  <2>2. todo' = todo /\ pc' = [pc EXCEPT ![t] = "over"]
    BY <1>8, LocksOtherwise
  <2>3. pc'[u] = pc[u]
    BY <2>1, <2>2 DEF TypeOK
  <2> QED
    BY <2>1, <2>2, <2>3, <1>2
<1> QED
  BY <1>3, <1>4, <1>5, <1>6, <1>7, <1>8 DEF Step, LockStep

\* Steps keep the rows of a statement locked once it writes.
LEMMA InputStep ==
  ASSUME TypeOK, TodoKnown, InputLocked, NEW t \in Txs, Step(t)
  PROVE  InputLocked'
<1>0. setup' = setup /\ Txs' = Txs /\ \A u : Call(u)' = Call(u) /\ (OfEdges(u)' <=> OfEdges(u))
  BY TypeStep, SetupStays
<1> DEFINE Known(u, r, m, l, p, S) == RowLock(r) \in m \/ l = u \/ (p = "lock" /\ r \in S)
<1> SUFFICES ASSUME NEW u \in Txs, Call(u).kind \in {"mark", "register"}, pc'[u] \in {"lock", "write", "parents"},
                    NEW r \in seen'[u].rows \cap Input(u, seen'[u].edges)
             PROVE  Known(u, r, moved'[u], lock'[RowLock(r)], pc'[u], todo'[u])
  BY <1>0 DEF InputLocked, InputOf, Input
<1> DEFINE Before == Known(u, r, moved[u], lock[RowLock(r)], pc[u], todo[u])
<1>1. seen'[u] = seen[u] /\ pc[u] \in {"lock", "write", "parents"} => Before
  BY DEF InputLocked, InputOf
<1>2. ~OfEdges(u) /\ u # None
  BY SetupFacts DEF TypeOK, OfEdges
<1>3. CASE Begin(t) /\ u = t
  <2>1. seen'[u] = [rows |-> rows, edges |-> edges] /\ todo'[u] = FirstLocks(u) /\ pc'[u] = "lock"
    BY <1>3 DEF Begin, TypeOK
  <2>2. FirstLocks(u) = rows \cap Input(u, edges)
    BY <1>2 DEF FirstLocks, LockedInput, OfEdges
  <2> QED
    BY <2>1, <2>2
<1>4. CASE Begin(t) /\ u # t
  <2>1. /\ seen'[u] = seen[u] /\ todo'[u] = todo[u] /\ pc'[u] = pc[u] /\ moved' = moved /\ lock' = lock
    BY <1>4 DEF Begin, TypeOK
  <2> QED
    BY <2>1, <1>1
<1>5. RowLock(r) \in Locks /\ r \in Resources
  <2>1. seen'[u].rows \subseteq Resources
    BY TypeStep, <1>0 DEF TypeOK
  <2> QED
    BY <2>1, LockTypes
<1>6. CASE ListStale(t)
  <2>1. seen' = seen /\ todo' = todo /\ moved' = moved /\ pc' = [pc EXCEPT ![t] = "commit"]
    BY <1>6 DEF ListStale
  <2>2. u # t /\ pc'[u] = pc[u]
    BY <2>1 DEF TypeOK
  <2>3. lock[RowLock(r)] = u => lock'[RowLock(r)] = u
    BY <1>6, <1>5, <1>2 DEF ListStale, TypeOK
  <2> QED
    BY <2>1, <2>2, <2>3, <1>1
<1>7. CASE LockStep(t)
  <2>1. Advances(t)
    BY <1>7, LockStepAdvances
  <2>2. /\ pc' = pc /\ seen' = seen /\ moved' = moved
        /\ u # t => todo'[u] = todo[u]
        /\ u = t => todo'[u] = todo[u] \ {Here(t)}
    BY <2>1 DEF Advances, TypeOK
  <2>3. lock[RowLock(r)] = u => lock'[RowLock(r)] = u
    BY <2>1, <1>5, <1>2 DEF Advances, Takes, TypeOK
  <2>4. CASE u = t /\ r = Here(t) /\ pc[t] = "lock"
    <3>1. Wanted(t) = RowLock(r) /\ Wanted(t) \in Locks
      BY <2>1, <2>4, <1>2, WantedFacts DEF Advances
    <3>2. lock'[RowLock(r)] = t \/ Moved(t)
      BY <2>1, <2>4, <3>1, <1>2 DEF Advances, Takes, TypeOK
    <3> QED
      BY <3>1, <3>2, <2>2, <2>4 DEF Moved
  <2> QED
    BY <2>2, <2>3, <2>4, <1>1
<1>8. CASE Locked(t) \/ AllWritten(t)
  <2>1. /\ seen' = seen /\ moved' = moved /\ lock' = lock
        /\ u # t => pc'[u] = pc[u] /\ todo'[u] = todo[u]
        /\ pc[t] \notin {"idle", "commit"} /\ todo[t] = {}
        /\ pc[t] = "meta" => pc'[t] = "commit"
    BY <1>8 DEF Locked, AllWritten, Goes, TypeOK
  <2>2. u = t => pc[t] \in {"lock", "write", "parents"}
    BY <1>8, <2>1 DEF Locked, AllWritten, TypeOK, PCs
  <2> QED
    BY <2>1, <2>2, <1>1
<1>9. CASE Commit(t) \/ Abort(t)
  <2>1. seen' = seen /\ todo' = todo /\ pc' = [pc EXCEPT ![t] = "over"]
    BY <1>9 DEF Commit, Abort
  <2>2. u # t /\ pc'[u] = pc[u]
    BY <2>1 DEF TypeOK
  <2>3. lock[RowLock(r)] = u => lock'[RowLock(r)] = u
    BY <1>9, <1>5, <2>2, LocksOtherwise
  <2>4. moved[u] \subseteq moved'[u]
    BY <1>9 DEF Commit, Abort, TypeOK
  <2> QED
    BY <2>1, <2>2, <2>3, <2>4, <1>1
<1> QED
  BY <1>3, <1>4, <1>6, <1>7, <1>8, <1>9 DEF Step, LockStep

-----------------------------------------------------------------------------
(* No deadlock *)

\* The invariant holds from the start and every step keeps it.
LEMMA LockInvInit == Init => LockInv
<1> SUFFICES ASSUME Init PROVE LockInv
  OBVIOUS
<1>1. setup \in Setups /\ None \notin Txs /\ rows \subseteq Resources /\ edges \in EdgeTables
  BY SetupFacts DEF Init
<1>2. NothingSeen \in [rows : SUBSET Resources, edges : EdgeTables]
  BY DEF NothingSeen, EdgeTables, EdgeSets, NoEdges
<1>3. TypeOK
  BY <1>1, <1>2 DEF Init, TypeOK, PCs
<1>4. TodoKnown /\ InputLocked
  BY DEF Init, TodoKnown, TodoOf, InputLocked, InputOf
<1>5. EdgeLocksAscend /\ RowLocksAscend
  BY <1>1, LockTypes DEF Init, EdgeLocksAscend, RowLocksAscend
<1> QED
  BY <1>3, <1>4, <1>5 DEF LockInv

\* The invariant of the locks is kept by every step.
LEMMA LockInvStep == LockInv /\ [Next]_vars => LockInv'
<1> SUFFICES ASSUME LockInv, [Next]_vars PROVE LockInv'
  OBVIOUS
<1>1. ASSUME NEW t \in Txs, Step(t) PROVE LockInv'
  BY <1>1, TypeStep, TodoStep, EdgeLocksStep, RowLocksStep, InputStep DEF LockInv
<1>2. CASE UNCHANGED vars
  <2>1. /\ setup' = setup /\ rows' = rows /\ edges' = edges /\ lock' = lock /\ pc' = pc /\ todo' = todo
        /\ seen' = seen /\ took' = took /\ cut' = cut /\ made' = made /\ moved' = moved /\ out' = out
    BY <1>2 DEF vars, did
  <2>2. Txs' = Txs /\ \A u : Call(u)' = Call(u) /\ (OfEdges(u)' <=> OfEdges(u))
    BY <2>1, SetupStays
  <2>3. TypeOK'
    BY <2>1, <2>2 DEF LockInv, TypeOK
  <2>4. TodoKnown'
    BY <2>1, <2>2 DEF LockInv, TodoKnown, TodoOf
  <2>5. EdgeLocksAscend' /\ RowLocksAscend'
    BY <2>1, <2>2 DEF LockInv, EdgeLocksAscend, RowLocksAscend, Open
  <2>6. InputLocked'
    BY <2>1, <2>2 DEF LockInv, InputLocked, InputOf, Input
  <2> QED
    BY <2>3, <2>4, <2>5, <2>6 DEF LockInv
<1> QED
  BY <1>1, <1>2 DEF Next

\* A transaction of edge sets that waits while another waits for it is waited
\* for by one of its own kind, for a lower version.
LEMMA EdgeWaitersDescend ==
  ASSUME LockInv, NEW s \in Txs, NEW t \in Txs, OfEdges(t), Blocked(s), Blocked(t), lock[Wanted(s)] = t
  PROVE  /\ OfEdges(s) /\ pc[s] = "lock" /\ Here(s) \in Nat
         /\ pc[t] = "lock" => Here(s) < Here(t)
<1> USE DEF LockInv
<1>1. pc[t] \in {"lock", "write", "parents", "meta"} /\ todo[t] # {} /\ todo[s] # {}
      /\ pc[s] \in {"lock", "write", "parents", "meta"}
  BY DEF Blocked
<1>2. Here(t) \in todo[t] /\ Here(s) \in Nat
  BY <1>1, HereFacts
<1>3. CASE OfEdges(s) /\ pc[s] = "lock"
  <2>1. lock[EdgeLock(Call(s).at, Here(s))] = t /\ Call(s).at \in Resources /\ Here(s) \in Versions
    BY <1>1, <1>3, WantedFacts
  <2>2. pc[t] = "lock" => Here(s) < Here(t)
    BY <2>1, <1>2 DEF EdgeLocksAscend
  <2> QED
    BY <1>2, <1>3, <2>2
<1>4. CASE ~(OfEdges(s) /\ pc[s] = "lock")
  <2>1. lock[RowLock(Here(s))] = t /\ Here(s) \in Resources
    BY <1>1, <1>4, WantedFacts
  <2>2. pc[t] = "commit" \/ todo[t] = {}
    BY <2>1 DEF RowLocksAscend
  <2> QED
    BY <2>2, <1>1
<1> QED
  BY <1>3, <1>4

\* A statement of resources rows that waits for a row it could lock is still
\* locking, and holds lower rows only.
LEMMA RowWaitersDescend ==
  ASSUME LockInv, NEW s \in Txs, NEW t \in Txs, ~OfEdges(s), ~OfEdges(t), Blocked(s), Blocked(t),
         lock[Wanted(s)] = t,
         pc[t] \in {"write", "parents"} => Here(t) \in seen[t].rows /\ ~Moved(t)
  PROVE  pc[t] = "lock" /\ Here(s) \in Nat /\ Here(s) < Here(t)
<1> USE DEF LockInv
<1>1. /\ pc[t] \in {"lock", "write", "parents", "meta"} /\ todo[t] # {} /\ todo[s] # {}
      /\ pc[s] \in {"lock", "write", "parents", "meta"} /\ lock[Wanted(t)] # t
  BY DEF Blocked
<1>2. Here(t) \in todo[t] /\ Here(s) \in Nat
  BY <1>1, HereFacts
<1>3. /\ Wanted(s) = RowLock(Here(s)) /\ Here(s) \in Resources
      /\ Wanted(t) = RowLock(Here(t)) /\ Here(t) \in Resources
  BY <1>1, WantedFacts
<1>4. pc[t] # "meta"
  BY DEF TodoKnown, TodoOf, OfEdges
<1>5. pc[t] \notin {"write", "parents"}
  <2> SUFFICES ASSUME pc[t] \in {"write", "parents"} PROVE FALSE
    OBVIOUS
  <2>1. Call(t).kind \in {"mark", "register"} /\ Here(t) \in Input(t, seen[t].edges)
    BY <1>2 DEF TodoKnown, TodoOf, Input
  <2>2. Here(t) \in seen[t].rows /\ RowLock(Here(t)) \notin moved[t]
    BY <1>3 DEF Moved
  <2>3. lock[RowLock(Here(t))] = t
    BY <2>1, <2>2 DEF InputLocked, InputOf
  <2> QED
    BY <2>3, <1>1, <1>3
<1>6. pc[t] = "lock"
  BY <1>1, <1>4, <1>5
<1>7. Here(s) < Here(t)
  BY <1>2, <1>3, <1>6 DEF RowLocksAscend
<1> QED
  BY <1>2, <1>6, <1>7

\* Everyone of a deadlock is waited for, by one who wants a lower row: so the
\* one that wants the lowest of all cannot be in it.
LEMMA LockInvNoDeadlock == LockInv => NoDeadlock
<1> SUFFICES ASSUME LockInv, NEW C \in SUBSET Txs, Deadlock(C)
             PROVE  /\ \A t \in C : ~OfEdges(t)
                    /\ \E t \in C : pc[t] \in {"write", "parents"} /\ (Here(t) \notin seen[t].rows \/ Moved(t))
  BY DEF NoDeadlock
<1>1. /\ C # {} /\ \A t \in C : t \in Txs /\ Blocked(t)
      /\ \A t \in C : \E s \in C : lock[Wanted(s)] = t
  BY DEF Deadlock
<1>2. \A t \in C : ~OfEdges(t)
  <2> DEFINE W == {Here(s) : s \in {x \in C : OfEdges(x) /\ pc[x] = "lock"}}
  <2> SUFFICES ASSUME NEW t \in C, OfEdges(t) PROVE FALSE
    OBVIOUS
  <2>1. PICK s \in C : lock[Wanted(s)] = t
    BY <1>1
  <2>2. Here(s) \in W
    BY <1>1, <2>1, EdgeWaitersDescend
  <2>3. \A n \in W : n \in Nat /\ \E m \in W : m < n
    <3> SUFFICES ASSUME NEW x \in C, OfEdges(x), pc[x] = "lock"
                 PROVE  Here(x) \in Nat /\ \E m \in W : m < Here(x)
      OBVIOUS
    <3>1. PICK y \in C : lock[Wanted(y)] = x
      BY <1>1
    <3>2. OfEdges(y) /\ pc[y] = "lock" /\ Here(y) < Here(x)
      BY <1>1, <3>1, EdgeWaitersDescend
    <3>3. Here(x) \in Nat
      BY <1>1, HereFacts DEF Blocked, LockInv
    <3> QED
      BY <3>2, <3>3
  <2>4. LeastOf(W) \in W /\ \A n \in W : LeastOf(W) <= n
    BY <2>2, <2>3, LeastOfIsLeast
  <2> HIDE DEF W
  <2>5. PICK m \in W : m < LeastOf(W) /\ LeastOf(W) <= m /\ m \in Nat /\ LeastOf(W) \in Nat
    BY <2>3, <2>4
  <2> QED
    BY <2>5
<1>3. \E t \in C : pc[t] \in {"write", "parents"} /\ (Here(t) \notin seen[t].rows \/ Moved(t))
  <2> DEFINE W == {Here(s) : s \in C}
  <2> SUFFICES ASSUME \A t \in C : pc[t] \in {"write", "parents"} => Here(t) \in seen[t].rows /\ ~Moved(t)
               PROVE  FALSE
    OBVIOUS
  <2>1. \A n \in W : n \in Nat /\ \E m \in W : m < n
    <3> SUFFICES ASSUME NEW x \in C
                 PROVE  Here(x) \in Nat /\ \E m \in W : m < Here(x)
      OBVIOUS
    <3>1. PICK y \in C : lock[Wanted(y)] = x
      BY <1>1
    <3>2. Here(y) < Here(x)
      BY <1>1, <1>2, <3>1, RowWaitersDescend
    <3>3. Here(x) \in Nat
      BY <1>1, HereFacts DEF Blocked, LockInv
    <3> QED
      BY <3>2, <3>3
  <2>2. LeastOf(W) \in W /\ \A n \in W : LeastOf(W) <= n
    <3>1. W # {} /\ W \in SUBSET Nat
      BY <1>1, <2>1
    <3> QED
      BY <3>1, LeastOfIsLeast
  <2> HIDE DEF W
  <2>3. PICK m \in W : m < LeastOf(W) /\ LeastOf(W) <= m /\ m \in Nat /\ LeastOf(W) \in Nat
    BY <2>1, <2>2
  <2> QED
    BY <2>3
<1> QED
  BY <1>2, <1>3

\* Whatever calls are made at once, ReplaceEdges and RemoveResource are in no
\* deadlock, and the statements of resources rows only over a row that was
\* created or removed while they ran.
THEOREM DeadlocksOnlyOverNewRows == Spec => []NoDeadlock
<1>1. Spec => []LockInv
  BY LockInvInit, LockInvStep, PTL DEF Spec
<1> QED
  BY <1>1, LockInvNoDeadlock, PTL

-----------------------------------------------------------------------------
(* What a commit makes of an edge set *)

SetOf(t, v) == edges[Call(t).at][v]
SeenSet(t, v) == seen[t].edges[Call(t).at][v]
SetLock(t, v) == EdgeLock(Call(t).at, v)
Pending(t, v) == pc[t] = "lock" /\ v \in todo[t]

\* What a transaction of edge sets has decided about version v stays right
\* until it commits: the set is under its lock, or is one that another build
\* has stamped above it, or has been removed since it looked.
DecidedOf(t, v) ==
    /\ v \in took[t] => /\ Call(t).kind = "replace" /\ v \in DOMAIN Call(t).sets
                        /\ lock[SetLock(t, v)] = t /\ SetOf(t, v).stamp <= Call(t).seq
                        /\ pc[t] \in {"meta", "commit"} => out[t][v] = Call(t).sets[v]
    /\ v \in cut[t] => Prunable(t, v) /\ lock[SetLock(t, v)] = t /\ SetOf(t, v).stamp <= Call(t).seq
    /\ Call(t).kind = "replace" /\ v \in DOMAIN Call(t).sets \ took[t] /\ ~Pending(t, v) =>
         lock[SetLock(t, v)] = t /\ SetOf(t, v).stamp > Call(t).seq
    /\ Prunable(t, v) /\ v \notin cut[t] /\ ~Pending(t, v) =>
         \/ SeenSet(t, v).stamp = 0 \/ SetLock(t, v) \in moved[t]
         \/ SetOf(t, v).stamp > Call(t).seq
    /\ SeenSet(t, v).stamp # 0 => SetLock(t, v) \in moved[t] \/ SetOf(t, v).stamp # 0
    /\ Pending(t, v) => Prunable(t, v) \/ (Call(t).kind = "replace" /\ v \in DOMAIN Call(t).sets)

Decided == \A t \in Txs, v \in Versions : OfEdges(t) /\ Open(t) => DecidedOf(t, v)

\* A transaction that has not begun has decided nothing.
IdleBlank == \A t \in Txs : pc[t] = "idle" => took[t] = {} /\ cut[t] = {}

SetsInv == LockInv /\ IdleBlank /\ Decided

\* Types of the edge sets a transaction deals with.
LEMMA SetFacts ==
  ASSUME TypeOK, NEW t \in Txs, NEW v \in Versions
  PROVE  /\ SetOf(t, v) \in EdgeSets /\ SetOf(t, v).stamp \in Nat
         /\ SeenSet(t, v) \in EdgeSets /\ SeenSet(t, v).stamp \in Nat
         /\ SetLock(t, v) \in Locks /\ Call(t).at \in Resources /\ Call(t).seq \in Nat
<1>1. Call(t).at \in Resources /\ Call(t).seq \in Nat
  BY CallFacts
<1>2. SetOf(t, v) \in EdgeSets
  BY <1>1 DEF SetOf, TypeOK, EdgeTables
<1>3. SeenSet(t, v) \in EdgeSets
  BY <1>1 DEF SeenSet, TypeOK, EdgeTables
<1>4. SetLock(t, v) \in Locks
  BY <1>1, LockTypes DEF SetLock
<1> QED
  BY <1>1, <1>2, <1>3, <1>4 DEF EdgeSets

\* A step of others disturbs no decision: they take no lock that is held, and
\* what they commit under their own locks is stamped as high or reported moved.
LEMMA OthersKeep ==
  ASSUME TypeOK, TypeOK', setup' = setup, NEW t \in Txs, NEW v \in Versions, DecidedOf(t, v),
         pc'[t] = pc[t], todo'[t] = todo[t], seen'[t] = seen[t], took'[t] = took[t], cut'[t] = cut[t],
         out'[t] = out[t], moved[t] \subseteq moved'[t],
         lock[SetLock(t, v)] = t => lock'[SetLock(t, v)] = t /\ SetOf(t, v)' = SetOf(t, v),
         \/ SetLock(t, v) \in moved'[t]
         \/ SetOf(t, v)'.stamp >= SetOf(t, v).stamp
  PROVE  DecidedOf(t, v)'
<1>1. /\ Call(t)' = Call(t) /\ SetLock(t, v)' = SetLock(t, v)
      /\ (Prunable(t, v)' <=> Prunable(t, v)) /\ (Pending(t, v)' <=> Pending(t, v))
      /\ SeenSet(t, v)' = SeenSet(t, v)
  BY SetupStays DEF SetLock, Prunable, Pending, SeenSet
<1>2. SetOf(t, v).stamp \in Nat /\ SetOf(t, v)'.stamp \in Nat /\ Call(t).seq \in Nat
  <2>1. Txs' = Txs
    BY SetupStays
  <2>2. SetOf(t, v)' \in EdgeSets
    BY <2>1, CallFacts, <1>1 DEF TypeOK, EdgeTables, SetOf
  <2> QED
    BY SetFacts, <2>2 DEF EdgeSets
<1> QED
  BY <1>1, <1>2 DEF DecidedOf

\* The steps that commit nothing leave the sets and the fields of the others.
LEMMA OthersFields ==
  ASSUME TypeOK, TodoKnown, NEW t \in Txs, Step(t), NEW u \in Txs, u # t
  PROVE  /\ pc'[u] = pc[u] /\ todo'[u] = todo[u] /\ seen'[u] = seen[u] /\ took'[u] = took[u]
         /\ cut'[u] = cut[u] /\ out'[u] = out[u]
         /\ ~Commit(t) => moved'[u] = moved[u] /\ edges' = edges
         /\ \A l \in Locks : lock[l] = u => lock'[l] = u
<1>0. u # None /\ t # None
  BY SetupFacts DEF TypeOK
<1>1. CASE Begin(t)
  BY <1>1 DEF Begin, did, TypeOK
<1>2. CASE ListStale(t)
  <2>1. \A l \in Locks : lock[l] = u => lock'[l] = u
    BY <1>2, <1>0 DEF ListStale, TypeOK
  <2> QED
    BY <1>2, <2>1 DEF ListStale, did, TypeOK
<1>3. CASE LockStep(t)
  <2>1. Advances(t)
    BY <1>3, LockStepAdvances
  <2>2. \A l \in Locks : lock[l] = u => lock'[l] = u
    BY <2>1, <1>0 DEF Advances, Takes, TypeOK
  <2>3. /\ took' = took \/ took' = [took EXCEPT ![t] = @ \cup {Here(t)}]
        /\ cut' = cut \/ cut' = [cut EXCEPT ![t] = @ \cup {Here(t)}]
    BY <1>3 DEF LockStep, TakeSet, DropSet, RemoveSet, LockRow, WriteRow, ReportMetadata, did
  <2>4. took'[u] = took[u] /\ cut'[u] = cut[u]
    BY <2>3 DEF TypeOK
  <2> QED
    BY <2>1, <2>2, <2>4 DEF Advances, TypeOK
<1>4. CASE Locked(t)
  <2>1. /\ out'[u] = out[u]
    BY <1>4 DEF Locked, TypeOK
  <2>2. took' = took /\ cut'[u] = cut[u]
    BY <1>4 DEF Locked, did, TypeOK
  <2>3. pc'[u] = pc[u] /\ todo'[u] = todo[u] /\ seen' = seen /\ moved' = moved /\ edges' = edges /\ lock' = lock
    BY <1>4 DEF Locked, Goes, TypeOK
  <2> QED
    BY <2>1, <2>2, <2>3
<1>5. CASE AllWritten(t)
  <2>1. pc'[u] = pc[u] /\ todo'[u] = todo[u] /\ seen' = seen /\ moved' = moved /\ edges' = edges /\ lock' = lock
    BY <1>5 DEF AllWritten, Goes, TypeOK
  <2> QED
    BY <1>5, <2>1 DEF AllWritten, did
<1>6. CASE Commit(t)
  BY <1>6, LocksOtherwise DEF Commit, did, TypeOK
<1>7. CASE Abort(t)
  BY <1>7, LocksOtherwise DEF Abort, did, TypeOK
<1> QED
  BY <1>1, <1>2, <1>3, <1>4, <1>5, <1>6, <1>7 DEF Step, LockStep

\* A commit writes only the sets it has locked: a higher stamp or a removal,
\* which everyone who has begun is told of.
LEMMA CommitWrites ==
  ASSUME SetsInv, NEW t \in Txs, Commit(t), NEW u \in Txs, u # t, Open(u), NEW v \in Versions, OfEdges(u)
  PROVE  /\ lock[SetLock(u, v)] = u => SetOf(u, v)' = SetOf(u, v)
         /\ moved[u] \subseteq moved'[u]
         /\ SetLock(u, v) \in moved'[u] \/ SetOf(u, v)'.stamp >= SetOf(u, v).stamp
<1> USE DEF SetsInv, LockInv
<1>0. setup' = setup /\ Call(u)' = Call(u)
  BY SetupStays DEF Commit
<1>1. SetOf(u, v).stamp \in Nat /\ Call(u).at \in Resources
  BY SetFacts
<1>2. moved'[u] = moved[u] \cup Removed(t)
  BY DEF Commit, Open, TypeOK
<1>3. CASE ~OfEdges(t) \/ Call(t).at # Call(u).at \/ v \notin took[t] \cup cut[t]
  <2>1. edges'[Call(u).at][v] = edges[Call(u).at][v]
    BY <1>3, <1>1 DEF Commit, TypeOK, EdgeTables
  <2> QED
    BY <2>1, <1>0, <1>1, <1>2 DEF SetOf
<1>4. CASE OfEdges(t) /\ Call(t).at = Call(u).at /\ v \in took[t] \cup cut[t]
  <2>1. DecidedOf(t, v) /\ SetLock(t, v) = SetLock(u, v) /\ SetOf(t, v) = SetOf(u, v)
    BY <1>4 DEF Decided, Open, Commit, SetLock, SetOf
  <2>2. lock[SetLock(u, v)] # u
    BY <1>4, <2>1 DEF DecidedOf
  <2>3. CASE v \in took[t]
    <3>1. SetOf(u, v).stamp <= Call(t).seq
      BY <2>1, <2>3 DEF DecidedOf
    <3>2. edges'[Call(u).at][v].stamp = Call(t).seq
      BY <1>4, <2>3, <1>1 DEF Commit, TypeOK, EdgeTables
    <3> QED
      BY <3>1, <3>2, <2>2, <1>0, <1>1, <1>2, CallFacts DEF SetOf
  <2>4. CASE v \in cut[t]
    <3>1. SetLock(u, v) \in Removed(t)
      BY <1>4, <2>4 DEF Removed, SetLock
    <3> QED
      BY <3>1, <2>2, <1>2
  <2> QED
    BY <1>4, <2>3, <2>4
<1> QED
  BY <1>3, <1>4

\* A transaction's own steps past a lock.
LEMMA OwnLockStep ==
  ASSUME SetsInv, TypeOK', NEW t \in Txs, LockStep(t), OfEdges(t), NEW v \in Versions
  PROVE  DecidedOf(t, v)'
<1> USE DEF SetsInv, LockInv
<1>1. Advances(t)
  BY LockStepAdvances
<1>2. /\ setup' = setup /\ edges' = edges /\ pc' = pc /\ seen' = seen /\ moved' = moved /\ out' = out
      /\ todo'[t] = todo[t] \ {Here(t)} /\ pc[t] \in {"lock", "meta"} /\ todo[t] # {}
  BY <1>1 DEF Advances, TypeOK, TodoKnown, TodoOf, OfEdges
<1>3. /\ Call(t)' = Call(t) /\ SetLock(t, v)' = SetLock(t, v) /\ SetOf(t, v)' = SetOf(t, v)
      /\ (Prunable(t, v)' <=> Prunable(t, v)) /\ SeenSet(t, v)' = SeenSet(t, v)
      /\ Pending(t, v)' <=> Pending(t, v) /\ v # Here(t)
  BY <1>2, SetupStays DEF SetLock, Prunable, Pending, SeenSet, SetOf
<1>4. DecidedOf(t, v)
  BY <1>2 DEF Decided, Open
<1>5. SetOf(t, v).stamp \in Nat /\ SetLock(t, v) \in Locks /\ Call(t).seq \in Nat
  BY SetFacts
<1>6. lock[SetLock(t, v)] = t => lock'[SetLock(t, v)] = t
  BY <1>1, <1>5 DEF Advances, Takes, TypeOK
<1>7. CASE pc[t] = "meta"
  <2>1. took' = took /\ cut' = cut
    BY <1>7, <1>2 DEF LockStep, TakeSet, DropSet, RemoveSet, LockRow, WriteRow, ReportMetadata, At, did
  <2>2. ~Pending(t, v) /\ ~Pending(t, v)'
    BY <1>7, <1>2 DEF Pending
  <2> QED
    BY <2>1, <2>2, <1>2, <1>3, <1>4, <1>6 DEF DecidedOf
<1>8. CASE pc[t] = "lock" /\ v # Here(t)
  <2>1. /\ took' = took \/ took' = [took EXCEPT ![t] = @ \cup {Here(t)}]
        /\ cut' = cut \/ cut' = [cut EXCEPT ![t] = @ \cup {Here(t)}]
    BY DEF LockStep, TakeSet, DropSet, RemoveSet, LockRow, WriteRow, ReportMetadata, did
  <2>2. (v \in took'[t] <=> v \in took[t]) /\ (v \in cut'[t] <=> v \in cut[t])
    BY <2>1, <1>8 DEF TypeOK
  <2> QED
    BY <2>2, <1>8, <1>2, <1>3, <1>4, <1>6 DEF DecidedOf
<1>9. CASE pc[t] = "lock" /\ v = Here(t)
  <2>1. Pending(t, v) /\ ~Pending(t, v)'
    BY <1>9, <1>2, <1>3, HereFacts DEF Pending
  <2>2. Wanted(t) = SetLock(t, v) /\ (Takes(t) => lock'[SetLock(t, v)] = t)
    BY <1>9, <1>2, <1>5, WantedFacts DEF SetLock, Takes, TypeOK
  <2>3. CASE TakeSet(t)
    <3>1. /\ Call(t).kind = "replace" /\ v \in DOMAIN Call(t).sets /\ cut' = cut
          /\ lock'[SetLock(t, v)] = t
      BY <2>3, <1>9, <2>2 DEF TakeSet
    <3>2. v \in took'[t] <=> SetOf(t, v).stamp <= Call(t).seq \/ v \in took[t]
      BY <2>3, <1>9 DEF TakeSet, TypeOK, SetOf
    <3>3. ~Prunable(t, v)
      BY <3>1 DEF Prunable
    <3> QED
      BY <3>1, <3>2, <3>3, <2>1, <1>9, <1>2, <1>3, <1>4, <1>5 DEF DecidedOf
  <2>4. CASE DropSet(t)
    <3>1. Call(t).kind = "replace" /\ v \notin DOMAIN Call(t).sets /\ took' = took /\ Prunable(t, v)
      BY <2>4, <1>9, <2>1, <1>4 DEF DropSet, DecidedOf
    <3>2. v \notin took'[t]
      BY <3>1 DEF TodoKnown, TodoOf
    <3>3. CASE ~Passes(t) /\ Takes(t) /\ cut' = [cut EXCEPT ![t] = @ \cup {Here(t)}]
      <4>1. lock'[SetLock(t, v)] = t /\ SetOf(t, v).stamp <= Call(t).seq /\ v \in cut'[t]
        BY <3>3, <3>1, <1>9, <1>5, <2>2 DEF Passes, SetOf, TypeOK
      <4> QED
        BY <4>1, <3>1, <3>2, <2>1, <1>2, <1>3, <1>4 DEF DecidedOf
    <3>4. CASE Passes(t) /\ cut' = cut
      <4>1. SetOf(t, v).stamp = 0 \/ SetOf(t, v).stamp > Call(t).seq
        BY <3>4, <1>9, <1>5 DEF Passes, SetOf
      <4> QED
        BY <4>1, <3>1, <3>2, <3>4, <2>1, <1>2, <1>3, <1>4, <1>6 DEF DecidedOf
    <3>5. CASE Moved(t) /\ cut' = cut
      <4>1. SetLock(t, v) \in moved'[t]
        BY <3>5, <2>2, <1>2 DEF Moved
      <4> QED
        BY <4>1, <3>1, <3>2, <3>5, <2>1, <1>2, <1>3, <1>4, <1>6 DEF DecidedOf
    <3> QED
      BY <2>4, <3>3, <3>4, <3>5 DEF DropSet
  <2>5. CASE RemoveSet(t)
    <3>1. Call(t).kind = "remove" /\ took' = took /\ Prunable(t, v)
      BY <2>5 DEF RemoveSet, Prunable
    <3>2. v \notin took'[t]
      BY <3>1, <1>4 DEF DecidedOf
    <3>3. CASE Moved(t)
      <4>1. SetLock(t, v) \in moved'[t] /\ cut' = cut
        BY <3>3, <2>2, <1>2, <2>5 DEF Moved, RemoveSet
      <4> QED
        BY <4>1, <3>1, <3>2, <2>1, <1>2, <1>3, <1>4, <1>6 DEF DecidedOf
    <3>4. CASE ~Moved(t)
      <4>1. lock'[SetLock(t, v)] = t
        BY <3>4, <2>5, <2>2 DEF RemoveSet
      <4>2. v \in cut'[t] <=> SetOf(t, v).stamp <= Call(t).seq \/ v \in cut[t]
        BY <3>4, <2>5, <1>9 DEF RemoveSet, Removable, SetOf, TypeOK
      <4> QED
        BY <4>1, <4>2, <3>1, <3>2, <2>1, <1>2, <1>3, <1>4, <1>5 DEF DecidedOf
    <3> QED
      BY <3>3, <3>4
  <2> QED
    BY <1>9, <2>3, <2>4, <2>5 DEF LockStep, LockRow, WriteRow, ReportMetadata, At
<1> QED
  BY <1>2, <1>7, <1>8, <1>9

\* Its other steps: it begins with what it sees, stores the relations of the
\* versions it took once every row is locked, and then only waits to commit.
LEMMA OwnOtherStep ==
  ASSUME SetsInv, TypeOK', NEW t \in Txs, Begin(t) \/ Locked(t) \/ AllWritten(t), OfEdges(t), NEW v \in Versions
  PROVE  DecidedOf(t, v)'
<1> USE DEF SetsInv, LockInv
<1>1. setup' = setup /\ edges' = edges /\ lock' = lock /\ moved' = moved /\ took' = took
  BY DEF Begin, Locked, AllWritten, Goes, did
<1>2. /\ Call(t)' = Call(t) /\ SetLock(t, v)' = SetLock(t, v) /\ SetOf(t, v)' = SetOf(t, v)
      /\ (Prunable(t, v)' <=> Prunable(t, v))
  BY <1>1, SetupStays DEF SetLock, Prunable, SetOf
<1>3. CASE Begin(t)
  <2>1. took'[t] = {} /\ cut'[t] = {} /\ SeenSet(t, v)' = SetOf(t, v) /\ pc'[t] = "lock"
    BY <1>3, <1>2 DEF Begin, IdleBlank, did, SeenSet, SetOf, TypeOK
  <2>2. todo'[t] = FirstLocks(t)
    BY <1>3 DEF Begin, TypeOK
  <2>3. v \in FirstLocks(t) <=> \/ Prunable(t, v) /\ SetOf(t, v).stamp # 0
                                \/ Call(t).kind = "replace" /\ v \in DOMAIN Call(t).sets
    BY DEF FirstLocks, Undeclared, Prunable, SetOf, OfEdges
  <2> QED
    BY <2>1, <2>2, <2>3, <1>1, <1>2 DEF DecidedOf, Pending
<1>4. CASE Locked(t)
  <2>1. DecidedOf(t, v)
    BY <1>4 DEF Decided, Open, Locked
  <2>2. /\ ~Pending(t, v) /\ ~Pending(t, v)' /\ SeenSet(t, v)' = SeenSet(t, v) /\ cut' = cut
    BY <1>4, <1>2 DEF Locked, Goes, Pending, SeenSet, did, OfEdges, TypeOK
  <2>3. v \in took[t] => out'[t][v] = Call(t).sets[v]
    <3> SUFFICES ASSUME v \in took[t] PROVE out'[t][v] = Call(t).sets[v]
      OBVIOUS
    <3>1. Call(t).kind = "replace"
      BY <2>1 DEF DecidedOf
    <3>2. out'[t][v] = Rewritten(t, v)
      BY <3>1, <1>4 DEF Locked, TypeOK
    <3> QED
      BY <3>2 DEF Rewritten, Visible
  <2> QED
    BY <2>1, <2>2, <2>3, <1>1, <1>2 DEF DecidedOf
<1>5. CASE AllWritten(t)
  <2>1. pc[t] = "meta" /\ pc'[t] = "commit"
    BY <1>5 DEF AllWritten, Goes, TodoKnown, TodoOf, OfEdges, TypeOK
  <2>2. DecidedOf(t, v)
    BY <2>1 DEF Decided, Open
  <2>3. SeenSet(t, v)' = SeenSet(t, v) /\ cut' = cut /\ out' = out
    BY <1>5, <1>2 DEF AllWritten, Goes, SeenSet, did
  <2> QED
    BY <2>1, <2>2, <2>3, <1>1, <1>2 DEF DecidedOf, Pending
<1> QED
  BY <1>3, <1>4, <1>5

\* The invariant of the edge sets is kept by every step.
LEMMA SetsInvStep == SetsInv /\ [Next]_vars => SetsInv'
<1> SUFFICES ASSUME SetsInv, [Next]_vars PROVE SetsInv'
  OBVIOUS
<1>1. LockInv'
  BY LockInvStep DEF SetsInv
<1>2. ASSUME NEW t \in Txs, Step(t) PROVE IdleBlank' /\ Decided'
  <2>0. TypeOK /\ TodoKnown /\ TypeOK'
    BY <1>1 DEF SetsInv, LockInv
  <2>1. setup' = setup /\ Txs' = Txs /\ \A u : Call(u)' = Call(u) /\ (OfEdges(u)' <=> OfEdges(u))
    BY <2>0, <1>2, TypeStep, SetupStays
  <2>2. pc'[t] # "idle"
    <3>1. CASE LockStep(t)
      BY <3>1, <2>0, LockStepAdvances DEF Advances
    <3>2. CASE ~LockStep(t)
      BY <1>2, <3>2, <2>0 DEF Step, LockStep, Begin, ListStale, Locked, AllWritten, Goes, Commit, Abort, TypeOK
    <3> QED
      BY <3>1, <3>2
  <2>3. IdleBlank'
    <3> SUFFICES ASSUME NEW u \in Txs, pc'[u] = "idle" PROVE took'[u] = {} /\ cut'[u] = {}
      BY <2>1 DEF IdleBlank
    <3>1. u # t
      BY <2>2
    <3> QED
      BY <3>1, <2>0, <1>2, OthersFields DEF SetsInv, IdleBlank
  <2>4. ASSUME NEW u \in Txs, NEW v \in Versions, OfEdges(u), pc'[u] \notin {"idle", "over"}
        PROVE  DecidedOf(u, v)'
    <3>1. CASE u = t
      <4>1. ~ListStale(t) /\ ~Commit(t) /\ ~Abort(t)
        BY <2>4, <3>1, <2>0 DEF ListStale, Commit, Abort, OfEdges, TypeOK
      <4>2. LockStep(t) \/ Begin(t) \/ Locked(t) \/ AllWritten(t)
        BY <4>1, <1>2 DEF Step, LockStep
      <4> QED
        BY <4>2, <3>1, <2>0, <2>4, OwnLockStep, OwnOtherStep
    <3>2. CASE u # t
      <4>1. Open(u) /\ DecidedOf(u, v)
        BY <3>2, <2>0, <2>4, <1>2, OthersFields DEF SetsInv, Decided, Open
      <4>2. SetLock(u, v) \in Locks /\ SetOf(u, v).stamp \in Nat
        BY <2>0, SetFacts
      <4>3. CASE Commit(t)
        BY <4>1, <4>2, <4>3, <3>2, <2>0, <2>1, <2>4, <1>2, OthersFields, CommitWrites, OthersKeep
      <4>4. CASE ~Commit(t)
        <5>1. moved'[u] = moved[u] /\ edges' = edges
          BY <4>4, <3>2, <2>0, <1>2, OthersFields
        <5>2. SetOf(u, v)' = SetOf(u, v)
          BY <5>1, <2>1 DEF SetOf
        <5>3. SetOf(u, v)'.stamp >= SetOf(u, v).stamp
          BY <5>2, <4>2
        <5> QED
          BY <5>1, <5>2, <5>3, <4>1, <4>2, <3>2, <2>0, <2>1, <1>2, OthersFields, OthersKeep
      <4> QED
        BY <4>3, <4>4
    <3> QED
      BY <3>1, <3>2
  <2> QED
    BY <2>1, <2>3, <2>4 DEF Decided, Open
<1>3. CASE UNCHANGED vars
  <2>1. /\ setup' = setup /\ rows' = rows /\ edges' = edges /\ lock' = lock /\ pc' = pc /\ todo' = todo
        /\ seen' = seen /\ took' = took /\ cut' = cut /\ moved' = moved /\ out' = out
    BY <1>3 DEF vars, did
  <2>2. Txs' = Txs /\ \A u : Call(u)' = Call(u) /\ (OfEdges(u)' <=> OfEdges(u))
    BY <2>1, SetupStays
  <2>3. IdleBlank'
    BY <2>1, <2>2 DEF SetsInv, IdleBlank
  <2>4. Decided'
    <3> SUFFICES ASSUME NEW u \in Txs, NEW v \in Versions, OfEdges(u), Open(u) PROVE DecidedOf(u, v)'
      BY <2>1, <2>2 DEF Decided, Open
    <3>1. DecidedOf(u, v)
      BY DEF SetsInv, Decided
    <3> QED
      BY <3>1, <2>1, <2>2 DEF DecidedOf, SetOf, SeenSet, SetLock, Pending, Prunable
  <2> QED
    BY <1>1, <2>3, <2>4 DEF SetsInv
<1> QED
  BY <1>1, <1>2, <1>3 DEF SetsInv, Next

\* It holds at first.
LEMMA SetsInvInit == Init => SetsInv
<1> SUFFICES ASSUME Init PROVE SetsInv
  OBVIOUS
<1>1. LockInv
  BY LockInvInit
<1>2. IdleBlank /\ Decided
  BY DEF Init, IdleBlank, Decided, Open
<1> QED
  BY <1>1, <1>2 DEF SetsInv

\* The outcomes, by what the call does with the version.
LEMMA OutcomesFacts ==
  ASSUME NEW t, NEW v
  PROVE  /\ Call(t).kind = "replace" /\ v \in DOMAIN Call(t).sets =>
              ReplacedSet(SetOf(t, v), Call(t).seq, Call(t).sets[v]) \in Outcomes(t, v)
         /\ Prunable(t, v) => RemovedSet(SetOf(t, v), Call(t).seq) \in Outcomes(t, v)
         /\ Prunable(t, v) /\ (SeenSet(t, v).stamp = 0 \/ SetLock(t, v) \in moved[t]) =>
              SetOf(t, v) \in Outcomes(t, v)
         /\ Call(t).kind = "replace" /\ ~Prunable(t, v) /\ v \notin DOMAIN Call(t).sets =>
              SetOf(t, v) \in Outcomes(t, v)
<1> DEFINE c == Call(t)
           left == IF SeenSet(t, v).stamp = 0 \/ SetLock(t, v) \in moved[t] THEN {SetOf(t, v)} ELSE {}
<1>1. Outcomes(t, v) =
        IF Prunable(t, v) THEN {RemovedSet(SetOf(t, v), c.seq)} \cup left
        ELSE IF v \in DOMAIN c.sets THEN {ReplacedSet(SetOf(t, v), c.seq, c.sets[v])}
        ELSE {SetOf(t, v)}
  BY DEF Outcomes, SetOf, SeenSet, SetLock
<1>2. Call(t).kind = "replace" /\ v \in DOMAIN Call(t).sets => ~Prunable(t, v)
  BY DEF Prunable
<1> QED
  BY <1>1, <1>2

\* A commit under the invariant has one of the outcomes of an atomic call.
LEMMA CommitOutcome ==
  ASSUME SetsInv, NEW t \in Txs, Commit(t), OfEdges(t), NEW v \in Versions
  PROVE  edges'[Call(t).at][v] \in Outcomes(t, v)
<1> USE DEF SetsInv, LockInv
<1>1. DecidedOf(t, v) /\ ~Pending(t, v)
  BY DEF Decided, Open, Commit, Pending
<1>2. SetOf(t, v).stamp \in Nat /\ Call(t).seq \in Nat /\ Call(t).at \in Resources
  BY SetFacts
<1>3. edges'[Call(t).at][v] =
        IF v \in took[t] THEN [stamp |-> Call(t).seq, kids |-> out[t][v]]
        ELSE IF v \in cut[t] THEN NoEdges ELSE SetOf(t, v)
  BY <1>2 DEF Commit, SetOf, TypeOK, EdgeTables
<1>4. CASE v \in took[t]
  <2>1. /\ Call(t).kind = "replace" /\ v \in DOMAIN Call(t).sets
        /\ SetOf(t, v).stamp <= Call(t).seq /\ out[t][v] = Call(t).sets[v]
    BY <1>1, <1>4 DEF DecidedOf, Commit
  <2> QED
    BY <2>1, <1>3, <1>4, OutcomesFacts DEF ReplacedSet
<1>5. CASE v \notin took[t] /\ v \in cut[t]
  <2>1. Prunable(t, v) /\ SetOf(t, v).stamp <= Call(t).seq
    BY <1>1, <1>5 DEF DecidedOf
  <2>2. NoEdges = RemovedSet(SetOf(t, v), Call(t).seq)
    BY <2>1 DEF RemovedSet
  <2> QED
    BY <2>1, <2>2, <1>3, <1>5, OutcomesFacts
<1>6. CASE v \notin took[t] /\ v \notin cut[t]
  <2>1. edges'[Call(t).at][v] = SetOf(t, v)
    BY <1>3, <1>6
  <2>2. CASE Call(t).kind = "replace" /\ v \in DOMAIN Call(t).sets
    <3>1. SetOf(t, v).stamp > Call(t).seq
      BY <2>2, <1>6, <1>1 DEF DecidedOf
    <3>2. ReplacedSet(SetOf(t, v), Call(t).seq, Call(t).sets[v]) = SetOf(t, v)
      BY <3>1, <1>2 DEF ReplacedSet
    <3> QED
      BY <3>2, <2>1, <2>2, OutcomesFacts
  <2>3. CASE Prunable(t, v)
    <3>1. \/ SeenSet(t, v).stamp = 0 \/ SetLock(t, v) \in moved[t]
          \/ SetOf(t, v).stamp > Call(t).seq
      BY <2>3, <1>6, <1>1 DEF DecidedOf
    <3>2. SetOf(t, v).stamp > Call(t).seq => RemovedSet(SetOf(t, v), Call(t).seq) = SetOf(t, v)
      BY <1>2 DEF RemovedSet
    <3> QED
      BY <3>1, <3>2, <2>1, <2>3, OutcomesFacts
  <2>4. CASE ~Prunable(t, v) /\ ~(Call(t).kind = "replace" /\ v \in DOMAIN Call(t).sets)
    BY <2>1, <2>4, OutcomesFacts DEF Prunable, OfEdges
  <2> QED
    BY <2>2, <2>3, <2>4
<1> QED
  BY <1>4, <1>5, <1>6

\* Every transaction of edge sets is, per version, the one atomic step that
\* Indexer, RebuildWalk and SourceAudit take it for, whatever runs beside it.
THEOREM CommitsAreAtomic == Spec => StatementsAtomic
<1>1. SetsInv /\ [Next]_vars =>
        [\A t \in Txs : OfEdges(t) /\ pc[t] = "commit" /\ pc'[t] = "over" =>
           \A v \in Versions : edges'[Call(t).at][v] \in Outcomes(t, v)]_vars
  <2> SUFFICES ASSUME SetsInv, [Next]_vars, ~UNCHANGED vars,
                      NEW t \in Txs, OfEdges(t), pc[t] = "commit", pc'[t] = "over", NEW v \in Versions
               PROVE  edges'[Call(t).at][v] \in Outcomes(t, v)
    OBVIOUS
  <2>1. PICK u \in Txs : Step(u)
    BY DEF Next
  <2>2. u = t
    BY <2>1, OthersFields DEF SetsInv, LockInv
  <2>3. ~Abort(t)
    BY DEF Abort, Deadlock, Blocked
  <2>4. ~LockStep(t)
    BY LockStepAdvances DEF Advances, SetsInv, LockInv
  <2>5. Commit(t)
    BY <2>1, <2>2, <2>3, <2>4 DEF Step, LockStep, Begin, ListStale, Locked, AllWritten
  <2> QED
    BY <2>5, CommitOutcome
<1>2. Spec => []SetsInv
  BY SetsInvInit, SetsInvStep, PTL DEF Spec
<1> QED
  BY <1>1, <1>2, PTL DEF Spec, StatementsAtomic

=============================================================================
