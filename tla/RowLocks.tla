------------------------------ MODULE RowLocks ------------------------------
(***************************************************************************)
(* The transactions of storage/postgres/pg.go lock by lock: which row each *)
(* statement waits for, and what it sees once it has it.  Indexer,         *)
(* RebuildWalk and SourceAudit take every statement as one step; here the  *)
(* steps inside it are shown to amount to that, and not to deadlock.       *)
(*                                                                         *)
(* A resource is a number, its place in (type, id) order.  Of a resources  *)
(* row only its presence is kept; an edge_sets row with its relations is   *)
(* a set as in BuildSequence.  A lock is held from the statement that      *)
(* takes it to the commit; one on a row not yet there is an uncommitted    *)
(* insert, for which an insert of the same key waits.                      *)
(***************************************************************************)
EXTENDS BuildSequence

CONSTANTS
    Resources,  \* numbers in (type, id) order
    Versions,   \* Schema Versions
    Setups      \* each the calls made at once, and the rows they may find

Kinds == {"replace", "remove", "register", "mark", "touch", "drop", "list"}

EdgeSets == [stamp : Nat, kids : SUBSET Resources]
EdgeTables == [Resources -> [Versions -> EdgeSets]]

\* Sequences are drawn from 1; the calls of edge sets carry one.
IsCall(c) ==
    /\ c.kind \in Kinds /\ c.at \in Resources /\ c.items \subseteq Resources
    /\ c.seq \in Nat /\ (c.kind \in {"replace", "remove"} => c.seq # 0)
    /\ DOMAIN c.sets \subseteq Versions /\ \A v \in DOMAIN c.sets : c.sets[v] \subseteq Resources
    /\ c.prunes \in BOOLEAN /\ c.reported \in BOOLEAN

IsSetup(s) ==
    /\ DOMAIN s.calls \subseteq Nat \ {0}
    /\ \A t \in DOMAIN s.calls : IsCall(s.calls[t])
    /\ s.rows \subseteq SUBSET Resources
    /\ s.edges \subseteq EdgeTables

ASSUME LocksAssumption ==
    /\ Resources \subseteq Nat
    /\ Versions \subseteq Nat
    /\ \A s \in Setups : IsSetup(s)

VARIABLES
    setup,   \* the situation of this behaviour
    rows,    \* resources rows committed
    edges,   \* edges[r][v]: edge sets committed
    lock,    \* lock[l]: the transaction that holds l, 0 for none
    \* Of the transaction of each call t:
    pc,      \* where it is
    todo,    \* rows left to take, by resource or Schema Version
    seen,    \* rows and edges as it found them when it began
    took,    \* versions it stamps
    cut,     \* rows it removes
    made,    \* rows it inserts
    moved,   \* locks of rows removed by others since it began
    out      \* relations it stores, per version

did == <<took, cut, made>>
vars == <<setup, rows, edges, lock, pc, todo, seen, did, moved, out>>

None == 0
Calls == setup.calls
Txs == DOMAIN Calls
Call(t) == Calls[t]

EdgeLock(r, v) == <<"edge", r, v>>
RowLock(r) == <<"row", r, 0>>
Locks == {EdgeLock(r, v) : r \in Resources, v \in Versions} \cup {RowLock(r) : r \in Resources}

OfEdges(t) == Call(t).kind \in {"replace", "remove"}

-----------------------------------------------------------------------------
(* What a statement locks first *)

\* The Parents of S in a table of relations.
Parents(table, S) == {p \in Resources : \E v \in Versions : table[p][v].kids \cap S # {}}

\* Stored versions outside declared and the offered sets, read without a lock.
Undeclared(t) ==
    {v \in Versions : /\ Call(t).prunes
                      /\ edges[Call(t).at][v].stamp # 0
                      /\ v \notin Call(t).declared \cup DOMAIN Call(t).sets}

\* The rows of the items, and for a registration of their Parents.
Input(t, table) ==
    Call(t).items \cup IF Call(t).kind = "register" THEN Parents(table, Call(t).items) ELSE {}

\* The CTE named locked takes those of them that exist.
LockedInput(t) == rows \cap Input(t, edges)

FirstLocks(t) ==
    CASE Call(t).kind = "replace" -> DOMAIN Call(t).sets \cup Undeclared(t)
      [] Call(t).kind = "remove" -> {v \in Versions : edges[Call(t).at][v].stamp # 0}
      [] OTHER -> LockedInput(t)

\* Faulty variant: ReplaceEdges goes through the versions of a map that was
\* not sorted.
HereUnsorted(t) ==
    IF pc[t] = "lock" /\ Call(t).kind = "replace"
    THEN CHOOSE v \in todo[t] : \A u \in todo[t] : u <= v
    ELSE LeastOf(todo[t])

\* Every statement takes its rows in ascending order, one after the other.
Here(t) == LeastOf(todo[t])

-----------------------------------------------------------------------------
(* Waiting *)

At(t, p) == pc[t] = p /\ todo[t] # {}

\* The lock transaction t is at.
Wanted(t) ==
    IF pc[t] = "lock" /\ OfEdges(t) THEN EdgeLock(Call(t).at, Here(t)) ELSE RowLock(Here(t))

\* The guarded delete of an undeclared version passes over a set that is
\* stamped above the build, or gone, without waiting.
Passes(t) ==
    /\ pc[t] = "lock" /\ Call(t).kind = "replace"
    /\ Here(t) \notin DOMAIN Call(t).sets
    /\ edges[Call(t).at][Here(t)].stamp \notin 1 .. Call(t).seq

\* The row the statement's snapshot saw has been removed since, whether or not
\* another of the same key has been inserted.
Moved(t) == Wanted(t) \in moved[t]

Blocked(t) ==
    /\ pc[t] \in {"lock", "write", "parents", "meta"} /\ todo[t] # {}
    /\ lock[Wanted(t)] \notin {None, t}
    /\ ~Passes(t)

Deadlock(C) ==
    /\ C # {} /\ \A t \in C : Blocked(t)
    /\ {lock[Wanted(t)] : t \in C} = C

\* The lock at hand is taken, and the step past it.
Takes(t) == lock' = [lock EXCEPT ![Wanted(t)] = t]

Past(t) ==
    /\ todo' = [todo EXCEPT ![t] = @ \ {Here(t)}]
    /\ UNCHANGED <<setup, rows, edges, pc, seen, moved, out>>

-----------------------------------------------------------------------------
(* The transactions *)

Begin(t) ==
    /\ pc[t] = "idle" /\ Call(t).kind # "list"
    /\ pc' = [pc EXCEPT ![t] = "lock"]
    /\ todo' = [todo EXCEPT ![t] = FirstLocks(t)]
    /\ seen' = [seen EXCEPT ![t] = [rows |-> rows, edges |-> edges]]
    /\ UNCHANGED <<setup, rows, edges, lock, did, moved, out>>

\* ListStale locks with SKIP LOCKED: it takes what is free and never waits.
ListStale(t) ==
    /\ pc[t] = "idle" /\ Call(t).kind = "list"
    /\ \E S \in SUBSET {r \in rows : lock[RowLock(r)] = None} :
         lock' = [l \in Locks |-> IF \E r \in S : l = RowLock(r) THEN t ELSE lock[l]]
    /\ pc' = [pc EXCEPT ![t] = "commit"]
    /\ UNCHANGED <<setup, rows, edges, todo, seen, did, moved, out>>

\* ReplaceEdges's guarded upsert: the row is locked also when the guard, read
\* from the row as it is once locked, refuses it.
TakeSet(t) ==
    /\ At(t, "lock") /\ Call(t).kind = "replace" /\ ~Blocked(t)
    /\ Here(t) \in DOMAIN Call(t).sets
    /\ Takes(t) /\ Past(t)
    /\ took' = IF edges[Call(t).at][Here(t)].stamp <= Call(t).seq
               THEN [took EXCEPT ![t] = @ \cup {Here(t)}] ELSE took
    /\ UNCHANGED <<cut, made>>

\* Its guarded delete of a version no longer declared.
DropSet(t) ==
    /\ At(t, "lock") /\ Call(t).kind = "replace" /\ ~Blocked(t)
    /\ Here(t) \notin DOMAIN Call(t).sets
    /\ Past(t)
    /\ \/ ~Passes(t) /\ Takes(t) /\ cut' = [cut EXCEPT ![t] = @ \cup {Here(t)}]
       \/ Passes(t) /\ UNCHANGED <<lock, cut>>
       \/ Passes(t) /\ lock[Wanted(t)] = None /\ Takes(t) /\ UNCHANGED cut
       \/ ~Passes(t) /\ Moved(t) /\ UNCHANGED <<lock, cut>>
    /\ UNCHANGED <<took, made>>

Removable(t, v) == edges[Call(t).at][v].stamp <= Call(t).seq

\* RemoveResource's SELECT ... FOR UPDATE.
RemoveSet(t) ==
    /\ At(t, "lock") /\ Call(t).kind = "remove" /\ ~Blocked(t)
    /\ Past(t)
    /\ IF Moved(t) THEN UNCHANGED lock ELSE Takes(t)
    /\ cut' = IF ~Moved(t) /\ Removable(t, Here(t)) THEN [cut EXCEPT ![t] = @ \cup {Here(t)}] ELSE cut
    /\ UNCHANGED <<took, made>>

\* SELECT ... FOR UPDATE of the resources rows, or a delete of one row.
LockRow(t) ==
    /\ At(t, "lock") /\ ~OfEdges(t) /\ ~Blocked(t)
    /\ IF Moved(t) THEN UNCHANGED lock ELSE Takes(t)
    /\ Past(t)
    /\ UNCHANGED did

\* Faulty variant: phase two deletes what the transaction saw when it began.
VisibleAtStart(t, v) == seen[t].edges[Call(t).at][v].kids

\* The relations the DELETE of phase two sees: a statement of its own, which
\* starts when every edge_sets row is locked.
Visible(t, v) == edges[Call(t).at][v].kids

\* The relations of version v after phase two.
Rewritten(t, v) ==
    LET kids == Call(t).sets[v]
    IN  (edges[Call(t).at][v].kids \ (Visible(t, v) \ kids)) \cup kids

Goes(t, p, next) ==
    /\ pc' = [pc EXCEPT ![t] = p]
    /\ todo' = [todo EXCEPT ![t] = next]
    /\ UNCHANGED <<setup, rows, edges, lock, seen, moved>>

Locked(t) ==
    /\ pc[t] = "lock" /\ todo[t] = {}
    /\ \/ /\ Call(t).kind = "replace" /\ Goes(t, "meta", {Call(t).at})
          /\ out' = [out EXCEPT ![t] = [v \in Versions |-> IF v \in took[t] THEN Rewritten(t, v) ELSE {}]]
          /\ UNCHANGED did
       \/ /\ Call(t).kind \in {"mark", "register"} /\ Goes(t, "write", Call(t).items)
          /\ UNCHANGED <<did, out>>
       \/ /\ Call(t).kind = "drop" /\ Goes(t, "commit", {})
          /\ \E guard \in BOOLEAN :
               cut' = [cut EXCEPT ![t] = {r \in Call(t).items : guard /\ lock[RowLock(r)] = t}]
          /\ UNCHANGED <<took, made, out>>
       \/ /\ Call(t).kind \in {"remove", "touch"} /\ Goes(t, "commit", {})
          /\ UNCHANGED <<did, out>>

\* INSERT ... ON CONFLICT DO UPDATE of one row: held already, found, or made.
WriteRow(t) ==
    /\ At(t, "write") \/ At(t, "parents")
    /\ ~Blocked(t)
    /\ Takes(t) /\ Past(t)
    /\ made' = [made EXCEPT ![t] = @ \cup ({Here(t)} \ rows)]
    /\ UNCHANGED <<took, cut>>

\* The metadata report: an UPDATE of the resources row, if it is there and
\* has no metadata yet, after every edge_sets row.
ReportMetadata(t) ==
    /\ At(t, "meta")
    /\ Past(t)
    /\ \/ Call(t).reported /\ Here(t) \in rows /\ ~Blocked(t) /\ Takes(t)
       \/ UNCHANGED lock
    /\ UNCHANGED did

\* The items are upserted in order, a registration's that it rejects too, then
\* the Parents of the ones it accepts, which its snapshot names.
AllWritten(t) ==
    /\ todo[t] = {}
    /\ \/ /\ pc[t] = "write" /\ Call(t).kind = "register"
          /\ \E accepted \in SUBSET Call(t).items :
               Goes(t, "parents", Parents(seen[t].edges, accepted) \ accepted)
       \/ pc[t] = "write" /\ Call(t).kind = "mark" /\ Goes(t, "commit", {})
       \/ pc[t] \in {"parents", "meta"} /\ Goes(t, "commit", {})
    /\ UNCHANGED <<did, out>>

Release(t) == lock' = [l \in Locks |-> IF lock[l] = t THEN None ELSE lock[l]]

\* The keys whose row a commit of t removes.
Removed(t) ==
    IF OfEdges(t) THEN {EdgeLock(Call(t).at, v) : v \in cut[t]} ELSE {RowLock(r) : r \in cut[t]}

Commit(t) ==
    /\ pc[t] = "commit"
    /\ rows' = IF OfEdges(t) THEN rows ELSE (rows \cup made[t]) \ cut[t]
    /\ edges' = IF ~OfEdges(t) THEN edges
                ELSE [edges EXCEPT ![Call(t).at] = [v \in Versions |->
                        IF v \in took[t] THEN [stamp |-> Call(t).seq, kids |-> out[t][v]]
                        ELSE IF v \in cut[t] THEN NoEdges ELSE @[v]]]
    /\ pc' = [pc EXCEPT ![t] = "over"]
    /\ moved' = [u \in Txs |-> IF u = t \/ pc[u] = "idle" THEN moved[u] ELSE moved[u] \cup Removed(t)]
    /\ Release(t)
    /\ UNCHANGED <<setup, todo, seen, did, out>>

\* Postgres aborts one transaction of a deadlock; a registration is then
\* reported as ErrRegistrationAborted.
Abort(t) ==
    /\ \E C \in SUBSET Txs : t \in C /\ Deadlock(C)
    /\ pc' = [pc EXCEPT ![t] = "over"]
    /\ Release(t)
    /\ UNCHANGED <<setup, rows, edges, todo, seen, did, moved, out>>

-----------------------------------------------------------------------------
(* Specification *)

NothingSeen == [rows |-> {}, edges |-> [r \in Resources |-> [v \in Versions |-> NoEdges]]]

Init ==
    /\ setup \in Setups
    /\ rows \in setup.rows
    /\ edges \in setup.edges
    /\ lock = [l \in Locks |-> None]
    /\ pc = [t \in Txs |-> "idle"]
    /\ seen = [t \in Txs |-> NothingSeen]
    /\ out = [t \in Txs |-> [v \in Versions |-> {}]]
    /\ todo = [t \in Txs |-> {}] /\ took = todo /\ cut = todo /\ made = todo /\ moved = todo

Step(t) ==
    \/ Begin(t) \/ ListStale(t) \/ TakeSet(t) \/ DropSet(t) \/ RemoveSet(t) \/ LockRow(t) \/ Locked(t)
    \/ WriteRow(t) \/ ReportMetadata(t) \/ AllWritten(t) \/ Commit(t) \/ Abort(t)

Over == \A t \in Txs : pc[t] = "over"

Next == (\E t \in Txs : Step(t)) \/ (Over /\ UNCHANGED vars)

Spec == Init /\ [][Next]_vars

-----------------------------------------------------------------------------
(* Properties *)

\* ReplaceEdges and RemoveResource are in no deadlock, whatever versions each
\* names or prunes and whoever holds the resources row of its report; and the
\* statements of resources rows deadlock only over a row that was created or
\* removed while they ran, never over rows that stay.
NoDeadlock ==
    \A C \in SUBSET Txs : Deadlock(C) =>
        /\ \A t \in C : ~OfEdges(t)
        /\ \E t \in C : /\ pc[t] \in {"write", "parents"}
                        /\ Here(t) \notin seen[t].rows \/ Moved(t)

\* The versions a call is to remove.
Prunable(t, v) ==
    \/ Call(t).kind = "remove"
    \/ /\ Call(t).kind = "replace" /\ Call(t).prunes
       /\ v \notin Call(t).declared \cup DOMAIN Call(t).sets

\* What a commit makes of version v of the resource it writes, of the set as
\* the commit finds it: a version the call saw none of may be left to whoever
\* stored it.
Outcomes(t, v) ==
    LET c == Call(t)
        set == edges[c.at][v]
        left == IF seen[t].edges[c.at][v].stamp = 0 \/ EdgeLock(c.at, v) \in moved[t] THEN {set} ELSE {}
    IN  IF Prunable(t, v) THEN {RemovedSet(set, c.seq)} \cup left
        ELSE IF v \in DOMAIN c.sets THEN {ReplacedSet(set, c.seq, c.sets[v])}
        ELSE {set}

\* Each transaction of edge sets is, per version, the one step the other models
\* take it for - the higher Build Sequence wins, and the relations stored are
\* those of the build that stamped them - although its statements read
\* snapshots older than the locks they waited for.
StatementsAtomic ==
    [][\A t \in Txs : OfEdges(t) /\ pc[t] = "commit" /\ pc'[t] = "over" =>
           \A v \in Versions : edges'[Call(t).at][v] \in Outcomes(t, v)]_vars

=============================================================================
