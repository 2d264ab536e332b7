------------------------------ MODULE MCIndexer ------------------------------
(* Small instances of Indexer for TLC. *)
EXTENDS Indexer, TLC

WorkerSymmetry == Permutations(Pool)

One == {1}
Two == {1, 2}

Always == {{1}}
Sometimes == {{}, {1}}
Nothing == [r \in Resources |-> {{}}]
NoRefs == [r \in Resources |-> {}]

\* A resource that comes and goes, related to nothing, and one change of it.
Plain == [workers |-> 1, versions |-> {1}, versioned |-> {1},
          existences |-> [r \in Resources |-> IF r = 1 THEN Sometimes ELSE {}],
          refs |-> Nothing, ups |-> Nothing, settled |-> {1}, initRefs |-> NoRefs,
          batch |-> 1, regs |-> 1, changes |-> 2, errors |-> 0, crashes |-> 0, lapses |-> 0,
          sheds |-> 0, forgets |-> 0]

\* A resource without an upstream version, which its Schema Versions find
\* apart from one another, while Elasticsearch forgets a delete.
Lifecycle == [Plain EXCEPT
    !.versions = {1, 2}, !.versioned = {},
    !.existences = [r \in Resources |-> IF r = 1 THEN SUBSET {1, 2} ELSE {}],
    !.lapses = 1, !.forgets = 1]

\* The same with a failure in place of the lapse.
LifecycleFailing == [Lifecycle EXCEPT !.lapses = 0, !.errors = 1]

\* One of each failure.
Failures == [Plain EXCEPT
    !.settled = {}, !.errors = 1, !.crashes = 1, !.lapses = 1, !.sheds = 1]

\* Resource 1 is the Parent: 2 comes and goes and names it, or nothing.
Registrations == [Plain EXCEPT
    !.existences = [r \in Resources |-> IF r = 1 THEN Always ELSE Sometimes],
    !.ups = [r \in Resources |-> IF r = 2 THEN {{}, {1}} ELSE {{}}],
    !.regs = 2, !.changes = 3]

\* The same with the Parent left alone, built beside its child.
Builds == [Registrations EXCEPT
    !.existences = [r \in Resources |-> IF r = 1 THEN {} ELSE Sometimes], !.regs = 1,
    !.workers = 2]

\* Resource 1 refers to 2 or to nothing; 2 changes and stays.
References == [Plain EXCEPT
    !.existences = [r \in Resources |-> Always],
    !.refs = [r \in Resources |-> IF r = 1 THEN {{}, {2}} ELSE {{}}],
    !.settled = {1, 2}, !.initRefs = [r \in Resources |-> IF r = 1 THEN {2} ELSE {}],
    !.batch = 2, !.lapses = 1]

FailuresSetups == <<Failures>>
ChangesSetups == <<Lifecycle, LifecycleFailing, Registrations, References, Builds>>
LoweredSetups == <<Registrations>>

=============================================================================
