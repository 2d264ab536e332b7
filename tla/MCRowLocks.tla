----------------------------- MODULE MCRowLocks -----------------------------
(* Calls made at once, for TLC. *)
EXTENDS RowLocks, TLC

Call0 == [at |-> 1, seq |-> 0, sets |-> <<>>, prunes |-> FALSE, declared |-> {}, reported |-> FALSE,
          items |-> {}, kind |-> ""]

Replace(seq, sets, declared, prunes) ==
    [Call0 EXCEPT !.kind = "replace", !.seq = seq, !.sets = sets, !.declared = declared,
                  !.prunes = prunes, !.reported = TRUE]
RemoveOf(seq) == [Call0 EXCEPT !.kind = "remove", !.seq = seq]
On(kind, items) == [Call0 EXCEPT !.kind = kind, !.items = items]

Set(stamp, kids) == [stamp |-> stamp, kids |-> kids]
Unstored == [v \in Versions |-> NoEdges]

\* The sets of resource 1 as one or two earlier builds left them; 1 is no
\* Parent of itself, and nothing else has sets.
Stored == {[r \in Resources |-> IF r = 1 THEN s ELSE Unstored] :
             s \in {Unstored, [v \in Versions |-> Set(1, {2})],
                    [v \in Versions |-> IF v = 1 THEN Set(5, {3}) ELSE NoEdges],
                    [v \in Versions |-> IF v = 2 THEN Set(1, {3}) ELSE NoEdges]}}

\* A build at a sequence of any versions, which it declares, or a walk of them.
Replaces(seq, kids) ==
    {Replace(seq, [v \in V |-> kids], V, prunes) : V \in (SUBSET {1, 2}) \ {{}}, prunes \in BOOLEAN}

\* Two builds of one resource and a delete, at sequences that interleave.
Rebuilt ==
    {[calls |-> <<a, b, RemoveOf(5)>>, rows |-> {{}, {1}}, edges |-> Stored] :
       a \in Replaces(4, {2}), b \in Replaces(6, {2, 3})}

\* A walk's replace, which prunes nothing, a live build of fewer versions, and a mark of the same row.
Walked == [calls |-> << Replace(3, 1 :> {3} @@ 2 :> {2}, {}, FALSE),
                        Replace(4, 2 :> {3} @@ 3 :> {2}, {2, 3}, TRUE),
                        On("register", {2}) >>,
           rows |-> {{1, 2}}, edges |-> Stored]

\* Resources rows: 1 is the Parent of 2 and 3.
Parented == {[r \in Resources |-> IF r = 1 THEN [v \in Versions |-> Set(1, {2, 3})] ELSE Unstored]}

Marks == [calls |-> << On("register", {2}), On("mark", {1, 2, 3}), On("touch", {1, 3}) >>,
          rows |-> {{1, 2, 3}, {1, 2}, {2, 3}}, edges |-> Parented]

Deletes == [calls |-> << On("register", {2, 3}), On("drop", {1}), On("mark", {1, 3}), On("list", {}) >>,
            rows |-> {{1, 2, 3}, {1, 3}}, edges |-> Parented]

Reports == [calls |-> << Replace(4, 1 :> {2}, {1}, TRUE), On("register", {2}), On("mark", {1, 2}),
                         On("drop", {2}) >>,
            rows |-> {{1, 2}, {2}}, edges |-> Parented]

LockSetups == Rebuilt \cup {Walked, Marks, Deletes, Reports}

=============================================================================
