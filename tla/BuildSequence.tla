---------------------------- MODULE BuildSequence ----------------------------
(***************************************************************************)
(* The numbers drawn from change_sequence, and the two places where the    *)
(* higher Build Sequence wins: a document in Elasticsearch and the edge    *)
(* set of one Schema Version in Postgres.                                  *)
(***************************************************************************)
EXTENDS Integers, FiniteSets

\* The position of r in S: numbers are drawn in (type, id) order.
Nth(S, r) == Cardinality({x \in S : x <= r})

LeastOf(S) == CHOOSE v \in S : \A u \in S : v <= u

\* Faulty variant: the last write wins.
WrittenLast(doc, body, idx) == [ver |-> idx, body |-> body]

\* Elasticsearch's external_gte: a write below the stored version is refused,
\* which the client reports as success.
Written(doc, body, idx) == IF doc.ver <= idx THEN [ver |-> idx, body |-> body] ELSE doc

NoEdges == [stamp |-> 0, kids |-> {}]

\* Faulty variant: the last build to store its edges wins.
ReplacedSetLast(set, idx, kids) == [stamp |-> idx, kids |-> kids]

\* Per Schema Version the set of the highest Build Sequence stays.
ReplacedSet(set, idx, kids) ==
    IF set.stamp <= idx THEN [stamp |-> idx, kids |-> kids] ELSE set

\* RemoveResource: a set above the delete's Build Sequence stays.
RemovedSet(set, idx) == IF set.stamp <= idx THEN NoEdges ELSE set

==============================================================================
