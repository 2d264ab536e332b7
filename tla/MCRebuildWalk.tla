---------------------------- MODULE MCRebuildWalk ----------------------------
(* Small instances of RebuildWalk for TLC. *)
EXTENDS RebuildWalk

Vs(n) == 1 .. n

\* A walk of a type with one root, one version and one page, nothing failing.
Plain == [roots |-> {1}, kids |-> {}, versions |-> Vs(1), existences |-> {Vs(1)},
          selected |-> Vs(1), pages |-> [v \in Vs(1) |-> << <<1>> >>], batches |-> <<>>,
          paced |-> FALSE, attempts |-> 1, changes |-> 0, errors |-> 0, crashes |-> 0]

TwoSightings == << <<1>>, <<1>> >>

\* Two versions that find the root apart from one another; each lists it twice.
TwoPlans == [Plain EXCEPT
    !.versions = Vs(2), !.existences = SUBSET Vs(2), !.selected = Vs(2),
    !.pages = [v \in Vs(2) |-> TwoSightings],
    !.paced = TRUE, !.changes = 1, !.errors = 1]

\* A page per root, lost pages and processes, and a second attempt.
Resumed == [Plain EXCEPT
    !.roots = {1, 2}, !.existences = {{}, Vs(1)}, !.pages = [v \in Vs(1) |-> << <<1>>, <<2>> >>],
    !.paced = TRUE, !.attempts = 2, !.errors = 1, !.crashes = 1]

\* The same with a second failure, so that a failed resource's mark may fail too.
ResumedFailing == [Resumed EXCEPT !.existences = {Vs(1)}, !.errors = 2]

\* A root that comes and goes under an attempt that is lost and repeated.
Crashing == [Plain EXCEPT
    !.existences = {{}, Vs(1)}, !.attempts = 2, !.changes = 2, !.crashes = 1]

\* Given ids, at two of three versions.
GivenIds == [Plain EXCEPT
    !.roots = {1, 2}, !.kids = {11}, !.versions = Vs(3), !.selected = Vs(2),
    !.existences = {{}, {3}, {1, 3}},
    !.pages = [v \in Vs(2) |-> <<>>], !.batches = << {1, 2} >>, !.changes = 1, !.errors = 1]

\* The first plan lists a root again after a full chunk; the second omits one.
Changing == [Plain EXCEPT
    !.roots = {1, 2}, !.kids = {11}, !.versions = Vs(2), !.selected = Vs(2),
    !.existences = {Vs(2)},
    !.pages = [v \in Vs(2) |-> IF v = 1 THEN << <<1, 2, 1>> >> ELSE << <<1>> >>],
    !.changes = 1, !.errors = 1]

\* One of two versions is rebuilt while the root changes.
Unserved == [Plain EXCEPT
    !.versions = Vs(2), !.existences = {Vs(2)}, !.pages = [v \in Vs(1) |-> TwoSightings],
    !.changes = 1]

WalkSetups == <<TwoPlans, Resumed, ResumedFailing, Crashing, GivenIds, Changing>>
UnservedSetups == <<Unserved>>

==============================================================================
