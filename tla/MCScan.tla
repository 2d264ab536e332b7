------------------------------- MODULE MCScan -------------------------------
(***************************************************************************)
(* Deployment histories of one type, with and without a scan beside them.  *)
(***************************************************************************)
EXTENDS Scan

\* The runbook's configs: version 1 alone, 2 added, 2 read, 1 dropped.
Old     == [versions |-> {1},    read |-> 1, shape |-> <<1, 1>>]
Added   == [versions |-> {1, 2}, read |-> 1, shape |-> <<1, 1>>]
Cut     == [versions |-> {1, 2}, read |-> 2, shape |-> <<1, 1>>]
Dropped == [versions |-> {2},    read |-> 2, shape |-> <<1, 1>>]

\* Version 1 edited in place.
Edited == [Old EXCEPT !.shape = <<2, 1>>]

\* The whole runbook, two instances; version 2 decides against resource 1.
Migration ==
    [instances |-> {1, 2}, plan |-> <<Old, Added, Cut, Dropped>>, alias |-> {1}, rows |-> {1, 2},
     unbuilt |-> {}, excluded |-> {<<2, 1, 1>>}, accept |-> TRUE,
     changes |-> 1, aged |-> 1, crashes |-> 1, tools |-> 2,
     scans |-> FALSE, asks |-> {1}, hidden |-> {}, unsorted |-> {}, pageSize |-> 1, maxAge |-> 1,
     modern |-> TRUE, ticks |-> 0, retries |-> 0, cuts |-> 0, expiries |-> 0]

\* The version is withdrawn, added again and then read.
Withdrawn ==
    [Migration EXCEPT !.plan = <<Old, Added, Old, Added, Cut>>, !.instances = {1}, !.excluded = {},
                      !.accept = FALSE, !.crashes = 0, !.aged = 0, !.tools = 1]

\* A cutover, its rollback, and the cutover again.
RolledBack == [Migration EXCEPT !.plan = <<Old, Added, Cut, Added, Cut>>, !.rows = {1}, !.aged = 0]

\* A hand-built alias, and no alias yet.
HandBuilt == [Migration EXCEPT !.plan = <<Old>>, !.alias = {0}, !.rows = {1}, !.scans = TRUE]
NoAlias == [HandBuilt EXCEPT !.alias = {}]
TwoTargets == [HandBuilt EXCEPT !.alias = {0, 1}, !.tools = 0]

\* A scan across a cutover, while documents come and go.
AcrossCutover ==
    [Migration EXCEPT !.plan = <<Added, Cut>>, !.rows = {1, 2, 3}, !.unbuilt = {3},
                      !.excluded = {<<1, 2, 2>>, <<2, 1, 1>>}, !.crashes = 0, !.aged = 0, !.tools = 0,
                      !.scans = TRUE]

\* A scan of the version that is dropped and cleaned up behind it.
AcrossCleanup ==
    [AcrossCutover EXCEPT !.plan = <<Added, Cut, Dropped>>, !.instances = {1}, !.rows = {1, 2},
                          !.unbuilt = {}, !.changes = 0, !.tools = 1]

\* A scan across an edit of the version's config, by a consumer that may
\* change its request, with everything that may fail between two pages.
AcrossEdit ==
    [Migration EXCEPT !.plan = <<Old, Edited>>, !.rows = {1, 2, 3}, !.excluded = {}, !.changes = 0,
                      !.tools = 0, !.aged = 0, !.scans = TRUE, !.asks = {1, 2},
                      !.hidden = {<<1, 1, 2>>, <<2, 1, 1>>, <<1, 2, 1>>}, !.unsorted = {3},
                      !.modern = FALSE, !.ticks = 3, !.retries = 1, !.cuts = 1, !.expiries = 1]

ReadSetups == <<Migration, Withdrawn, RolledBack, HandBuilt, NoAlias, TwoTargets, AcrossCutover, AcrossCleanup,
                AcrossEdit>>

=============================================================================
