---------------------------- MODULE MCSourceAudit ----------------------------
(* Small instances of SourceAudit for TLC. *)
EXTENDS SourceAudit

Vs(n) == 1 .. n

Plain == [ids |-> {1, 2}, versions |-> Vs(1), existences |-> {{}, Vs(1)}, mds |-> {None},
          rowless |-> FALSE, runs |-> 0, pass |-> {}, md |-> None, walks |-> <<>>,
          changes |-> 0, losses |-> 0, errors |-> 0, crashes |-> 0]

\* A schedule over pages of one, with a failure and an attempt that runs on.
Scheduled == [Plain EXCEPT !.runs = Forever, !.errors = 1, !.crashes = 1]

\* One run while a resource comes, goes or moves to other metadata.
Changing == [Plain EXCEPT !.mds = {1, 2}, !.runs = 1, !.changes = 1]

\* A version that excludes what another serves, and a failure.
Excluding == [Plain EXCEPT !.versions = Vs(2), !.existences = SUBSET Vs(2), !.runs = 1,
                           !.errors = 1]

\* The probe pass of version 2 while resources change.
Passing == [Plain EXCEPT !.versions = Vs(2), !.existences = {{}, {1}, Vs(2)}, !.mds = {1, 2},
                         !.pass = {2}, !.md = 1, !.changes = 1]

\* The same for one resource that changes twice, with a failure.
PassFailing == [Passing EXCEPT !.ids = {1}, !.changes = 2, !.errors = 1]

\* The process that runs the pass is lost, and the pass run again.
PassLost == [PassFailing EXCEPT !.changes = 1, !.crashes = 1]

\* The pass beside a forward walk that may have inserted the row.
PassWalking == [Plain EXCEPT !.ids = {1}, !.versions = Vs(2), !.existences = {{}, {1}, Vs(2)},
                             !.rowless = TRUE, !.pass = {2}, !.walks = <<None>>, !.changes = 1]

\* A forward walk per metadata beside a reverse sweep.
Both == [Plain EXCEPT !.mds = {1, 2}, !.rowless = TRUE, !.runs = 1, !.walks = <<1, 2>>]

\* One resource that changes, and may move to the other actor, beside both.
BothChanging == [Both EXCEPT !.ids = {1}, !.walks = <<1>>, !.changes = 1]

\* One actor, with a failure.
BothFailing == [BothChanging EXCEPT !.mds = {1}, !.rowless = FALSE, !.errors = 1]

\* A delete nobody notified while a process is lost.
BothLost == [BothFailing EXCEPT !.changes = 0, !.losses = 1, !.errors = 0, !.crashes = 1]

\* A walk lost while its resource goes and comes back, or comes and goes.
WalkLost == [BothFailing EXCEPT !.rowless = TRUE, !.runs = 0, !.changes = 2, !.errors = 0, !.crashes = 1]

\* Two actors, one of whose walks fails.
WalkFailing == [Both EXCEPT !.runs = 0, !.errors = 1]

\* A resource only the forward walk has heard of, whose delete is lost too.
Walked == [Plain EXCEPT !.ids = {1}, !.mds = {1}, !.rowless = TRUE, !.runs = Forever,
                        !.walks = <<1>>, !.losses = 1]

\* A notified change too: a walk may build a tombstone, and a build that found
\* nothing may end after the walk.
Rebuilt == [Walked EXCEPT !.runs = 1, !.changes = 1]

AuditSetups == <<Scheduled, Changing, Excluding, Passing, PassFailing, PassLost, PassWalking, Both,
                 BothChanging, BothFailing, BothLost, WalkLost, WalkFailing, Walked, Rebuilt>>

==============================================================================
