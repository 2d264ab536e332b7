------------------------------ MODULE RowStore ------------------------------
(***************************************************************************)
(* The statements of storage/postgres/pg.go that write one row of the      *)
(* resources table, as functions of the row.  A missing row is BlankRow,   *)
(* whose columns hold the schema's defaults, so an INSERT ... ON CONFLICT  *)
(* DO UPDATE is one function for both of its branches.                     *)
(*                                                                         *)
(* Times are abstracted to what the statements ask of them: live says the  *)
(* owner's lease (owner_since) has not expired, waiting says sweep_after   *)
(* is in the future.  owner 0 stands for NULL; drawn numbers start at 1.   *)
(***************************************************************************)
EXTENDS Integers

Row == [present   : BOOLEAN,
        version   : Nat,       \* upstream version, 0 when unknown
        buildIdx  : Nat,       \* Build Sequence of the last build or delete
        staleSeq  : Nat,       \* number of the last mark
        changeSeq : Nat,       \* number of the last accepted registration
        stale     : BOOLEAN,   \* stale_since IS NOT NULL
        deleted   : BOOLEAN,   \* tombstone
        owner     : Nat,       \* owner token, 0 when unowned
        live      : BOOLEAN,   \* the lease has not expired
        waiting   : BOOLEAN]   \* backed off: sweep_after > now()

BlankRow == [present |-> FALSE, version |-> 0, buildIdx |-> 0, staleSeq |-> 0,
             changeSeq |-> 0, stale |-> FALSE, deleted |-> FALSE, owner |-> 0,
             live |-> FALSE, waiting |-> FALSE]

-----------------------------------------------------------------------------
(* Marks and claims *)

Claimable(row) == row.owner = 0 \/ ~row.live

ClaimAt(row, s) ==
    IF Claimable(row) THEN [row EXCEPT !.owner = s, !.live = TRUE] ELSE row

Accepts(row, item) ==
    item.deleted \/ item.version = 0 \/ row.version < item.version

\* An accepted item of RegisterChanges, whose drawn number is s.
RegisterItem(row, item, s) ==
    [ClaimAt(row, s) EXCEPT
        !.present = TRUE,
        !.version = IF item.deleted THEN 0
                    ELSE IF item.version = 0 THEN row.version ELSE item.version,
        !.deleted = item.deleted,
        !.changeSeq = s,
        !.staleSeq = s,
        !.stale = TRUE,
        !.waiting = FALSE]

\* A Parent of an accepted item, and each row of MarkStale with a lease.
MarkRow(row, s) ==
    [ClaimAt(row, s) EXCEPT !.present = TRUE, !.staleSeq = s, !.stale = TRUE]

\* The token a mark returns: its number when it claimed the row, else 0.
ClaimToken(row) == IF row.owner = row.staleSeq THEN row.staleSeq ELSE 0

\* ListStale's WHERE, for a row older than the sweep's threshold.
Sweepable(row) == row.present /\ row.stale /\ ~row.waiting /\ Claimable(row)

\* ListStale claims at the current number without drawing one.
SweepClaim(row) == [row EXCEPT !.owner = row.staleSeq, !.live = TRUE]

-----------------------------------------------------------------------------
(* Owners *)

Holds(row, token) == row.present /\ token # 0 /\ row.owner = token

Renew(row, token) == IF Holds(row, token) THEN [row EXCEPT !.live = TRUE] ELSE row

\* Faulty variant: a sentinel in place of NULL.
DisownedBySentinel(row) == [row EXCEPT !.owner = -1, !.live = FALSE]

Disowned(row) == [row EXCEPT !.owner = 0, !.live = FALSE]

Release(row, token) == IF Holds(row, token) THEN Disowned(row) ELSE row

\* A failed owner is backed off unless the resource's own registration was
\* accepted since the claim.
BacksOff(row, token) == row.changeSeq <= token \/ row.changeSeq > row.staleSeq

\* Faulty variant: the failure takes the mark with the ownership.
ReleaseFailedClearing(row, token) ==
    IF Holds(row, token) THEN [Disowned(row) EXCEPT !.stale = FALSE] ELSE row

ReleaseFailed(row, token) ==
    IF Holds(row, token)
    THEN [Disowned(row) EXCEPT !.waiting = BacksOff(row, token) \/ row.waiting]
    ELSE row

-----------------------------------------------------------------------------
(* Builds and deletes *)

BeginBuildRow(row, idx, token) ==
    [Renew(row, token) EXCEPT !.present = TRUE, !.buildIdx = idx]

BeginDeleteRow(row, idx, token) == [Renew(row, token) EXCEPT !.buildIdx = idx]

\* The mark the build captured is cleared with its ownership whatever the
\* token; a moved one is re-claimed by its owner.
Cleared(row) == [Disowned(row) EXCEPT !.stale = FALSE, !.waiting = FALSE]

Reclaimed(row) == [row EXCEPT !.owner = row.staleSeq, !.live = TRUE, !.waiting = FALSE]

FinishOwned(row, mark, token) ==
    IF ~row.present THEN row
    ELSE IF row.staleSeq = mark THEN Cleared(row)
    ELSE IF Holds(row, token) THEN Reclaimed(row)
    ELSE row

\* The first statement removes the row, the second re-claims a moved mark and
\* resets the backoff whatever the token.
DeleteRowIfSeq(row, mark, token) ==
    IF ~row.present \/ row.staleSeq = mark THEN BlankRow
    ELSE IF Holds(row, token) THEN Reclaimed(row)
    ELSE [row EXCEPT !.waiting = FALSE]

\* The follow-up token either finish returns.
FollowUp(row, mark, token) ==
    IF Holds(row, token) /\ row.staleSeq # mark THEN row.staleSeq ELSE 0

=============================================================================
