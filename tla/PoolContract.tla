---------------------------- MODULE PoolContract ----------------------------
(***************************************************************************)
(* What core/pool.go promises to its callers, with none of its machinery:  *)
(* an accepted task is outstanding until it has run, at most Cap + Workers *)
(* tasks are outstanding, and once a drain has been reported nothing is    *)
(* outstanding and nothing is ever accepted again.                         *)
(***************************************************************************)
EXTENDS Integers

CONSTANT MaxOutstanding   \* queue capacity plus number of workers

VARIABLES
    outstanding,   \* accepted tasks that have not finished
    drained        \* a shutdown has returned nil

contractVars == <<outstanding, drained>>

Init ==
    /\ outstanding = 0
    /\ drained = FALSE

Accept ==
    /\ ~drained
    /\ outstanding < MaxOutstanding
    /\ outstanding' = outstanding + 1
    /\ UNCHANGED drained

Finish ==
    /\ outstanding > 0
    /\ outstanding' = outstanding - 1
    /\ UNCHANGED drained

Drain ==
    /\ outstanding = 0
    /\ drained' = TRUE
    /\ UNCHANGED outstanding

Next == Accept \/ Finish \/ Drain

Spec == Init /\ [][Next]_contractVars

=============================================================================
