------------------------------ MODULE BuildPool -----------------------------
(***************************************************************************)
(* The bounded in-process executor of core/pool.go, one step per atomic    *)
(* memory or channel operation: trySubmit with its double check of the     *)
(* closed flag, submitWait with the one-token wakeup channel, the workers, *)
(* and shutdown with its pending-based drain.  Tasks are interchangeable,  *)
(* so the queue is its length.  A running task may itself call trySubmit   *)
(* (a cascade), so workers submit as well as clients.                      *)
(***************************************************************************)
EXTENDS Integers, FiniteSets

CONSTANTS
    Clients,     \* goroutines that call trySubmit or submitWait
    Workers,     \* the pool's worker goroutines
    Closers,     \* goroutines that call shutdown
    QueueCap,    \* cap(queue)
    HighWater    \* the queued-task count at which the pool is pressured

ASSUME PoolAssumption ==
    /\ IsFiniteSet(Clients) /\ IsFiniteSet(Workers) /\ IsFiniteSet(Closers)
    /\ Clients \cap Workers = {} /\ Clients \cap Closers = {}
    /\ Workers \cap Closers = {}
    /\ QueueCap \in Nat /\ HighWater \in Nat
    /\ 1 <= HighWater /\ HighWater <= QueueCap
    /\ Workers # {}

VARIABLES
    queued,      \* len(queue)
    pending,     \* accepted-but-unfinished tasks, and submits being decided
    closed,      \* the closed flag
    doneClosed,  \* the done channel has been closed
    cancelled,   \* baseCtx has been cancelled
    token,       \* a wakeup token is in slotFreed
    pc,          \* what each goroutine does next
    waits,       \* the submit in progress came through submitWait
    busy,        \* workers between a dequeue and its pending.Add(-1)
    drained      \* some shutdown returned nil

vars == <<queued, pending, closed, doneClosed, cancelled, token, pc, waits,
          busy, drained>>

Submitters == Clients \cup Workers

ClientIdle == "idle"        \* outside the pool
WorkerIdle == "select"      \* worker's select on queue and baseCtx

\* Steps of trySubmit, in program order.
TryPC == {"load", "add", "recheck", "send", "undo"}

\* Steps of submitWait around trySubmit.
WaitPC == {"wclosed", "wpressed", "wafter", "wsignal", "wsleep"}

ClientPC == {ClientIdle} \cup TryPC \cup WaitPC

WorkerPC == {WorkerIdle, "wake", "run", "finish", "exited"} \cup TryPC

CloserPC == {"start", "closing", "polling", "pausing", "cancelling", "returned"}

TypeOK ==
    /\ queued \in 0 .. QueueCap
    /\ pending \in Int
    /\ closed \in BOOLEAN /\ doneClosed \in BOOLEAN /\ cancelled \in BOOLEAN
    /\ token \in BOOLEAN /\ drained \in BOOLEAN
    /\ pc \in [Clients \cup Workers \cup Closers -> ClientPC \cup WorkerPC \cup CloserPC]
    /\ \A c \in Clients : pc[c] \in ClientPC
    /\ \A w \in Workers : pc[w] \in WorkerPC
    /\ \A s \in Closers : pc[s] \in CloserPC
    /\ waits \in [Clients -> BOOLEAN]
    /\ busy \subseteq Workers

Init ==
    /\ queued = 0
    /\ pending = 0
    /\ closed = FALSE /\ doneClosed = FALSE /\ cancelled = FALSE
    /\ token = FALSE
    /\ pc = [p \in Clients \cup Workers \cup Closers |->
               IF p \in Clients THEN ClientIdle
               ELSE IF p \in Workers THEN WorkerIdle ELSE "start"]
    /\ waits = [c \in Clients |-> FALSE]
    /\ busy = {}
    /\ drained = FALSE

-----------------------------------------------------------------------------
(* Helpers *)

Pressured == queued >= HighWater

Goto(p, l) == pc' = [pc EXCEPT ![p] = l]

Waiting(p) == p \in Clients /\ waits[p]

\* Where a submitter goes when trySubmit returned false: a worker's task goes
\* on running, submitWait goes to its select, and a plain submit returns.
AfterReject(p) ==
    IF p \in Workers THEN "run" ELSE IF Waiting(p) THEN "wsleep" ELSE ClientIdle

\* Likewise when trySubmit returned true.
AfterAccept(p) ==
    IF p \in Workers THEN "run" ELSE IF Waiting(p) THEN "wafter" ELSE ClientIdle

-----------------------------------------------------------------------------
(* trySubmit *)

TryBegin(c) ==
    /\ pc[c] = ClientIdle
    /\ waits' = [waits EXCEPT ![c] = FALSE]
    /\ Goto(c, "load")
    /\ UNCHANGED <<queued, pending, closed, doneClosed, cancelled, token, busy, drained>>

Cascade(w) ==
    /\ pc[w] = "run"
    /\ Goto(w, "load")
    /\ UNCHANGED <<queued, pending, closed, doneClosed, cancelled, token, waits, busy, drained>>

LoadClosed(p) ==
    /\ pc[p] = "load"
    /\ Goto(p, IF closed THEN AfterReject(p) ELSE "add")
    /\ UNCHANGED <<queued, pending, closed, doneClosed, cancelled, token, waits, busy, drained>>

AddPending(p) ==
    /\ pc[p] = "add"
    /\ pending' = pending + 1
    /\ Goto(p, "recheck")
    /\ UNCHANGED <<queued, closed, doneClosed, cancelled, token, waits, busy, drained>>

\* Faulty variant: the closed flag is not read again after pending.Add(1).
NoRecheck(p) ==
    /\ pc[p] = "recheck"
    /\ Goto(p, "send")
    /\ UNCHANGED <<queued, pending, closed, doneClosed, cancelled, token, waits, busy, drained>>

RecheckClosed(p) ==
    /\ pc[p] = "recheck"
    /\ Goto(p, IF closed THEN "undo" ELSE "send")
    /\ UNCHANGED <<queued, pending, closed, doneClosed, cancelled, token, waits, busy, drained>>

\* Faulty variant: a full queue sheds the task without the undo.
SendKeepsPending(p) ==
    /\ pc[p] = "send"
    /\ IF queued < QueueCap
       THEN queued' = queued + 1 /\ Goto(p, AfterAccept(p))
       ELSE queued' = queued /\ Goto(p, AfterReject(p))
    /\ UNCHANGED <<pending, closed, doneClosed, cancelled, token, waits, busy, drained>>

\* Faulty variant: the send does not respect the channel's capacity.
SendOverCap(p) ==
    /\ pc[p] = "send"
    /\ queued <= QueueCap
    /\ queued' = queued + 1
    /\ Goto(p, AfterAccept(p))
    /\ UNCHANGED <<pending, closed, doneClosed, cancelled, token, waits, busy, drained>>

Send(p) ==
    /\ pc[p] = "send"
    /\ IF queued < QueueCap
       THEN queued' = queued + 1 /\ Goto(p, AfterAccept(p))
       ELSE queued' = queued /\ Goto(p, "undo")
    /\ UNCHANGED <<pending, closed, doneClosed, cancelled, token, waits, busy, drained>>

UndoPending(p) ==
    /\ pc[p] = "undo"
    /\ pending' = pending - 1
    /\ Goto(p, AfterReject(p))
    /\ UNCHANGED <<queued, closed, doneClosed, cancelled, token, waits, busy, drained>>

-----------------------------------------------------------------------------
(* submitWait *)

WaitBegin(c) ==
    /\ pc[c] = ClientIdle
    /\ waits' = [waits EXCEPT ![c] = TRUE]
    /\ Goto(c, "wclosed")
    /\ UNCHANGED <<queued, pending, closed, doneClosed, cancelled, token, busy, drained>>

WaitClosed(c) ==
    /\ pc[c] = "wclosed"
    /\ Goto(c, IF closed THEN ClientIdle ELSE "wpressed")
    /\ UNCHANGED <<queued, pending, closed, doneClosed, cancelled, token, waits, busy, drained>>

WaitPressed(c) ==
    /\ pc[c] = "wpressed"
    /\ Goto(c, IF Pressured THEN "wsleep" ELSE "load")
    /\ UNCHANGED <<queued, pending, closed, doneClosed, cancelled, token, waits, busy, drained>>

\* Faulty variant: the accepted waiter keeps the wakeup to itself.
WaitAcceptedSilently(c) ==
    /\ pc[c] = "wafter"
    /\ Goto(c, ClientIdle)
    /\ UNCHANGED <<queued, pending, closed, doneClosed, cancelled, token, waits, busy, drained>>

\* The accepted waiter leaves a token behind when there is room for another.
WaitAccepted(c) ==
    /\ pc[c] = "wafter"
    /\ Goto(c, IF Pressured THEN ClientIdle ELSE "wsignal")
    /\ UNCHANGED <<queued, pending, closed, doneClosed, cancelled, token, waits, busy, drained>>

PassWakeup(c) ==
    /\ pc[c] = "wsignal"
    /\ token' = TRUE
    /\ Goto(c, ClientIdle)
    /\ UNCHANGED <<queued, pending, closed, doneClosed, cancelled, waits, busy, drained>>

WakeByToken(c) ==
    /\ pc[c] = "wsleep"
    /\ token
    /\ token' = FALSE
    /\ Goto(c, "wclosed")
    /\ UNCHANGED <<queued, pending, closed, doneClosed, cancelled, waits, busy, drained>>

WakeByDone(c) ==
    /\ pc[c] = "wsleep"
    /\ doneClosed
    /\ Goto(c, ClientIdle)
    /\ UNCHANGED <<queued, pending, closed, doneClosed, cancelled, token, waits, busy, drained>>

\* The caller's context ends while it waits.
WakeByContext(c) ==
    /\ pc[c] = "wsleep"
    /\ Goto(c, ClientIdle)
    /\ UNCHANGED <<queued, pending, closed, doneClosed, cancelled, token, waits, busy, drained>>

-----------------------------------------------------------------------------
(* worker *)

\* Faulty variant: the worker counts the task finished when it dequeues it.
DequeueFinishes(w) ==
    /\ pc[w] = WorkerIdle
    /\ queued > 0
    /\ queued' = queued - 1
    /\ pending' = pending - 1
    /\ busy' = busy \cup {w}
    /\ Goto(w, "wake")
    /\ UNCHANGED <<closed, doneClosed, cancelled, token, waits, drained>>

Dequeue(w) ==
    /\ pc[w] = WorkerIdle
    /\ queued > 0
    /\ queued' = queued - 1
    /\ busy' = busy \cup {w}
    /\ Goto(w, "wake")
    /\ UNCHANGED <<pending, closed, doneClosed, cancelled, token, waits, drained>>

SignalSlotFreed(w) ==
    /\ pc[w] = "wake"
    /\ token' = TRUE
    /\ Goto(w, "run")
    /\ UNCHANGED <<queued, pending, closed, doneClosed, cancelled, waits, busy, drained>>

TaskReturns(w) ==
    /\ pc[w] = "run"
    /\ Goto(w, "finish")
    /\ UNCHANGED <<queued, pending, closed, doneClosed, cancelled, token, waits, busy, drained>>

FinishTask(w) ==
    /\ pc[w] = "finish"
    /\ pending' = pending - 1
    /\ busy' = busy \ {w}
    /\ Goto(w, WorkerIdle)
    /\ UNCHANGED <<queued, closed, doneClosed, cancelled, token, waits, drained>>

\* With both channels ready the select may pick either, so a cancelled worker
\* may still dequeue.
WorkerExit(w) ==
    /\ pc[w] = WorkerIdle
    /\ cancelled
    /\ Goto(w, "exited")
    /\ UNCHANGED <<queued, pending, closed, doneClosed, cancelled, token, waits, busy, drained>>

-----------------------------------------------------------------------------
(* shutdown *)

SetClosed(s) ==
    /\ pc[s] = "start"
    /\ closed' = TRUE
    /\ Goto(s, IF closed THEN "polling" ELSE "closing")
    /\ UNCHANGED <<queued, pending, doneClosed, cancelled, token, waits, busy, drained>>

\* Faulty variant: shutdown does not close the done channel.
CloseNothing(s) ==
    /\ pc[s] = "closing"
    /\ Goto(s, "polling")
    /\ UNCHANGED <<queued, pending, closed, doneClosed, cancelled, token, waits, busy, drained>>

CloseDone(s) ==
    /\ pc[s] = "closing"
    /\ doneClosed' = TRUE
    /\ Goto(s, "polling")
    /\ UNCHANGED <<queued, pending, closed, cancelled, token, waits, busy, drained>>

\* waitIdle read a zero: shutdown will return nil.
SeeIdle(s) ==
    /\ pc[s] = "polling"
    /\ pending = 0
    /\ drained' = TRUE
    /\ Goto(s, "cancelling")
    /\ UNCHANGED <<queued, pending, closed, doneClosed, cancelled, token, waits, busy>>

\* waitIdle read work left and pauses; its next read may find none.
SeeBusy(s) ==
    /\ pc[s] = "polling"
    /\ pending # 0
    /\ Goto(s, "pausing")
    /\ UNCHANGED <<queued, pending, closed, doneClosed, cancelled, token, waits, busy, drained>>

PollAgain(s) ==
    /\ pc[s] = "pausing"
    /\ Goto(s, "polling")
    /\ UNCHANGED <<queued, pending, closed, doneClosed, cancelled, token, waits, busy, drained>>

\* The shutdown deadline ended the pause: shutdown returns ctx.Err().
DrainTimeout(s) ==
    /\ pc[s] = "pausing"
    /\ Goto(s, "cancelling")
    /\ UNCHANGED <<queued, pending, closed, doneClosed, cancelled, token, waits, busy, drained>>

Cancel(s) ==
    /\ pc[s] = "cancelling"
    /\ cancelled' = TRUE
    /\ Goto(s, "returned")
    /\ UNCHANGED <<queued, pending, closed, doneClosed, token, waits, busy, drained>>

-----------------------------------------------------------------------------
SubmitStep(p) ==
    LoadClosed(p) \/ AddPending(p) \/ RecheckClosed(p) \/ Send(p) \/ UndoPending(p)

WaitStep(c) ==
    WaitClosed(c) \/ WaitPressed(c) \/ WaitAccepted(c) \/ PassWakeup(c)
      \/ WakeByToken(c) \/ WakeByDone(c)

ClientStep(c) == TryBegin(c) \/ WaitBegin(c) \/ WakeByContext(c) \/ WaitStep(c)

WorkerStep(w) == Dequeue(w) \/ SignalSlotFreed(w) \/ FinishTask(w) \/ WorkerExit(w)

CloserStep(s) ==
    SetClosed(s) \/ CloseDone(s) \/ SeeIdle(s) \/ SeeBusy(s) \/ PollAgain(s) \/ Cancel(s)

Next ==
    \/ \E p \in Submitters : SubmitStep(p)
    \/ \E c \in Clients : ClientStep(c)
    \/ \E w \in Workers : WorkerStep(w) \/ Cascade(w) \/ TaskReturns(w)
    \/ \E s \in Closers : CloserStep(s) \/ DrainTimeout(s)

Spec == Init /\ [][Next]_vars

\* Goroutines that can run do run, and every task returns: builds carry
\* deadlines.  Clients may stop calling, contexts need not end.
Fairness ==
    /\ \A p \in Submitters : WF_vars(SubmitStep(p))
    /\ \A c \in Clients : WF_vars(WaitStep(c))
    /\ \A w \in Workers : WF_vars(WorkerStep(w)) /\ SF_vars(TaskReturns(w))
    /\ \A s \in Closers : WF_vars(CloserStep(s))

FairSpec == Spec /\ Fairness

-----------------------------------------------------------------------------
(* Properties *)

\* Submitters that have counted themselves in pending and not yet decided.
Deciding == {p \in Submitters : pc[p] \in {"recheck", "send", "undo"}}

\* pending counts exactly the queued tasks, the dequeued ones that have not
\* finished, and the submits between their pending.Add(1) and the send or the
\* undo (pool.go's "queued + running", plus the window trySubmit opens).
PendingCounts == pending = queued + Cardinality(busy) + Cardinality(Deciding)

\* Once a shutdown has returned nil no accepted task is queued or running, and
\* no submit that raced it can still be accepted: the drain covers submits
\* that were between the two reads of the closed flag.
DrainedMeansIdle ==
    drained =>
        /\ closed
        /\ queued = 0
        /\ busy = {}
        /\ \A p \in Submitters : pc[p] # "send"

\* A wait that has been woken, or has just begun, and has yet to look at the
\* queue and then submit or pass the wakeup on.
InFlight == {c \in Clients :
                waits[c] /\ pc[c] \in {"wclosed", "wpressed", "load", "add", "recheck",
                                       "send", "wafter", "wsignal"}}

\* No submitWait sleeps through a free slot: while one sleeps below the
\* high-water mark of an open pool, a token is in slotFreed, or a worker is
\* about to drop one, or another waiter is on its way to submit or to pass the
\* wakeup on.  The one-slot channel coalesces dequeues, so this rests on the
\* hand-over after an accepted submit.
NoLostWakeup ==
    (\E c \in Clients : pc[c] = "wsleep") /\ ~Pressured /\ ~closed =>
        \/ token
        \/ \E w \in Workers : pc[w] = "wake"
        \/ InFlight # {}

\* The pool implements its contract: tasks are outstanding from the send until
\* they have run, and none is accepted after a reported drain.
Contract == INSTANCE PoolContract
                WITH MaxOutstanding <- QueueCap + Cardinality(Workers),
                     outstanding <- queued + Cardinality(busy)
ImplementsContract == Contract!Spec

\* Shutdown lets go of every sleeping waiter, for good, and one that nobody cut
\* short finishes: workers keep draining, cascades of running tasks are refused,
\* so pending comes to stay at zero.
ShutdownEnds ==
    /\ closed ~> [](\A c \in Clients : pc[c] # "wsleep")
    /\ \A s \in Closers : pc[s] = "closing" ~> pc[s] = "returned"

=============================================================================
