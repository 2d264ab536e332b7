-------------------------- MODULE BuildPoolProofs ---------------------------
(***************************************************************************)
(* Proofs about BuildPool, for every number of clients, workers and        *)
(* closers and every queue capacity and high-water mark.                   *)
(***************************************************************************)
EXTENDS BuildPool, FiniteSetTheorems, TLAPS

-----------------------------------------------------------------------------
(* The inductive invariant *)

\* A goroutine inside submitWait knows it is there.
WaitersKnow == \A c \in Clients : pc[c] \in WaitPC => waits[c]

\* busy is the set of workers that hold a task.
BusyHoldTasks == \A w \in Workers : w \in busy <=> pc[w] \notin {WorkerIdle, "exited"}

\* A shutdown past its first step has closed the pool.
ClosersClosed == \A s \in Closers : pc[s] # "start" => closed

\* NoLostWakeup for the waiters that sleep and for those a full queue has just
\* refused, who are on their way to sleep.
Sleepy == {c \in Clients : waits[c] /\ pc[c] \in {"undo", "wsleep"}}

WakeupComes ==
    Sleepy # {} /\ ~Pressured /\ ~closed =>
        token \/ (\E w \in Workers : pc[w] = "wake") \/ InFlight # {}

IInv ==
    /\ TypeOK
    /\ WaitersKnow
    /\ BusyHoldTasks
    /\ ClosersClosed
    /\ PendingCounts
    /\ DrainedMeansIdle
    /\ WakeupComes

-----------------------------------------------------------------------------
(* Typing *)

\* Every step keeps the state well typed; in particular the queue never holds
\* more than its channel's capacity.
LEMMA TypeStep == TypeOK /\ [Next]_vars => TypeOK'
<1> SUFFICES ASSUME TypeOK, [Next]_vars PROVE TypeOK'
  OBVIOUS
<1> USE PoolAssumption DEF TypeOK, ClientPC, WorkerPC, CloserPC, TryPC, WaitPC, ClientIdle,
        WorkerIdle, Goto, Submitters
<1>1. ASSUME NEW p \in Submitters, SubmitStep(p) PROVE TypeOK'
  BY <1>1 DEF SubmitStep, LoadClosed, AddPending, RecheckClosed, Send, UndoPending,
     AfterReject, AfterAccept, Waiting
<1>2. ASSUME NEW c \in Clients, ClientStep(c) PROVE TypeOK'
  BY <1>2 DEF ClientStep, TryBegin, WaitBegin, WakeByContext, WaitStep, WaitClosed,
     WaitPressed, WaitAccepted, PassWakeup, WakeByToken, WakeByDone
<1>3. ASSUME NEW w \in Workers, WorkerStep(w) \/ Cascade(w) \/ TaskReturns(w) PROVE TypeOK'
  <2>1. CASE Dequeue(w)
    BY <2>1 DEF Dequeue
  <2>2. CASE SignalSlotFreed(w)
    BY <2>2 DEF SignalSlotFreed
  <2>3. CASE FinishTask(w)
    BY <2>3 DEF FinishTask
  <2>4. CASE WorkerExit(w) \/ Cascade(w) \/ TaskReturns(w)
    BY <2>4 DEF WorkerExit, Cascade, TaskReturns
  <2> QED
    BY <1>3, <2>1, <2>2, <2>3, <2>4 DEF WorkerStep
<1>4. ASSUME NEW s \in Closers, CloserStep(s) \/ DrainTimeout(s) PROVE TypeOK'
  BY <1>4 DEF CloserStep, SetClosed, CloseDone, SeeIdle, SeeBusy, PollAgain, Cancel,
     DrainTimeout
<1>5. CASE UNCHANGED vars
  BY <1>5 DEF vars
<1> QED
  BY <1>1, <1>2, <1>3, <1>4, <1>5 DEF Next

-----------------------------------------------------------------------------
(* Program counters *)

\* A submitWait keeps its waits flag from its first step to its return.
LEMMA WaitersStep == TypeOK /\ WaitersKnow /\ [Next]_vars => WaitersKnow'
<1> SUFFICES ASSUME TypeOK, WaitersKnow, [Next]_vars PROVE WaitersKnow'
  OBVIOUS
<1> USE PoolAssumption DEF TypeOK, WaitersKnow, ClientPC, WorkerPC, CloserPC, TryPC, WaitPC,
        ClientIdle, WorkerIdle, Goto, Submitters
<1>1. ASSUME NEW p \in Submitters, SubmitStep(p) PROVE WaitersKnow'
  BY <1>1 DEF SubmitStep, LoadClosed, AddPending, RecheckClosed, Send, UndoPending,
     AfterReject, AfterAccept, Waiting
<1>2. ASSUME NEW c \in Clients, ClientStep(c) PROVE WaitersKnow'
  BY <1>2 DEF ClientStep, TryBegin, WaitBegin, WakeByContext, WaitStep, WaitClosed,
     WaitPressed, WaitAccepted, PassWakeup, WakeByToken, WakeByDone
<1>3. ASSUME NEW w \in Workers, WorkerStep(w) \/ Cascade(w) \/ TaskReturns(w) PROVE WaitersKnow'
  BY <1>3 DEF WorkerStep, Dequeue, SignalSlotFreed, FinishTask, WorkerExit, Cascade,
     TaskReturns
<1>4. ASSUME NEW s \in Closers, CloserStep(s) \/ DrainTimeout(s) PROVE WaitersKnow'
  BY <1>4 DEF CloserStep, SetClosed, CloseDone, SeeIdle, SeeBusy, PollAgain, Cancel,
     DrainTimeout
<1>5. CASE UNCHANGED vars
  BY <1>5 DEF vars
<1> QED
  BY <1>1, <1>2, <1>3, <1>4, <1>5 DEF Next

\* A worker is busy from its dequeue until it has counted its task finished.
LEMMA BusyStep == TypeOK /\ BusyHoldTasks /\ [Next]_vars => BusyHoldTasks'
<1> SUFFICES ASSUME TypeOK, BusyHoldTasks, [Next]_vars PROVE BusyHoldTasks'
  OBVIOUS
<1> USE PoolAssumption DEF TypeOK, BusyHoldTasks, ClientPC, WorkerPC, CloserPC, TryPC, WaitPC,
        ClientIdle, WorkerIdle, Goto, Submitters
<1>1. ASSUME NEW p \in Submitters, SubmitStep(p) PROVE BusyHoldTasks'
  BY <1>1 DEF SubmitStep, LoadClosed, AddPending, RecheckClosed, Send, UndoPending,
     AfterReject, AfterAccept, Waiting
<1>2. ASSUME NEW c \in Clients, ClientStep(c) PROVE BusyHoldTasks'
  BY <1>2 DEF ClientStep, TryBegin, WaitBegin, WakeByContext, WaitStep, WaitClosed,
     WaitPressed, WaitAccepted, PassWakeup, WakeByToken, WakeByDone
<1>3. ASSUME NEW w \in Workers, WorkerStep(w) \/ Cascade(w) \/ TaskReturns(w) PROVE BusyHoldTasks'
  BY <1>3 DEF WorkerStep, Dequeue, SignalSlotFreed, FinishTask, WorkerExit, Cascade,
     TaskReturns
<1>4. ASSUME NEW s \in Closers, CloserStep(s) \/ DrainTimeout(s) PROVE BusyHoldTasks'
  BY <1>4 DEF CloserStep, SetClosed, CloseDone, SeeIdle, SeeBusy, PollAgain, Cancel,
     DrainTimeout
<1>5. CASE UNCHANGED vars
  BY <1>5 DEF vars
<1> QED
  BY <1>1, <1>2, <1>3, <1>4, <1>5 DEF Next

\* closed is set by a shutdown's first step and never reset.
LEMMA ClosersStep == TypeOK /\ ClosersClosed /\ [Next]_vars => ClosersClosed'
<1> SUFFICES ASSUME TypeOK, ClosersClosed, [Next]_vars PROVE ClosersClosed'
  OBVIOUS
<1> USE PoolAssumption DEF TypeOK, ClosersClosed, ClientPC, WorkerPC, CloserPC, TryPC, WaitPC,
        ClientIdle, WorkerIdle, Goto, Submitters
<1>1. ASSUME NEW p \in Submitters, SubmitStep(p) PROVE ClosersClosed'
  BY <1>1 DEF SubmitStep, LoadClosed, AddPending, RecheckClosed, Send, UndoPending,
     AfterReject, AfterAccept, Waiting
<1>2. ASSUME NEW c \in Clients, ClientStep(c) PROVE ClosersClosed'
  BY <1>2 DEF ClientStep, TryBegin, WaitBegin, WakeByContext, WaitStep, WaitClosed,
     WaitPressed, WaitAccepted, PassWakeup, WakeByToken, WakeByDone
<1>3. ASSUME NEW w \in Workers, WorkerStep(w) \/ Cascade(w) \/ TaskReturns(w) PROVE ClosersClosed'
  BY <1>3 DEF WorkerStep, Dequeue, SignalSlotFreed, FinishTask, WorkerExit, Cascade,
     TaskReturns
<1>4. ASSUME NEW s \in Closers, CloserStep(s) \/ DrainTimeout(s) PROVE ClosersClosed'
  BY <1>4 DEF CloserStep, SetClosed, CloseDone, SeeIdle, SeeBusy, PollAgain, Cancel,
     DrainTimeout
<1>5. CASE UNCHANGED vars
  BY <1>5 DEF vars
<1> QED
  BY <1>1, <1>2, <1>3, <1>4, <1>5 DEF Next

-----------------------------------------------------------------------------
(* Counting *)

\* The sets PendingCounts counts are finite.
LEMMA FiniteParts ==
    ASSUME TypeOK
    PROVE  /\ IsFiniteSet(busy) /\ Cardinality(busy) \in Nat
           /\ IsFiniteSet(Deciding) /\ Cardinality(Deciding) \in Nat
<1>1. IsFiniteSet(Submitters)
  BY PoolAssumption, FS_Union DEF Submitters
<1>2. IsFiniteSet(Deciding)
  BY <1>1, FS_Subset DEF Deciding
<1>3. IsFiniteSet(busy)
  BY PoolAssumption, FS_Subset DEF TypeOK
<1> QED
  BY <1>2, <1>3, FS_CardinalityType

\* The steps of trySubmit between which a submit is counted in pending.
DecidingPC == {"recheck", "send", "undo"}

\* A goroutine that moves within, or outside, that window leaves Deciding alone.
LEMMA DecidingSame ==
    ASSUME TypeOK, NEW p \in Clients \cup Workers \cup Closers, NEW l, Goto(p, l),
           p \in Submitters => (pc[p] \in DecidingPC <=> l \in DecidingPC)
    PROVE  Deciding' = Deciding
  BY DEF TypeOK, Goto, Deciding, DecidingPC, Submitters

\* One that enters the window, by pending.Add(1), joins Deciding.
LEMMA DecidingGrows ==
    ASSUME TypeOK, NEW p \in Submitters, NEW l, Goto(p, l),
           pc[p] \notin DecidingPC, l \in DecidingPC
    PROVE  Cardinality(Deciding') = Cardinality(Deciding) + 1
<1>1. Deciding' = Deciding \cup {p} /\ p \notin Deciding
  BY DEF TypeOK, Goto, Deciding, DecidingPC, Submitters
<1> QED
  BY <1>1, FiniteParts, FS_AddElement

\* One that leaves it, by the send or the undo, leaves Deciding.
LEMMA DecidingShrinks ==
    ASSUME TypeOK, NEW p \in Submitters, NEW l, Goto(p, l),
           pc[p] \in DecidingPC, l \notin DecidingPC
    PROVE  Cardinality(Deciding') = Cardinality(Deciding) - 1
<1>1. Deciding' = Deciding \ {p} /\ p \in Deciding
  BY DEF TypeOK, Goto, Deciding, DecidingPC, Submitters
<1> QED
  BY <1>1, FiniteParts, FS_RemoveElement

\* pending counts the queued, the running and the undecided: every
\* pending.Add(1) and Add(-1) of pool.go has its counterpart.
LEMMA PendingStep ==
    TypeOK /\ BusyHoldTasks /\ PendingCounts /\ [Next]_vars => PendingCounts'
<1> SUFFICES ASSUME TypeOK, BusyHoldTasks, PendingCounts, [Next]_vars PROVE PendingCounts'
  OBVIOUS
<1>f. /\ IsFiniteSet(busy) /\ Cardinality(busy) \in Nat /\ Cardinality(Deciding) \in Nat
      /\ queued \in Int /\ pending \in Int
  BY FiniteParts, PoolAssumption DEF TypeOK
<1>1. ASSUME NEW p \in Submitters, SubmitStep(p) PROVE PendingCounts'
  <2> p \in Clients \cup Workers \cup Closers
    BY DEF Submitters
  <2> AfterReject(p) \notin DecidingPC /\ AfterAccept(p) \notin DecidingPC
    BY DEF AfterReject, AfterAccept, DecidingPC, ClientIdle
  <2>1. CASE LoadClosed(p)
    BY <2>1, DecidingSame DEF LoadClosed, DecidingPC, PendingCounts
  <2>2. CASE AddPending(p)
    <3>1. Cardinality(Deciding') = Cardinality(Deciding) + 1
      BY <2>2, DecidingGrows DEF AddPending, DecidingPC
    <3> QED
      BY <2>2, <3>1, <1>f DEF AddPending, PendingCounts
  <2>3. CASE RecheckClosed(p)
    BY <2>3, DecidingSame DEF RecheckClosed, DecidingPC, PendingCounts
  <2>4. CASE Send(p)
    <3>1. CASE queued < QueueCap
      <4>1. Cardinality(Deciding') = Cardinality(Deciding) - 1
        BY <2>4, <3>1, DecidingShrinks DEF Send, DecidingPC
      <4> QED
        BY <2>4, <3>1, <4>1, <1>f DEF Send, PendingCounts
    <3>2. CASE ~(queued < QueueCap)
      BY <2>4, <3>2, DecidingSame DEF Send, DecidingPC, PendingCounts
    <3> QED
      BY <3>1, <3>2
  <2>5. CASE UndoPending(p)
    <3>1. Cardinality(Deciding') = Cardinality(Deciding) - 1
      BY <2>5, DecidingShrinks DEF UndoPending, DecidingPC
    <3> QED
      BY <2>5, <3>1, <1>f DEF UndoPending, PendingCounts
  <2> QED
    BY <1>1, <2>1, <2>2, <2>3, <2>4, <2>5 DEF SubmitStep
<1>2. ASSUME NEW c \in Clients, ClientStep(c) PROVE PendingCounts'
  <2>1. PICK l : Goto(c, l) /\ pc[c] \notin DecidingPC /\ l \notin DecidingPC
    BY <1>2 DEF ClientStep, TryBegin, WaitBegin, WakeByContext, WaitStep, WaitClosed,
       WaitPressed, WaitAccepted, PassWakeup, WakeByToken, WakeByDone, DecidingPC, ClientIdle
  <2>2. UNCHANGED <<pending, queued, busy>>
    BY <1>2 DEF ClientStep, TryBegin, WaitBegin, WakeByContext, WaitStep, WaitClosed,
       WaitPressed, WaitAccepted, PassWakeup, WakeByToken, WakeByDone
  <2> QED
    BY <2>1, <2>2, DecidingSame DEF PendingCounts
<1>3. ASSUME NEW w \in Workers, WorkerStep(w) \/ Cascade(w) \/ TaskReturns(w) PROVE PendingCounts'
  <2>1. PICK l : Goto(w, l) /\ pc[w] \notin DecidingPC /\ l \notin DecidingPC
    BY <1>3 DEF WorkerStep, Dequeue, SignalSlotFreed, FinishTask, WorkerExit, Cascade,
       TaskReturns, DecidingPC, WorkerIdle
  <2>2. Deciding' = Deciding
    BY <2>1, DecidingSame
  <2>3. CASE Dequeue(w)
    <3>1. w \notin busy
      BY <2>3 DEF Dequeue, BusyHoldTasks
    <3>2. Cardinality(busy') = Cardinality(busy) + 1
      BY <2>3, <3>1, <1>f, FS_AddElement DEF Dequeue
    <3> QED
      BY <2>2, <2>3, <3>2, <1>f DEF Dequeue, PendingCounts
  <2>4. CASE FinishTask(w)
    <3>1. w \in busy
      BY <2>4 DEF FinishTask, BusyHoldTasks, WorkerIdle
    <3>2. Cardinality(busy') = Cardinality(busy) - 1
      BY <2>4, <3>1, <1>f, FS_RemoveElement DEF FinishTask
    <3> QED
      BY <2>2, <2>4, <3>2, <1>f DEF FinishTask, PendingCounts
  <2>5. CASE SignalSlotFreed(w) \/ WorkerExit(w) \/ Cascade(w) \/ TaskReturns(w)
    BY <2>2, <2>5 DEF SignalSlotFreed, WorkerExit, Cascade, TaskReturns, PendingCounts
  <2> QED
    BY <1>3, <2>3, <2>4, <2>5 DEF WorkerStep
<1>4. ASSUME NEW s \in Closers, CloserStep(s) \/ DrainTimeout(s) PROVE PendingCounts'
  <2>1. PICK l : Goto(s, l) /\ UNCHANGED <<pending, queued, busy>>
    BY <1>4 DEF CloserStep, SetClosed, CloseDone, SeeIdle, SeeBusy, PollAgain, Cancel,
       DrainTimeout
  <2>2. s \notin Submitters
    BY PoolAssumption DEF Submitters
  <2> QED
    BY <2>1, <2>2, DecidingSame DEF PendingCounts
<1>5. CASE UNCHANGED vars
  BY <1>5 DEF vars, PendingCounts, Deciding
<1> QED
  BY <1>1, <1>2, <1>3, <1>4, <1>5 DEF Next

-----------------------------------------------------------------------------
(* The drain *)

\* A zero pending means nothing is queued, running or undecided.
LEMMA ZeroMeansIdle ==
    ASSUME TypeOK, PendingCounts, pending = 0
    PROVE  queued = 0 /\ busy = {} /\ Deciding = {}
<1>1. Cardinality(busy) = 0 /\ Cardinality(Deciding) = 0 /\ queued = 0
  BY FiniteParts, PoolAssumption DEF TypeOK, PendingCounts
<1> QED
  BY <1>1, FiniteParts, FS_EmptySet

\* Only a zero read by a shutdown makes the drain, and after it nothing enters
\* the queue: a submit that had not been counted yet reads closed again.
LEMMA DrainStep ==
    TypeOK /\ ClosersClosed /\ PendingCounts /\ DrainedMeansIdle /\ [Next]_vars
        => DrainedMeansIdle'
<1> SUFFICES ASSUME TypeOK, ClosersClosed, PendingCounts, DrainedMeansIdle, [Next]_vars
             PROVE DrainedMeansIdle'
  OBVIOUS
<1> USE PoolAssumption DEF TypeOK, Goto, Submitters
<1>1. ASSUME NEW p \in Submitters, SubmitStep(p) PROVE DrainedMeansIdle'
  BY <1>1 DEF SubmitStep, LoadClosed, AddPending, RecheckClosed, Send, UndoPending,
     AfterReject, AfterAccept, Waiting, DrainedMeansIdle, ClientIdle
<1>2. ASSUME NEW c \in Clients, ClientStep(c) PROVE DrainedMeansIdle'
  BY <1>2 DEF ClientStep, TryBegin, WaitBegin, WakeByContext, WaitStep, WaitClosed,
     WaitPressed, WaitAccepted, PassWakeup, WakeByToken, WakeByDone, DrainedMeansIdle, ClientIdle
<1>3. ASSUME NEW w \in Workers, WorkerStep(w) \/ Cascade(w) \/ TaskReturns(w)
      PROVE  DrainedMeansIdle'
  <2>1. CASE Dequeue(w)
    BY <2>1 DEF Dequeue, DrainedMeansIdle
  <2>2. CASE SignalSlotFreed(w) \/ WorkerExit(w) \/ Cascade(w) \/ TaskReturns(w)
    BY <2>2 DEF SignalSlotFreed, WorkerExit, Cascade, TaskReturns, DrainedMeansIdle
  <2>3. CASE FinishTask(w)
    BY <2>3 DEF FinishTask, DrainedMeansIdle, WorkerIdle
  <2> QED
    BY <1>3, <2>1, <2>2, <2>3 DEF WorkerStep
<1>4. ASSUME NEW s \in Closers, CloserStep(s) \/ DrainTimeout(s) PROVE DrainedMeansIdle'
  <2>1. CASE SeeIdle(s)
    <3>1. queued = 0 /\ busy = {} /\ Deciding = {}
      BY <2>1, ZeroMeansIdle DEF SeeIdle
    <3>2. \A p \in Submitters : pc'[p] # "send"
      BY <2>1, <3>1 DEF SeeIdle, Deciding
    <3>3. closed
      BY <2>1 DEF SeeIdle, ClosersClosed
    <3> QED
      BY <2>1, <3>1, <3>2, <3>3 DEF SeeIdle, DrainedMeansIdle
  <2>2. CASE SetClosed(s) \/ CloseDone(s) \/ SeeBusy(s) \/ PollAgain(s) \/ Cancel(s)
             \/ DrainTimeout(s)
    BY <2>2 DEF SetClosed, CloseDone, SeeBusy, PollAgain, Cancel, DrainTimeout, DrainedMeansIdle
  <2> QED
    BY <1>4, <2>1, <2>2 DEF CloserStep
<1>5. CASE UNCHANGED vars
  BY <1>5 DEF vars, DrainedMeansIdle
<1> QED
  BY <1>1, <1>2, <1>3, <1>4, <1>5 DEF Next

-----------------------------------------------------------------------------
(* Wakeups *)

\* Whoever takes the wakeup over - the worker about to signal, the woken
\* waiter, the accepted one - submits into a pressured queue or passes it on.
LEMMA WakeupStep ==
    TypeOK /\ WaitersKnow /\ WakeupComes /\ [Next]_vars => WakeupComes'
<1> SUFFICES ASSUME TypeOK, WaitersKnow, WakeupComes, [Next]_vars PROVE WakeupComes'
  OBVIOUS
<1> USE PoolAssumption DEF TypeOK, Goto, Submitters, WakeupComes, Sleepy, InFlight, Pressured
<1>1. ASSUME NEW p \in Submitters, SubmitStep(p) PROVE WakeupComes'
  <2>1. CASE LoadClosed(p)
    BY <1>1, <2>1 DEF LoadClosed, AfterReject, Waiting, ClientIdle
  <2>2. CASE AddPending(p)
    BY <1>1, <2>2 DEF AddPending
  <2>3. CASE RecheckClosed(p)
    BY <1>1, <2>3 DEF RecheckClosed
  <2>4. CASE Send(p)
    BY <1>1, <2>4 DEF Send, AfterAccept, Waiting, ClientIdle
  <2>5. CASE UndoPending(p)
    BY <1>1, <2>5 DEF UndoPending, AfterReject, Waiting, ClientIdle
  <2> QED
    BY <1>1, <2>1, <2>2, <2>3, <2>4, <2>5 DEF SubmitStep
<1>2. ASSUME NEW c \in Clients, ClientStep(c) PROVE WakeupComes'
  <2>1. CASE TryBegin(c) \/ WaitBegin(c)
    BY <1>2, <2>1 DEF TryBegin, WaitBegin, ClientIdle
  <2>2. CASE WaitClosed(c) \/ WaitPressed(c)
    BY <1>2, <2>2 DEF WaitClosed, WaitPressed, ClientIdle
  <2>3. CASE WaitAccepted(c)
    BY <1>2, <2>3 DEF WaitAccepted, ClientIdle
  <2>4. CASE PassWakeup(c)
    BY <1>2, <2>4 DEF PassWakeup
  <2>5. CASE WakeByToken(c)
    BY <1>2, <2>5 DEF WakeByToken, WaitersKnow, WaitPC
  <2>6. CASE WakeByDone(c) \/ WakeByContext(c)
    BY <1>2, <2>6 DEF WakeByDone, WakeByContext, ClientIdle
  <2> QED
    BY <1>2, <2>1, <2>2, <2>3, <2>4, <2>5, <2>6 DEF ClientStep, WaitStep
<1>3. ASSUME NEW w \in Workers, WorkerStep(w) \/ Cascade(w) \/ TaskReturns(w) PROVE WakeupComes'
  <2>1. CASE Dequeue(w)
    BY <1>3, <2>1 DEF Dequeue
  <2>2. CASE SignalSlotFreed(w)
    BY <1>3, <2>2 DEF SignalSlotFreed
  <2>3. CASE FinishTask(w) \/ WorkerExit(w) \/ Cascade(w) \/ TaskReturns(w)
    BY <1>3, <2>3 DEF FinishTask, WorkerExit, Cascade, TaskReturns, WorkerIdle
  <2> QED
    BY <1>3, <2>1, <2>2, <2>3 DEF WorkerStep
<1>4. ASSUME NEW s \in Closers, CloserStep(s) \/ DrainTimeout(s) PROVE WakeupComes'
  BY <1>4 DEF CloserStep, SetClosed, CloseDone, SeeIdle, SeeBusy, PollAgain, Cancel,
     DrainTimeout
<1>5. CASE UNCHANGED vars
  BY <1>5 DEF vars
<1> QED
  BY <1>1, <1>2, <1>3, <1>4, <1>5 DEF Next

-----------------------------------------------------------------------------
(* Safety *)

\* A fresh pool satisfies the invariant.
LEMMA InitInv == Init => IInv
<1> SUFFICES ASSUME Init PROVE IInv
  OBVIOUS
<1>1. TypeOK
  <2>1. \A p \in Clients \cup Workers \cup Closers :
          pc[p] = IF p \in Clients THEN ClientIdle
                  ELSE IF p \in Workers THEN WorkerIdle ELSE "start"
    BY DEF Init
  <2>2. /\ \A c \in Clients : pc[c] \in ClientPC
        /\ \A w \in Workers : pc[w] \in WorkerPC
        /\ \A s \in Closers : pc[s] \in CloserPC
    BY <2>1, PoolAssumption DEF ClientPC, WorkerPC, CloserPC
  <2>3. pc \in [Clients \cup Workers \cup Closers -> ClientPC \cup WorkerPC \cup CloserPC]
    BY <2>2 DEF Init
  <2>4. queued \in 0 .. QueueCap /\ pending \in Int /\ busy \subseteq Workers
    BY PoolAssumption DEF Init
  <2>5. waits \in [Clients -> BOOLEAN]
    BY DEF Init
  <2> QED
    BY <2>2, <2>3, <2>4, <2>5 DEF Init, TypeOK
<1>2. WaitersKnow /\ BusyHoldTasks /\ ClosersClosed /\ DrainedMeansIdle
  BY PoolAssumption DEF Init, WaitersKnow, BusyHoldTasks, ClosersClosed, DrainedMeansIdle,
     WaitPC, ClientIdle, WorkerIdle
<1>3. PendingCounts
  <2>1. Deciding = {}
    BY PoolAssumption DEF Init, Deciding, Submitters, ClientIdle, WorkerIdle
  <2> QED
    BY <2>1, FS_EmptySet DEF Init, PendingCounts
<1>4. WakeupComes
  BY DEF Init, WakeupComes, Sleepy, ClientIdle
<1> QED
  BY <1>1, <1>2, <1>3, <1>4 DEF IInv

\* Every step of the pool preserves the invariant.
LEMMA Inductive == IInv /\ [Next]_vars => IInv'
  BY TypeStep, WaitersStep, BusyStep, ClosersStep, PendingStep, DrainStep, WakeupStep DEF IInv

\* The invariant holds of every reachable state.
LEMMA Invariance == Spec => []IInv
  BY InitInv, Inductive, PTL DEF Spec

\* The pool's state stays well typed, whatever its size: the queue never holds
\* more tasks than its channel has room for.
THEOREM TypeCorrect == Spec => []TypeOK
<1>1. IInv => TypeOK
  BY DEF IInv
<1> QED
  BY <1>1, Invariance, PTL

\* pool.go's pending is exact: no interleaving of trySubmit, the workers and
\* shutdown counts a task twice, or forgets one.
THEOREM PendingExact == Spec => []PendingCounts
<1>1. IInv => PendingCounts
  BY DEF IInv
<1> QED
  BY <1>1, Invariance, PTL

\* A shutdown that returns nil leaves nothing queued or running, and no submit
\* that raced it is accepted afterwards.
THEOREM DrainSafe == Spec => []DrainedMeansIdle
<1>1. IInv => DrainedMeansIdle
  BY DEF IInv
<1> QED
  BY <1>1, Invariance, PTL

\* No submitWait sleeps through a free slot of an open pool.
THEOREM WakeupsNotLost == Spec => []NoLostWakeup
<1>1. IInv => NoLostWakeup
  BY DEF IInv, NoLostWakeup, WakeupComes, WaitersKnow, Sleepy, WaitPC
<1> QED
  BY <1>1, Invariance, PTL

-----------------------------------------------------------------------------
(* Refinement *)

\* A fresh pool is a fresh contract: nothing outstanding.
LEMMA ContractInit == Init => Contract!Init
  BY FS_EmptySet DEF Init, Contract!Init

\* A step that moves no task and reports no drain is a stutter of the contract.
LEMMA ContractStutters ==
    ASSUME UNCHANGED <<queued, busy, drained>>
    PROVE  UNCHANGED Contract!contractVars
  BY DEF Contract!contractVars

\* Every step of the pool is a step of the contract or a stutter.
LEMMA ContractStep == IInv /\ [Next]_vars => [Contract!Next]_(Contract!contractVars)
<1> SUFFICES ASSUME IInv, [Next]_vars PROVE [Contract!Next]_(Contract!contractVars)
  OBVIOUS
<1>f. /\ IsFiniteSet(busy) /\ Cardinality(busy) \in Nat /\ queued \in Nat
      /\ Cardinality(Workers) \in Nat /\ Cardinality(busy) <= Cardinality(Workers)
  BY FiniteParts, PoolAssumption, FS_Subset, FS_CardinalityType DEF IInv, TypeOK
<1>1. ASSUME NEW p \in Submitters, SubmitStep(p) PROVE [Contract!Next]_(Contract!contractVars)
  <2>1. CASE Send(p) /\ queued < QueueCap
    <3>1. ~drained
      BY <2>1 DEF IInv, DrainedMeansIdle, Send
    <3>2. queued' = queued + 1 /\ busy' = busy /\ drained' = drained
      BY <2>1 DEF Send
    <3>3. queued + Cardinality(busy) < QueueCap + Cardinality(Workers)
      BY <2>1, <1>f, PoolAssumption
    <3> QED
      BY <3>1, <3>2, <3>3, <1>f DEF Contract!Next, Contract!Accept
  <2>2. CASE Send(p) /\ ~(queued < QueueCap)
    BY <2>2, ContractStutters DEF Send
  <2>3. CASE LoadClosed(p) \/ AddPending(p) \/ RecheckClosed(p) \/ UndoPending(p)
    BY <2>3, ContractStutters DEF LoadClosed, AddPending, RecheckClosed, UndoPending
  <2> QED
    BY <1>1, <2>1, <2>2, <2>3 DEF SubmitStep
<1>2. ASSUME NEW c \in Clients, ClientStep(c) PROVE [Contract!Next]_(Contract!contractVars)
  BY <1>2, ContractStutters DEF ClientStep, TryBegin, WaitBegin, WakeByContext, WaitStep,
     WaitClosed, WaitPressed, WaitAccepted, PassWakeup, WakeByToken, WakeByDone
<1>3. ASSUME NEW w \in Workers, WorkerStep(w) \/ Cascade(w) \/ TaskReturns(w)
      PROVE  [Contract!Next]_(Contract!contractVars)
  <2>1. CASE Dequeue(w)
    <3>1. w \notin busy
      BY <2>1 DEF Dequeue, IInv, BusyHoldTasks
    <3>2. Cardinality(busy') = Cardinality(busy) + 1
      BY <2>1, <3>1, <1>f, FS_AddElement DEF Dequeue
    <3>3. queued' + Cardinality(busy') = queued + Cardinality(busy)
      BY <2>1, <3>2, <1>f DEF Dequeue
    <3> QED
      BY <2>1, <3>3 DEF Dequeue, Contract!contractVars
  <2>2. CASE FinishTask(w)
    <3>1. w \in busy
      BY <2>2 DEF FinishTask, IInv, BusyHoldTasks, WorkerIdle
    <3>2. Cardinality(busy') = Cardinality(busy) - 1
      BY <2>2, <3>1, <1>f, FS_RemoveElement DEF FinishTask
    <3>3. Cardinality(busy) > 0
      BY <3>1, <1>f, FS_EmptySet
    <3> QED
      BY <2>2, <3>2, <3>3, <1>f DEF FinishTask, Contract!Next, Contract!Finish
  <2>3. CASE SignalSlotFreed(w) \/ WorkerExit(w) \/ Cascade(w) \/ TaskReturns(w)
    BY <2>3, ContractStutters DEF SignalSlotFreed, WorkerExit, Cascade, TaskReturns
  <2> QED
    BY <1>3, <2>1, <2>2, <2>3 DEF WorkerStep
<1>4. ASSUME NEW s \in Closers, CloserStep(s) \/ DrainTimeout(s)
      PROVE  [Contract!Next]_(Contract!contractVars)
  <2>1. CASE SeeIdle(s)
    <3>1. queued = 0 /\ busy = {}
      BY <2>1, ZeroMeansIdle DEF SeeIdle, IInv
    <3> QED
      BY <2>1, <3>1, FS_EmptySet DEF SeeIdle, Contract!Next, Contract!Drain
  <2>2. CASE SetClosed(s) \/ CloseDone(s) \/ SeeBusy(s) \/ PollAgain(s) \/ Cancel(s)
             \/ DrainTimeout(s)
    BY <2>2, ContractStutters DEF SetClosed, CloseDone, SeeBusy, PollAgain, Cancel, DrainTimeout
  <2> QED
    BY <1>4, <2>1, <2>2 DEF CloserStep
<1>5. CASE UNCHANGED vars
  BY <1>5, ContractStutters DEF vars
<1> QED
  BY <1>1, <1>2, <1>3, <1>4, <1>5 DEF Next

\* The pool of core/pool.go implements PoolContract: a task counts as
\* outstanding from its send until it has run, at most QueueCap + |Workers|
\* are, and none is accepted after a shutdown has returned nil.
THEOREM PoolImplementsContract == Spec => ImplementsContract
  BY ContractInit, ContractStep, Invariance, PTL DEF Spec, Contract!Spec, ImplementsContract

=============================================================================
