---------------------------- MODULE Pipeline ----------------------------
(***************************************************************************)
(* The aggregation pipeline and the two callers that consume it.           *)
(*                                                                         *)
(* A plan (aggregation/plan.go) is a chain of stages, each a goroutine     *)
(* that ranges over the unbuffered channel of the stage before it: the     *)
(* root fetches pages, one relation stage per denormalized relation        *)
(* resolves that relation for each document of a page (app/dsl), and a     *)
(* last stage shapes the documents.  Stages stop at an error, at the end   *)
(* of the channel they read, or when their context is done and nobody is   *)
(* parked on the channel they write.                                       *)
(*                                                                         *)
(* The callers are executePlan (core/rebuild_flusher.go), which asks about *)
(* ids and needs an answer for each, and the loop of a rebuild walk        *)
(* (core/build.go), which takes whatever the listing finds and reports the *)
(* walk as finished.  Stage 0 is the root, stage Final the shaping one and *)
(* the caller is number Final + 1.                                         *)
(***************************************************************************)
EXTENDS Integers, FiniteSets, SequencesExt

CONSTANT
  Setups      \* the situations checked: [1..n -> record], see MCPipeline

VARIABLES
  setup,      \* the situation of this behaviour
  stage,      \* stage[i]: a stage's goroutine
  caller,     \* the goroutine that called Execute
  context,    \* "live" or "done", the context the caller was given
  cancelled,  \* executePlan's own cancel has been called
  faults      \* provider calls and flushes that may still fail

vars == <<setup, stage, caller, context, cancelled, faults>>

Root == "root"     \* LocalSource of a relation without Join.From
Nil  == 0          \* no next page token

Now         == Setups[setup]
Relations   == Now.relations   \* sequence of [name, from, reference]
Listing     == Now.pages       \* the pages a root fetch returns, sequences of ids
Start       == Now.start       \* the page the walk's start token names
Asked       == Now.asked       \* the ids of the request; {} asks for the walk
Held        == Now.held        \* the ids the source has data for
Listed      == UNION {Range(p) : p \in Range(Listing)}
Walks       == Asked = {}

(* ---- the plan of a configuration ---- *)

Named(relations, n) == CHOOSE r \in Range(relations) : r.name = n

\* A relation after the siblings it is joined through.
JoinChain(relations) ==
  LET chain[n \in {r.name : r \in Range(relations)}] ==
        LET from == Named(relations, n).from
        IN  IF from = Root THEN <<n>> ELSE Append(chain[from], n)
  IN  chain

\* Faulty variant: the relations in the order they are declared.
DeclaredOrder(relations) == [k \in DOMAIN relations |-> relations[k].name]

\* A depth-first visit in declaration order, dependencies first.  A
\* configuration with a cycle or an unknown sibling does not start
\* (verifyFieldRelations), so the order's own errors do not occur.
resolveOrder(relations) ==
  LET chain == JoinChain(relations)
      Visit(ordered, r) ==
        ordered \o SelectSeq(chain[r.name], LAMBDA n : n \notin Range(ordered))
  IN  FoldLeft(Visit, <<>>, relations)

\* The relations a plan has a stage for, in order: reference relations are
\* resolved at search time.
PlanStages ==
  [s \in DOMAIN Setups |->
     LET relations == Setups[s].relations
     IN  SelectSeq(resolveOrder(relations),
                   LAMBDA n : ~Named(relations, n).reference)]

Subs  == PlanStages[setup]
Final == Len(Subs) + 1

(* ---- documents and pages ---- *)

\* A BuildDoc: the kind of answer and the relations it has data of.
Doc(id, kind) == [id |-> id, kind |-> kind, resolved |-> {}]

Page(items, next) == [items |-> items, next |-> next, err |-> FALSE]
ErrPage           == [items |-> <<>>, next |-> Nil, err |-> TRUE]

\* The relation fetch and build of one document: nothing for a nil or an
\* errored item, and nothing but an empty relation when the data the join
\* reads is not there.
Resolve(doc, n) ==
  LET from == Named(Relations, n).from
  IN  IF doc.kind = "doc" /\ (from = Root \/ from \in doc.resolved)
      THEN [doc EXCEPT !.resolved = @ \cup {n}]
      ELSE doc

\* What the source says of an id, in a document with every relation.
Complete(id) == [Doc(id, "doc") EXCEPT !.resolved = Range(Subs)]

NextToken(p) == IF p = Len(Listing) THEN Nil ELSE p + 1

(* ---- contexts and channels ---- *)

\* The pipeline's context: executePlan derives its own from the caller's.
Done == context = "done" \/ cancelled

Parked(i) == IF i > Final THEN caller.pc = "recv" ELSE stage[i].pc = "recv"

Closed(i) == stage[i].pc = "closed"

Goes(i, pc) == [stage EXCEPT ![i].pc = pc]

Offers(i, page) == [stage EXCEPT ![i].pc = "send", ![i].page = page]

-----------------------------------------------------------------------------
(* Init: Execute was called, every stage goroutine has started. *)

Idle(i) == [pc |-> IF i = 0 THEN "check" ELSE "recv", page |-> ErrPage, at |-> 0]

Init ==
  /\ setup \in DOMAIN Setups
  /\ stage = [i \in 0..Final |->
                [Idle(i) EXCEPT !.at = IF i = 0 THEN Start ELSE 0]]
  /\ caller = [pc |-> "recv", page |-> ErrPage, got |-> <<>>, answers |-> <<>>,
               cursor |-> Nil, outcome |-> "none"]
  /\ context = "live"
  /\ cancelled = FALSE
  /\ faults = Now.faults

(* ---- send ---- *)

\* What a stage does once its page has been received.
AfterSend(i) ==
  CASE stage[i].page.err -> [stage[i] EXCEPT !.pc = "closed"]
    [] i = 0 /\ stage[i].page.next = Nil -> [stage[i] EXCEPT !.pc = "closed"]
    [] i = 0 -> [stage[i] EXCEPT !.pc = "check", !.at = stage[i].page.next]
    [] OTHER -> [stage[i] EXCEPT !.pc = "recv"]

\* The receiver of a page: a relation stage starts on its first document, the
\* shaping stage transforms the page at once, the caller starts on the page.
\* An error is forwarded and not looked into.
Taken(i, page) ==
  CASE page.err -> [stage[i] EXCEPT !.pc = "send", !.page = page]
    [] i = Final -> [stage[i] EXCEPT !.pc = "send", !.page = page]
    [] OTHER    -> [stage[i] EXCEPT !.pc = "item", !.page = page, !.at = 1]

\* send: the parked receiver takes the page ...
Deliver(i) ==
  /\ stage[i].pc \in {"send", "blocked"}
  /\ Parked(i + 1)
  /\ LET page == stage[i].page
     IN  IF i = Final
         THEN /\ stage' = [stage EXCEPT ![i] = AfterSend(i)]
              /\ caller' = [caller EXCEPT !.pc = "page", !.page = page]
         ELSE /\ stage' = [stage EXCEPT ![i] = AfterSend(i),
                                        ![i + 1] = Taken(i + 1, page)]
              /\ UNCHANGED caller
  /\ UNCHANGED <<setup, context, cancelled, faults>>

\* ... and with nobody parked the stage waits for a receiver or for the end
\* of its context.
Block(i) ==
  /\ stage[i].pc = "send"
  /\ ~Parked(i + 1)
  /\ stage' = Goes(i, "blocked")
  /\ UNCHANGED <<setup, caller, context, cancelled, faults>>

GiveUp(i) ==
  /\ stage[i].pc = "blocked"
  /\ Done
  /\ stage' = Goes(i, "closed")
  /\ UNCHANGED <<setup, caller, context, cancelled, faults>>

(* ---- the root stage ---- *)

RootChecks ==
  /\ stage[0].pc = "check"
  /\ stage' = IF Done THEN Offers(0, ErrPage) ELSE Goes(0, "fetch")
  /\ UNCHANGED <<setup, caller, context, cancelled, faults>>

\* fetchAllResources skips what the source lists without data;
\* fetchResourcesByID answers it with a nil, and a failed read with Err.
RootItems(failed) ==
  LET ids == IF Walks THEN SelectSeq(Listing[stage[0].at], LAMBDA id : id \in Held)
                      ELSE Listing[stage[0].at]
      Kind(id) == CASE id \in failed  -> "err"
                    [] id \notin Held -> "nil"
                    [] OTHER          -> "doc"
  IN  [k \in DOMAIN ids |-> Doc(ids[k], Kind(ids[k]))]

RootFetches ==
  /\ stage[0].pc = "fetch"
  /\ \E failed \in SUBSET (IF Walks THEN {} ELSE Range(Listing[stage[0].at])) :
       /\ Cardinality(failed) <= faults
       /\ stage' = Offers(0, Page(RootItems(failed), NextToken(stage[0].at)))
       /\ faults' = faults - Cardinality(failed)
  /\ UNCHANGED <<setup, caller, context, cancelled>>

\* A listing that fails, and any read the end of the context cut short, fails
\* the execution.
RootFails ==
  /\ stage[0].pc = "fetch"
  /\ Done \/ (Walks /\ faults > 0)
  /\ stage' = Offers(0, ErrPage)
  /\ faults' = IF Done THEN faults ELSE faults - 1
  /\ UNCHANGED <<setup, caller, context, cancelled>>

(* ---- the relation stages and the ends of the range loops ---- *)

SubResolves(i) ==
  /\ i > 0
  /\ stage[i].pc = "item"
  /\ ~Done
  /\ stage[i].at <= Len(stage[i].page.items)
  /\ stage' = [stage EXCEPT ![i].page.items[stage[i].at] = Resolve(@, Subs[i]),
                            ![i].at = @ + 1]
  /\ UNCHANGED <<setup, caller, context, cancelled, faults>>

\* A document a relation stage has a call to make for.
Fetches(i) == stage[i].page.items[stage[i].at].kind = "doc"

SubFails(i) ==
  /\ i > 0
  /\ stage[i].pc = "item"
  /\ stage[i].at <= Len(stage[i].page.items)
  /\ Done \/ (faults > 0 /\ Fetches(i))
  /\ stage' = Offers(i, ErrPage)
  /\ faults' = IF Done THEN faults ELSE faults - 1
  /\ UNCHANGED <<setup, caller, context, cancelled>>

SubOffers(i) ==
  /\ i > 0
  /\ stage[i].pc = "item"
  /\ stage[i].at > Len(stage[i].page.items)
  /\ stage' = Goes(i, "send")
  /\ UNCHANGED <<setup, caller, context, cancelled, faults>>

\* The range loop of a stage ends with the channel it reads.
RangeEnds(i) ==
  /\ i > 0
  /\ stage[i].pc = "recv"
  /\ Closed(i - 1)
  /\ stage' = Goes(i, "closed")
  /\ UNCHANGED <<setup, caller, context, cancelled, faults>>

(* ---- the rebuild walk's loop ---- *)

Returns(outcome) == [caller EXCEPT !.pc = "returned", !.outcome = outcome]

WalkPage ==
  /\ Walks
  /\ caller.pc = "page"
  /\ ~caller.page.err
  /\ ~Done \/ caller.page.items = <<>>
  /\ caller' = [caller EXCEPT !.pc = "recv",
                              !.got = Append(@, caller.page),
                              !.cursor = IF caller.page.next = Nil THEN @
                                         ELSE caller.page.next]
  /\ UNCHANGED <<setup, stage, context, cancelled, faults>>

\* An error page, an ended context, or a flush that failed: what was begun is
\* salvaged and the walk fails.  Its pipeline is left to the context.
WalkStops ==
  /\ Walks
  /\ caller.pc = "page"
  /\ caller.page.err \/ Done \/ faults > 0
  /\ caller' = Returns("failed")
  /\ faults' = IF caller.page.err \/ Done THEN faults ELSE faults - 1
  /\ UNCHANGED <<setup, stage, context, cancelled>>

\* Faulty variant: a closed channel is the end of the listing.
WalkEndsUnchecked ==
  /\ Walks
  /\ caller.pc = "recv"
  /\ Closed(Final)
  /\ caller' = Returns("finished")
  /\ UNCHANGED <<setup, stage, context, cancelled, faults>>

\* The channel closed: the listing is exhausted only if the context is live.
WalkEnds ==
  /\ Walks
  /\ caller.pc = "recv"
  /\ Closed(Final)
  /\ caller' = Returns(IF Done THEN "failed" ELSE "finished")
  /\ UNCHANGED <<setup, stage, context, cancelled, faults>>

(* ---- executePlan ---- *)

Answered == {d.id : d \in Range(caller.answers)}

\* Not asked about, or answered before - within the page, too.
Contradicts ==
  LET items == caller.page.items
  IN  \/ \E k \in DOMAIN items : items[k].id \notin Asked \ Answered
      \/ \E j, k \in DOMAIN items : j # k /\ items[j].id = items[k].id

PlanPage ==
  /\ ~Walks
  /\ caller.pc = "page"
  /\ ~caller.page.err
  /\ ~Contradicts
  /\ caller' = [caller EXCEPT !.pc = "recv", !.answers = @ \o caller.page.items]
  /\ UNCHANGED <<setup, stage, context, cancelled, faults>>

\* Faulty variant: the failed call leaves its stages running.
PlanFailsUncancelled ==
  /\ ~Walks
  /\ caller.pc = "page"
  /\ caller.page.err \/ Contradicts
  /\ caller' = Returns("failed")
  /\ UNCHANGED <<setup, stage, context, cancelled, faults>>

\* The deferred cancel stops the stages of a call that fails before their
\* results are drained.
PlanFails ==
  /\ ~Walks
  /\ caller.pc = "page"
  /\ caller.page.err \/ Contradicts
  /\ caller' = Returns("failed")
  /\ cancelled' = TRUE
  /\ UNCHANGED <<setup, stage, context, faults>>

\* Faulty variant: an id without an answer is one the source does not have.
UnansweredAsNil == SetToSeq({Doc(id, "nil") : id \in Asked \ Answered})

\* An asked id the plan left unanswered gets Err, never a nil.
Unanswered == SetToSeq({Doc(id, "err") : id \in Asked \ Answered})

PlanEnds ==
  /\ ~Walks
  /\ caller.pc = "recv"
  /\ Closed(Final)
  /\ caller' = [Returns("finished") EXCEPT !.answers = @ \o Unanswered]
  /\ cancelled' = TRUE
  /\ UNCHANGED <<setup, stage, context, faults>>

(* ---- the caller's context ---- *)

\* A cancelled or timed-out request, activity or shutdown, at any time; and
\* the Temporal worker or the server ends it once the call has returned.
ContextEnds ==
  /\ context = "live"
  /\ Now.ends \/ caller.pc = "returned"
  /\ context' = "done"
  /\ UNCHANGED <<setup, stage, caller, cancelled, faults>>

StageStep(i) ==
  \/ Deliver(i) \/ Block(i) \/ GiveUp(i)
  \/ SubResolves(i) \/ SubFails(i) \/ SubOffers(i) \/ RangeEnds(i)

RootStep == RootChecks \/ RootFetches \/ RootFails

CallerStep == WalkPage \/ WalkStops \/ WalkEnds \/ PlanPage \/ PlanFails \/ PlanEnds

Next ==
  \/ \E i \in DOMAIN stage : StageStep(i)
  \/ RootStep
  \/ CallerStep
  \/ ContextEnds

Spec == Init /\ [][Next]_vars

Stages == UNION {0..Len(Setups[s].relations) + 1 : s \in DOMAIN Setups}

\* Goroutines run, provider calls return (with an answer or an error), and a
\* walk's context is ended once the walk has returned.  Nothing ends
\* executePlan's context for it.
Fairness ==
  /\ \A i \in Stages : WF_vars(i \in DOMAIN stage /\ StageStep(i))
  /\ WF_vars(RootStep)
  /\ WF_vars(CallerStep)
  /\ WF_vars(Walks /\ caller.pc = "returned" /\ ContextEnds)

FairSpec == Spec /\ Fairness

-----------------------------------------------------------------------------
(* Properties *)

\* The pages of the listing from a page on, as a walk must see them.
WalkedPages(n) ==
  [k \in 1..n |->
     LET p == Start + k - 1
         ids == SelectSeq(Listing[p], LAMBDA id : id \in Held)
     IN  Page([j \in DOMAIN ids |-> Complete(ids[j])], NextToken(p))]

\* A walk takes the listing's pages in order, each exactly once, with its own
\* token and with every relation of every document resolved - the ones joined
\* through a sibling included - however far the stages have run ahead; and the
\* cursor never names a page the walk has not consumed up to.
WalkInOrder ==
  Walks =>
    /\ caller.got = WalkedPages(Len(caller.got))
    /\ caller.cursor # Nil => caller.cursor <= Start + Len(caller.got)

\* A walk that reports success has taken the whole listing: a pipeline that
\* its ended context stopped, and whose terminal error nobody received, is
\* not an exhausted listing.
FinishedWalkIsWhole ==
  Walks /\ caller.outcome = "finished" =>
    Len(caller.got) = Len(Listing) - Start + 1

\* executePlan answers every asked id exactly once; a nil - which deletes the
\* document - only when the plan reported that the source has no data of it,
\* and a document only with every relation.
AnswersHold ==
  ~Walks /\ caller.outcome = "finished" =>
    /\ Len(caller.answers) = Cardinality(Asked)
    /\ Answered = Asked
    /\ \A d \in Range(caller.answers) :
         /\ d.kind = "nil" => d.id \in Listed \ Held
         /\ d.kind = "doc" => d = Complete(d.id)

\* The caller returns - no stage waits for a caller that waits for it - and
\* every stage goroutine ends, also when a stage after it has stopped reading
\* its channel and when executePlan returned before its plan was drained.
EverythingEnds == <>(caller.pc = "returned" /\ \A i \in DOMAIN stage : Closed(i))
=============================================================================
