---------------------------- MODULE RebuildProofs ----------------------------
(***************************************************************************)
(* Proofs about RebuildWalk, for any roots, children, Schema Versions,     *)
(* listings, batches, chunk size and retry policy.  The parts of the       *)
(* invariant take the setup s, the walk x, a root's entry e and documents  *)
(* d as arguments, so that fail's step can be composed with its caller's.  *)
(***************************************************************************)
EXTENDS RebuildWalk, BuildSequenceProofs, SequenceTheorems

-----------------------------------------------------------------------------
(* The inductive invariant: the walk *)

Given(s) == s.batches # <<>>
OnePlan(s) == ~Given(s) /\ Cardinality(s.selected) = 1

Open(e) == e.tracked /\ ~e.failed /\ ~e.settled

Applying == {"nils", "narrow", "remark"}
Flusher == {"bulk", "edges"} \cup Applying
Waiting(x) == x.pc \in {"bulk", "edges"}

\* Where the loop is; while the flusher works, where it will return.
At(x) == IF x.pc \in Flusher THEN x.ret ELSE x.pc

\* What the loop and the flusher have in hand at each of their places.
Placed(s, x) ==
    /\ x.next >= 1
    /\ x.pc = "idle" => x = IdleWalk
    /\ x.pc \notin Applying => x.how = "flush"
    /\ x.pc \notin Flusher => x.ids = {} /\ x.todo = {}
    /\ x.pc \in Flusher => IF x.how = "flush" THEN x.pending = <<>> ELSE x.ret = "walk"
    /\ Waiting(x) => x.ids = IdsIn(x.chunk)
    /\ IF Given(s)
       THEN /\ At(x) \in {"idle", "batch", "ask", "walk", "finish"}
            /\ x.start = 0 /\ x.inbox = <<>> /\ x.no = 0
            /\ At(x) # "walk" => x.page = <<>>
            /\ At(x) = "ask" => x.next <= Len(s.batches)
       ELSE /\ At(x) \in {"idle", "plan", "walk", "finish"}
            /\ At(x) \in {"plan", "walk"} => x.left # {}
            /\ (x.start # 0) <=> (At(x) = "walk")
            /\ x.start = 0 => x.inbox = <<>> /\ x.no = 0
            /\ x.no = 0 => x.page = <<>>

\* What is queued is found.
Found(x) ==
    /\ \A it \in Range(x.pending) : it.body.found
    /\ Waiting(x) => \A it \in Range(x.chunk) : it.body.found

\* What a walk's pipeline fetched is the current plan's.  A batch's answers
\* about a root are its nils, then its documents in the order of the versions.
Ordered(items) ==
    \A i, j \in DOMAIN items :
        i < j /\ items[i].id = items[j].id =>
            items[i].v # items[j].v /\ (items[i].body.found => items[i].v < items[j].v)

Paged(s, x) ==
    IF Given(s) THEN Ordered(x.page)
    ELSE /\ \A it \in Range(x.page) : it.v = LeastOf(x.left)
         /\ \A p \in Range(x.inbox) : p.no # 0 /\ \A it \in Range(p.items) : it.v = LeastOf(x.left)

-----------------------------------------------------------------------------
(* The inductive invariant: one root *)

\* The versions of r among items.
Of(items, r) == {it.v : it \in {k \in Range(items) : k.id = r}}

\* The versions of r whose documents are queued, and those its plans have
\* still to answer.
Queue(x, r) == Of(x.pending, r) \cup (IF Waiting(x) THEN Of(x.chunk, r) ELSE {})

Coming(s, x, r) ==
    IF ~Given(s) THEN x.left
    ELSE IF x.pc = "ask" THEN IF r \in s.batches[x.next] THEN s.selected ELSE {}
    ELSE Of(x.page, r)

\* The outcomes still to be counted: those to come, those queued, and, unless
\* a plan omitted the root, those not written.
Owed(s, e, d, Q, C) ==
    {v \in s.selected :
        /\ v \notin e.nils /\ v # e.lastCounted
        /\ v \in C \/ v \in Q \/ (~e.partial /\ d[v].ver < e.occ)}

\* The flusher is deleting r at every version.
Removing(x, r) == x.how = "remove" /\ r \in x.ids

\* At the root's own Build Sequence a document is what its plan said.
Agrees(s, e, d, removing) ==
    \A v \in s.versions : d[v].ver = e.occ =>
        IF d[v].body.found THEN v \notin e.nils /\ v <= e.lastDoc
        ELSE v \in e.nils \/ removing

\* What is queued, what is to come and what is counted of an open root.
Accounted(s, e, d, Q, C) ==
    /\ e.lastCounted <= e.lastDoc
    /\ \A v \in Q : v \notin e.nils /\ e.lastCounted <= v /\ v <= e.lastDoc
    /\ \A u \in C : e.lastDoc <= u /\ (Given(s) => e.lastDoc # u /\ u \notin e.nils)
    /\ e.lastCounted # 0 => e.lastCounted \in s.selected /\ d[e.lastCounted].ver >= e.occ
    /\ Cardinality(Owed(s, e, d, Q, C)) <= e.remaining

Books(s, e, d, Q, C, removing) ==
    /\ Given(s) /\ C # {} => e.tracked
    /\ Open(e) => Accounted(s, e, d, Q, C) /\ Agrees(s, e, d, removing)

\* What the flusher has in hand is open, and what it settles is applied.
Handled(s, x, e, d, r) ==
    /\ x.pc = "idle" => e = NoEntry
    /\ Of(x.pending, r) # {} => Open(e)
    /\ r \in x.todo => r \in x.ids /\ Open(e)
    /\ x.pc = "bulk" /\ r \in x.ids => Open(e)
    /\ r \in x.ids /\ Open(e) =>
          /\ x.pc = "edges" => \A v \in Of(x.chunk, r) : <<r, v>> \notin x.rejected => d[v].ver >= e.occ
          /\ x.how # "flush" => e.remaining = 0 /\ ~e.partial /\ Of(x.pending, r) = {}
          /\ x.how = "remove" => e.lastDoc = 0
          /\ x.pc \in Applying /\ ~(x.pc = "nils" /\ r \in x.todo) /\ e.remaining = 0 /\ ~e.partial =>
                \A v \in e.nils : d[v].ver >= e.occ

\* A batch's ids are new when it is begun.
Begun(s, x, e, r) ==
    Given(s) /\ e.tracked =>
        \E i \in DOMAIN s.batches : r \in s.batches[i] /\ i <= x.next /\ (At(x) = "batch" => i < x.next)

RootOK(s, x, e, d, r) ==
    /\ Books(s, e, d, Queue(x, r), Coming(s, x, r), Removing(x, r))
    /\ Handled(s, x, e, d, r)
    /\ Begun(s, x, e, r)

\* Every stored number was drawn, and each build's is its own.
NoLiveIn(s) == [idx |-> 0, mark |-> 0, out |-> [v \in s.versions |-> NoBody]]

Drawn(s, e, d, l, n) ==
    /\ n >= 1 /\ e.occ <= n /\ l.idx <= n
    /\ Open(e) => e.occ > 1
    /\ l = NoLiveIn(s) \/ (l.idx > 1 /\ l.idx # e.occ)
    /\ \A v \in s.versions :
          /\ d[v].ver >= 1 /\ d[v].ver <= n
          /\ l = NoLiveIn(s) \/ d[v].ver # l.idx

\* Only what a setup starts with is at its Build Sequence, and nothing fetched
\* since looks like it.
New(body) == body.found => body.n >= 1

Fresh(s, d, l) == \A v \in s.versions : New(l.out[v]) /\ (d[v].ver > 1 => New(d[v].body))

AllNew(x) ==
    /\ \A it \in Range(x.page) : New(it.body)
    /\ \A it \in Range(x.pending) : New(it.body)
    /\ \A it \in Range(x.chunk) : New(it.body)
    /\ \A p \in Range(x.inbox) : \A it \in Range(p.items) : New(it.body)

-----------------------------------------------------------------------------
(* The inductive invariant: the cursor of a walk that can be resumed *)

\* What Temporal has is no further than the next beat's, and that no further
\* than the pages still to be consumed.
Cursor(s, x, j) ==
    /\ j.recorded <= j.latest
    /\ x.pc = "idle" /\ j.outcome = "running" => j.attempts < s.attempts
    /\ ~OnePlan(s) => x.completed = 0
    /\ OnePlan(s) =>
          /\ x.completed # 0 => j.latest <= x.completed
          /\ \A v \in s.selected : j.latest <= Len(s.pages[v]) /\ x.completed <= Len(s.pages[v])
          /\ x.left # {} =>
                /\ x.left = s.selected
                /\ j.latest < x.next /\ x.completed < x.next
                /\ \A v \in s.selected : x.next <= Len(s.pages[v]) + 1
                /\ At(x) = "plan" => x.next <= j.latest + 1
                /\ x.no # 0 => j.latest < x.no /\ x.completed < x.no /\ x.no < x.next
                /\ \A i \in DOMAIN x.inbox :
                      /\ j.latest < x.inbox[i].no /\ x.completed < x.inbox[i].no
                      /\ x.no < x.inbox[i].no /\ x.inbox[i].no < x.next
                /\ \A i, k \in DOMAIN x.inbox : i < k => x.inbox[i].no < x.inbox[k].no

\* Each root is settled at its one outcome.
InHand(s, x, e, r) ==
    OnePlan(s) =>
        /\ ~e.settled
        /\ Open(e) =>
            /\ e.remaining # 0 => e.lastCounted = 0 /\ e.nils = {}
            /\ x.pc \in Applying /\ r \in x.ids => e.remaining = 0
            /\ \/ r \in IdsIn(x.pending) \/ r \in x.ids
               \/ x.pc = "walk" /\ x.page # <<>> /\ Head(x.page).id = r /\ e.remaining # 0

\* The outcome of r at v is applied, or somebody has r to build.
SafeNow(r, v) ==
    docs[r][v].ver > 1 \/ v \notin has[r] \/ rows[r].stale \/ live[r].idx # 0 \/ r \in notices

Listed(s, v, k) == Range(s.pages[v][k])

\* The walk has not passed r at v, or has it in hand, unless a mark was lost.
NotYet(s, x, e, j, r, v) ==
    /\ \A k \in 1 .. j.latest : r \notin Listed(s, v, k)
    /\ ~x.markFailed =>
          /\ ~e.failed
          /\ \A k \in 1 .. x.completed : r \in Listed(s, v, k) => Open(e)
          /\ x.start # 0 => \A k \in 1 .. x.next - 1 : r \in Listed(s, v, k) =>
                \/ Open(e)
                \/ x.no = k /\ r \in IdsIn(x.page)
                \/ \E p \in Range(x.inbox) : p.no = k /\ r \in IdsIn(p.items)

-----------------------------------------------------------------------------
(* The inductive invariant *)

WalkOK(s, x) == Placed(s, x) /\ Found(x) /\ Paged(s, x) /\ AllNew(x)

WalkInv == WalkOK(used.setup, w)
RootInv == \A r \in Roots : RootOK(used.setup, w, entry[r], docs[r], r)
DrawnInv == \A r \in Roots : Drawn(used.setup, entry[r], docs[r], live[r], seq)
FreshInv == (\A r \in Roots : Fresh(used.setup, docs[r], live[r])) /\ \A y \in Things : src[y] >= 1
CursorInv == Cursor(used.setup, w, job)
HandInv == \A r \in Roots : InHand(used.setup, w, entry[r], r)
PassedInv ==
    OnePlan(used.setup) => \A r \in Roots, v \in Selected :
        SafeNow(r, v) \/ NotYet(used.setup, w, entry[r], job, r, v)

-----------------------------------------------------------------------------
(* Setups, sequences and positions *)

\* Every setup a behaviour uses is one of those assumed.
LEMMA SetupFacts ==
    ASSUME TypeOK
    PROVE  IsSetup(used.setup)
  BY RebuildAssumption DEF TypeOK, Used

\* A setup's sets are finite and its plans have numbers.
LEMMA SetFacts ==
    ASSUME NEW s, IsSetup(s)
    PROVE  /\ s.roots \subseteq Nat /\ IsFiniteSet(s.roots)
           /\ s.versions \subseteq Nat \ {0} /\ IsFiniteSet(s.versions)
           /\ s.selected \subseteq s.versions /\ s.selected # {} /\ IsFiniteSet(s.selected)
           /\ Cardinality(s.selected) \in Nat \ {0}
           /\ s.batches \in Seq(SUBSET s.roots)
           /\ s.pages \in [s.selected -> Seq(Seq(s.roots))]
  <1>1. s.versions \subseteq Nat \ {0} /\ IsFiniteSet(s.versions) /\ s.selected \in SUBSET s.versions
    BY DEF IsSetup
  <1>2. IsFiniteSet(s.selected)
    BY <1>1, FS_Subset
  <1>3. Cardinality(s.selected) \in Nat /\ Cardinality(s.selected) # 0
    BY <1>2, FS_CardinalityType, FS_EmptySet DEF IsSetup
  <1>. QED  BY <1>1, <1>2, <1>3 DEF IsSetup

\* A nonempty finite set of numbers has a least and a greatest element.
LEMMA ExtremeFacts ==
    ASSUME NEW S \in SUBSET Nat, IsFiniteSet(S), S # {}
    PROVE  /\ LeastOf(S) \in S /\ \A u \in S : LeastOf(S) <= u
           /\ \E m \in S : \A u \in S : u <= m
  <1>1. Cardinality(S) \in Nat /\ Cardinality(S) # 0
    BY FS_CardinalityType, FS_EmptySet
  <1>2. PICK l \in S : Nth(S, l) = 1
    BY <1>1, NthFacts
  <1>3. PICK m \in S : Nth(S, m) = Cardinality(S)
    BY <1>1, NthFacts
  <1>4. \A u \in S : ~(u < l) /\ ~(m < u)
    <2>1. SUFFICES ASSUME NEW u \in S
                   PROVE  ~(u < l) /\ ~(m < u)
      OBVIOUS
    <2>2. Nth(S, u) \in 1 .. Cardinality(S)
      BY NthFacts
    <2>3. u < l => Nth(S, u) < Nth(S, l)
      BY NthFacts
    <2>4. m < u => Nth(S, m) < Nth(S, u)
      BY NthFacts
    <2>. QED  BY <1>1, <1>2, <1>3, <2>2, <2>3, <2>4
  <1>5. \A u \in S : l <= u /\ u <= m
    BY <1>4
  <1>. QED  BY <1>5 DEF LeastOf

\* The empty queue holds nothing.
LEMMA EmptyFacts ==
    /\ Range(<<>>) = {} /\ IdsIn(<<>>) = {} /\ \A r : Of(<<>>, r) = {}
    /\ \A S : <<>> \in Seq(S)
  BY DEF Range, IdsIn, Of

\* The roots of a queue are those with a version in it.
LEMMA IdFacts ==
    ASSUME NEW items
    PROVE  /\ \A r : r \in IdsIn(items) <=> Of(items, r) # {}
           /\ \A it \in Range(items) : it.id \in IdsIn(items) /\ it.v \in Of(items, it.id)
           /\ \A r : \A v \in Of(items, r) : \E it \in Range(items) : it.id = r /\ it.v = v
  BY DEF IdsIn, Of, Range

\* Taking the first element of a queue.
LEMMA TailFacts ==
    ASSUME NEW S, NEW q \in Seq(S), q # <<>>
    PROVE  /\ Head(q) \in S /\ Tail(q) \in Seq(S)
           /\ Range(q) = {Head(q)} \cup Range(Tail(q))
           /\ Len(Tail(q)) = Len(q) - 1 /\ DOMAIN Tail(q) = 1 .. Len(q) - 1
           /\ DOMAIN q = 1 .. Len(q) /\ Len(q) \in Nat \ {0} /\ Head(q) = q[1]
           /\ \A i \in DOMAIN Tail(q) : Tail(q)[i] = q[i + 1]
  <1>1. Head(q) \in S /\ Tail(q) \in Seq(S) /\ Len(Tail(q)) = Len(q) - 1
        /\ \A i \in 1 .. Len(Tail(q)) : Tail(q)[i] = q[i + 1]
    BY HeadTailProperties
  <1>2. DOMAIN q = 1 .. Len(q) /\ Len(q) \in Nat \ {0} /\ Head(q) = q[1]
    BY EmptySeq, LenProperties
  <1>3. DOMAIN Tail(q) = 1 .. Len(q) - 1
    BY <1>1, LenProperties
  <1>4. ASSUME NEW e
        PROVE  (\E i \in 1 .. Len(q) : e = q[i]) <=> e = q[1] \/ \E i \in 1 .. Len(q) - 1 : e = q[i + 1]
    <2>1. ASSUME NEW i \in 1 .. Len(q), e = q[i], i # 1
          PROVE  \E k \in 1 .. Len(q) - 1 : e = q[k + 1]
      <3>1. i - 1 \in 1 .. Len(q) - 1 /\ e = q[(i - 1) + 1]
        BY <1>2, <2>1
      <3>. QED  BY <3>1
    <2>2. ASSUME NEW i \in 1 .. Len(q) - 1, e = q[i + 1]
          PROVE  \E k \in 1 .. Len(q) : e = q[k]
      <3>1. i + 1 \in 1 .. Len(q)
        BY <1>2, <2>2
      <3>. QED  BY <2>2, <3>1
    <2>. QED  BY <1>2, <2>1, <2>2
  <1>5. Range(q) = {Head(q)} \cup Range(Tail(q))
    <2>1. ASSUME NEW e
          PROVE  e \in Range(q) <=> e = Head(q) \/ e \in Range(Tail(q))
      <3>1. e \in Range(q) <=> \E i \in 1 .. Len(q) : e = q[i]
        BY <1>2 DEF Range
      <3>2. e \in Range(Tail(q)) <=> \E i \in 1 .. Len(q) - 1 : e = q[i + 1]
        BY <1>1, <1>3 DEF Range
      <3>. QED  BY <1>2, <1>4, <3>1, <3>2
    <2>. QED  BY <2>1
  <1>. QED  BY <1>1, <1>2, <1>3, <1>5

\* Queueing one more.
LEMMA AppendFacts ==
    ASSUME NEW S, NEW q \in Seq(S), NEW e \in S
    PROVE  /\ Append(q, e) \in Seq(S) /\ Append(q, e) # <<>>
           /\ Range(Append(q, e)) = Range(q) \cup {e}
           /\ Len(q) \in Nat /\ DOMAIN q = 1 .. Len(q) /\ DOMAIN Append(q, e) = 1 .. Len(q) + 1
           /\ \A i \in 1 .. Len(q) : Append(q, e)[i] = q[i]
           /\ Append(q, e)[Len(q) + 1] = e
  <1>1. /\ Append(q, e) \in Seq(S) /\ Append(q, e) # <<>>
        /\ Len(Append(q, e)) = Len(q) + 1
        /\ \A i \in 1 .. Len(q) : Append(q, e)[i] = q[i]
        /\ Append(q, e)[Len(q) + 1] = e
    BY AppendProperties
  <1>2. Len(q) \in Nat /\ DOMAIN q = 1 .. Len(q) /\ DOMAIN Append(q, e) = 1 .. Len(q) + 1
    BY <1>1, LenProperties
  <1>3. ASSUME NEW f
        PROVE  f \in Range(Append(q, e)) <=> f \in Range(q) \/ f = e
    <2>1. f \in Range(Append(q, e)) <=> \E i \in 1 .. Len(q) + 1 : f = Append(q, e)[i]
      BY <1>2 DEF Range
    <2>2. f \in Range(q) <=> \E i \in 1 .. Len(q) : f = q[i]
      BY <1>2 DEF Range
    <2>3. \A i \in 1 .. Len(q) + 1 : i \in 1 .. Len(q) \/ i = Len(q) + 1
      BY <1>2
    <2>4. 1 .. Len(q) \subseteq 1 .. Len(q) + 1 /\ Len(q) + 1 \in 1 .. Len(q) + 1
      BY <1>2
    <2>. QED  BY <1>1, <2>1, <2>2, <2>3, <2>4
  <1>. QED  BY <1>1, <1>2, <1>3

\* Picking keeps the elements at the given positions.
LEMMA PickedFacts ==
    ASSUME NEW S, NEW q \in Seq(S), NEW at \in SUBSET DOMAIN q
    PROVE  /\ Picked(q, at) \in Seq(S)
           /\ Range(Picked(q, at)) = {q[i] : i \in at}
           /\ at = {} => Picked(q, at) = <<>>
  <1>1. at \in SUBSET Nat /\ IsFiniteSet(at) /\ \A i \in at : q[i] \in S
    <2>1. DOMAIN q = 1 .. Len(q) /\ Len(q) \in Nat
      BY LenProperties
    <2>2. IsFiniteSet(1 .. Len(q))
      BY <2>1, FS_Interval
    <2>3. IsFiniteSet(at)
      BY <2>1, <2>2, FS_Subset
    <2>. QED  BY <2>1, <2>3, ElementOfSeq
  <1>. DEFINE n == Cardinality(at)
              g(k) == CHOOSE i \in at : Nth(at, i) = k
  <1>2. n \in Nat
    BY <1>1, FS_CardinalityType
  <1>3. ASSUME NEW k \in 1 .. n
        PROVE  g(k) \in at /\ Nth(at, g(k)) = k
    BY <1>1, NthFacts
  <1>4. ASSUME NEW i \in at
        PROVE  Nth(at, i) \in 1 .. n /\ g(Nth(at, i)) = i
    <2>1. Nth(at, i) \in 1 .. n
      BY <1>1, NthFacts
    <2>2. g(Nth(at, i)) \in at /\ Nth(at, g(Nth(at, i))) = Nth(at, i)
      BY <1>3, <2>1
    <2>. HIDE DEF g
    <2>3. PICK j \in at : j = g(Nth(at, i))
      BY <2>2
    <2>4. ~(i < j) /\ ~(j < i)
      <3>1. i < j => Nth(at, i) < Nth(at, j)
        BY <1>1, NthFacts
      <3>2. j < i => Nth(at, j) < Nth(at, i)
        BY <1>1, NthFacts
      <3>. QED  BY <2>1, <2>2, <2>3, <3>1, <3>2
    <2>. QED  BY <1>1, <2>1, <2>3, <2>4
  <1>5. Picked(q, at) = [k \in 1 .. n |-> q[g(k)]]
    BY DEF Picked
  <1>. HIDE DEF g, n
  <1>6. \A k \in 1 .. n : q[g(k)] \in S
    BY <1>1, <1>3
  <1>7. Picked(q, at) \in [1 .. n -> S]
    BY <1>5, <1>6
  <1>8. Picked(q, at) \in Seq(S)
    BY <1>2, <1>7, SeqDef
  <1>9. Range(Picked(q, at)) = {q[i] : i \in at}
    <2>1. \A y \in Range(Picked(q, at)) : y \in {q[i] : i \in at}
      BY <1>3, <1>5 DEF Range
    <2>2. ASSUME NEW i \in at
          PROVE  q[i] \in Range(Picked(q, at))
      <3>1. PICK k \in 1 .. n : g(k) = i
        BY <1>4
      <3>. QED  BY <1>5, <3>1 DEF Range
    <2>. QED  BY <2>1, <2>2
  <1>10. at = {} => Picked(q, at) = <<>>
    <2>1. at = {} => n = 0
      BY FS_EmptySet DEF n
    <2>2. Len(Picked(q, at)) = n
      BY <1>2, <1>7, <1>8, LenProperties
    <2>. QED  BY <1>8, <2>1, <2>2, EmptySeq
  <1>. QED  BY <1>8, <1>9, <1>10

\* What fail leaves of a queue.
LEMMA WithoutFacts ==
    ASSUME NEW T, NEW q \in Seq(T), NEW S
    PROVE  /\ Without(q, S) \in Seq(T)
           /\ Range(Without(q, S)) = {it \in Range(q) : it.id \notin S}
           /\ q = <<>> => Without(q, S) = <<>>
           /\ \A r : Of(Without(q, S), r) = IF r \in S THEN {} ELSE Of(q, r)
  <1>. DEFINE at == {i \in DOMAIN q : q[i].id \notin S}
  <1>1. /\ Without(q, S) \in Seq(T)
        /\ Range(Without(q, S)) = {q[i] : i \in at}
        /\ at = {} => Without(q, S) = <<>>
    <2>1. Without(q, S) = Picked(q, at) /\ at \in SUBSET DOMAIN q
      BY DEF Without
    <2>. HIDE DEF at
    <2>. QED  BY <2>1, PickedFacts
  <1>2. {q[i] : i \in at} = {it \in Range(q) : it.id \notin S}
    BY DEF Range
  <1>3. q = <<>> => at = {}
    OBVIOUS
  <1>4. \A r : Of(Without(q, S), r) = IF r \in S THEN {} ELSE Of(q, r)
    BY <1>1, <1>2 DEF Of
  <1>. QED  BY <1>1, <1>2, <1>3, <1>4

-----------------------------------------------------------------------------
(* The account of one root *)

EntryIn(s) ==
    [tracked : BOOLEAN, failed : BOOLEAN, settled : BOOLEAN, partial : BOOLEAN,
     occ : Nat, mark : Nat, start : Nat, remaining : 0 .. Cardinality(s.selected),
     lastCounted : Nat, lastDoc : Nat, nils : SUBSET s.selected]

DocsIn(s) == [s.versions -> [ver : Nat, body : [found : BOOLEAN, n : Nat, kids : SUBSET (s.kids \X Nat)]]]

\* What an entry holds.
LEMMA EntryFacts ==
    ASSUME NEW s, NEW e \in EntryIn(s), IsSetup(s)
    PROVE  /\ e.tracked \in BOOLEAN /\ e.failed \in BOOLEAN /\ e.settled \in BOOLEAN
           /\ e.partial \in BOOLEAN /\ e.occ \in Nat /\ e.mark \in Nat /\ e.start \in Nat
           /\ e.remaining \in Nat /\ e.remaining <= Cardinality(s.selected)
           /\ e.lastCounted \in Nat /\ e.lastDoc \in Nat /\ e.nils \in SUBSET s.selected
  BY SetFacts DEF EntryIn

\* What is owed is finite.
LEMMA OwedFacts ==
    ASSUME NEW s, IsSetup(s), NEW e, NEW d, NEW Q, NEW C
    PROVE  /\ IsFiniteSet(Owed(s, e, d, Q, C))
           /\ Cardinality(Owed(s, e, d, Q, C)) \in Nat
           /\ Owed(s, e, d, Q, C) \in SUBSET s.selected
  <1>1. Owed(s, e, d, Q, C) \in SUBSET s.selected
    BY DEF Owed
  <1>2. IsFiniteSet(Owed(s, e, d, Q, C))
    BY <1>1, SetFacts, FS_Subset
  <1>. QED  BY <1>1, <1>2, FS_CardinalityType

\* A smaller set counts no more.
LEMMA FewerOwed ==
    ASSUME NEW s, IsSetup(s), NEW e, NEW d, NEW Q, NEW C, NEW e2, NEW d2, NEW Q2, NEW C2,
           \A v \in s.selected : v \in Owed(s, e2, d2, Q2, C2) => v \in Owed(s, e, d, Q, C)
    PROVE  Cardinality(Owed(s, e2, d2, Q2, C2)) <= Cardinality(Owed(s, e, d, Q, C))
  <1>1. Owed(s, e2, d2, Q2, C2) \in SUBSET Owed(s, e, d, Q, C)
    BY OwedFacts
  <1>. QED  BY <1>1, OwedFacts, FS_Subset

\* An account stays right when less is queued or to come, and when others
\* write the documents at numbers of their own.
LEMMA BooksKept ==
    ASSUME NEW s, IsSetup(s), NEW e \in EntryIn(s), NEW d \in DocsIn(s), NEW d2 \in DocsIn(s),
           NEW Q, NEW Q2 \in SUBSET Q, NEW C, NEW C2 \in SUBSET C, NEW g, NEW g2,
           Open(e) /\ g => g2,
           \A v \in s.versions : d2[v] = d[v] \/ (d2[v].ver >= d[v].ver /\ d2[v].ver # e.occ),
           Books(s, e, d, Q, C, g)
    PROVE  Books(s, e, d2, Q2, C2, g2)
  <1>0. s.selected \subseteq s.versions
    BY SetFacts
  <1>1. ASSUME NEW v \in s.versions
        PROVE  d[v].ver \in Nat /\ d2[v].ver \in Nat /\ d2[v].ver >= d[v].ver
    BY <1>1 DEF DocsIn
  <1>2. Given(s) /\ C2 # {} => e.tracked
    BY DEF Books
  <1>3. ASSUME Open(e)
        PROVE  Accounted(s, e, d2, Q2, C2)
    <2>1. Accounted(s, e, d, Q, C)
      BY <1>3 DEF Books
    <2>2. e.occ \in Nat /\ e.remaining \in Nat
      BY EntryFacts
    <2>3. \A v \in s.selected : v \in Owed(s, e, d2, Q2, C2) => v \in Owed(s, e, d, Q, C)
      BY <1>0, <1>1, <2>2 DEF Owed
    <2>4. Cardinality(Owed(s, e, d2, Q2, C2)) <= Cardinality(Owed(s, e, d, Q, C))
      BY <2>3, FewerOwed
    <2>5. Cardinality(Owed(s, e, d2, Q2, C2)) <= e.remaining
      BY <2>1, <2>2, <2>4, OwedFacts DEF Accounted
    <2>6. e.lastCounted # 0 => e.lastCounted \in s.selected /\ d2[e.lastCounted].ver >= e.occ
      BY <1>0, <1>1, <2>1, <2>2 DEF Accounted
    <2>. QED  BY <2>1, <2>5, <2>6 DEF Accounted
  <1>4. ASSUME Open(e)
        PROVE  Agrees(s, e, d2, g2)
    <2>1. Agrees(s, e, d, g)
      BY <1>4 DEF Books
    <2>. QED  BY <1>4, <2>1 DEF Agrees
  <1>. QED  BY <1>2, <1>3, <1>4 DEF Books

\* A root that is not open has no account.
LEMMA BooksShut ==
    ASSUME NEW s, NEW e, NEW d, NEW Q, NEW C, NEW g, ~Open(e), Given(s) /\ C # {} => e.tracked
    PROVE  Books(s, e, d, Q, C, g)
  BY DEF Books

\* A root just begun owes what its plans have still to give.
LEMMA BooksFresh ==
    ASSUME NEW s, IsSetup(s), NEW e \in EntryIn(s), NEW d \in DocsIn(s), NEW C \in SUBSET s.selected, NEW g,
           e.tracked, e.nils = {}, e.lastCounted = 0, e.lastDoc = 0,
           e.remaining = Cardinality(C), ~e.partial => C = s.selected,
           \A v \in s.versions : d[v].ver < e.occ
    PROVE  Books(s, e, d, {}, C, g)
  <1>1. Owed(s, e, d, {}, C) \in SUBSET C /\ IsFiniteSet(C)
    BY SetFacts, FS_Subset DEF Owed
  <1>2. Cardinality(Owed(s, e, d, {}, C)) <= e.remaining
    BY <1>1, FS_Subset
  <1>3. \A u \in C : u \in Nat /\ u # 0
    BY SetFacts
  <1>4. Accounted(s, e, d, {}, C)
    BY <1>2, <1>3 DEF Accounted
  <1>5. \A v \in s.versions : d[v].ver # e.occ
    BY EntryFacts DEF DocsIn
  <1>6. Agrees(s, e, d, g)
    BY <1>5 DEF Agrees
  <1>. QED  BY <1>4, <1>6 DEF Books

\* The entry of a root whose document is queued, or whose nil counts.
WithDoc(e, v) == [e EXCEPT !.lastDoc = v]
WithNil(e, v) == [e EXCEPT !.nils = @ \cup {v}, !.remaining = @ - 1]

\* A document of the plan whose answers come is queued.
LEMMA BooksQueued ==
    ASSUME NEW s, IsSetup(s), NEW e \in EntryIn(s), NEW d \in DocsIn(s), NEW v \in s.selected,
           NEW Q \in SUBSET s.selected,
           NEW C \in SUBSET s.selected, NEW C2 \in SUBSET C, NEW g,
           v \in C, v \notin e.nils, \A u \in C2 : v <= u /\ (Given(s) => v # u),
           Open(e), Books(s, e, d, Q, C, g)
    PROVE  /\ WithDoc(e, v) \in EntryIn(s) /\ Open(WithDoc(e, v))
           /\ Books(s, WithDoc(e, v), d, Q \cup {v}, C2, g)
  <1>0. PICK e2 : e2 = WithDoc(e, v)
    OBVIOUS
  <1>11. e2 = [e EXCEPT !.lastDoc = v]
    BY <1>0 DEF WithDoc
  <1>12. PICK Q2 : Q2 = Q \cup {v}
    OBVIOUS
  <1>1. e2 \in EntryIn(s) /\ Open(e2) /\ e2.lastDoc = v /\ e2.tracked
        /\ e2.lastCounted = e.lastCounted /\ e2.nils = e.nils /\ e2.remaining = e.remaining
        /\ e2.partial = e.partial /\ e2.occ = e.occ
    BY <1>11, SetFacts DEF EntryIn, Open
  <1>2. Accounted(s, e, d, Q, C) /\ Agrees(s, e, d, g)
    BY DEF Books
  <1>3. s.selected \subseteq Nat /\ s.versions \subseteq Nat
    BY SetFacts
  <1>4. e.lastDoc \in Nat /\ e.lastCounted \in Nat /\ e.lastDoc <= v /\ e.lastCounted <= e.lastDoc
    BY <1>2, EntryFacts DEF Accounted
  <1>5. \A u \in s.selected : u \in Owed(s, e2, d, Q2, C2) => u \in Owed(s, e, d, Q, C)
    BY <1>1, <1>12 DEF Owed
  <1>6. Cardinality(Owed(s, e2, d, Q2, C2)) <= e2.remaining
    <2>1. Cardinality(Owed(s, e2, d, Q2, C2)) <= Cardinality(Owed(s, e, d, Q, C))
      BY <1>5, FewerOwed
    <2>2. /\ Cardinality(Owed(s, e2, d, Q2, C2)) \in Nat
          /\ Cardinality(Owed(s, e, d, Q, C)) \in Nat /\ e.remaining \in Nat
      BY OwedFacts, EntryFacts
    <2>. QED  BY <1>1, <1>2, <2>1, <2>2 DEF Accounted
  <1>7. \A u \in Q2 : u \notin e2.nils /\ e2.lastCounted <= u /\ u <= e2.lastDoc
    BY <1>1, <1>2, <1>3, <1>4, <1>12 DEF Accounted
  <1>8. \A u \in C2 : e2.lastDoc <= u /\ (Given(s) => e2.lastDoc # u /\ u \notin e2.nils)
    BY <1>1, <1>2 DEF Accounted
  <1>9. Accounted(s, e2, d, Q2, C2)
    BY <1>1, <1>2, <1>4, <1>6, <1>7, <1>8, <1>3 DEF Accounted
  <1>10. Agrees(s, e2, d, g)
    BY <1>1, <1>2, <1>3, <1>4 DEF Agrees
  <1>. QED  BY <1>0, <1>1, <1>9, <1>10, <1>12 DEF Books

\* A nil that contradicts nothing is owed, and then no longer.
LEMMA BooksNil ==
    ASSUME NEW s, IsSetup(s), NEW e \in EntryIn(s), NEW d \in DocsIn(s), NEW v \in s.selected,
           NEW Q \in SUBSET s.selected,
           NEW C \in SUBSET s.selected, NEW C2 \in SUBSET C, NEW g,
           v \in C, v \notin e.nils, v # e.lastDoc, Given(s) => v \notin C2,
           Open(e), Books(s, e, d, Q, C, g)
    PROVE  /\ e.remaining >= 1 /\ WithNil(e, v) \in EntryIn(s) /\ Open(WithNil(e, v))
           /\ WithNil(e, v).remaining = e.remaining - 1 /\ WithNil(e, v).lastDoc = e.lastDoc
           /\ WithNil(e, v).partial = e.partial
           /\ Books(s, WithNil(e, v), d, Q, C2, g)
  <1>0. PICK e2 : e2 = WithNil(e, v)
    OBVIOUS
  <1>1. Accounted(s, e, d, Q, C) /\ Agrees(s, e, d, g)
    BY DEF Books
  <1>2. s.selected \subseteq Nat \ {0} /\ s.versions \subseteq Nat
    BY SetFacts
  <1>3. e.lastDoc \in Nat /\ e.lastCounted \in Nat /\ e.remaining \in Nat
        /\ e.remaining <= Cardinality(s.selected) /\ Cardinality(s.selected) \in Nat
    BY EntryFacts, SetFacts
  <1>4. e.lastCounted <= e.lastDoc /\ e.lastDoc < v
    BY <1>1, <1>2, <1>3 DEF Accounted
  <1>5. v \in Owed(s, e, d, Q, C)
    BY <1>2, <1>3, <1>4 DEF Owed
  <1>6. /\ IsFiniteSet(Owed(s, e, d, Q, C)) /\ Cardinality(Owed(s, e, d, Q, C)) \in Nat
        /\ Cardinality(Owed(s, e, d, Q, C)) <= e.remaining
    BY <1>1, OwedFacts DEF Accounted
  <1>7. Cardinality(Owed(s, e, d, Q, C)) # 0
    BY <1>5, <1>6, FS_EmptySet
  <1>8. e.remaining >= 1
    BY <1>3, <1>6, <1>7
  <1>9. e2 \in EntryIn(s) /\ Open(e2) /\ e2.lastDoc = e.lastDoc /\ e2.lastCounted = e.lastCounted
        /\ e2.nils = e.nils \cup {v} /\ e2.remaining = e.remaining - 1
        /\ e2.partial = e.partial /\ e2.occ = e.occ /\ e2.tracked
    <2>1. PICK n : n = e.remaining - 1
      OBVIOUS
    <2>2. PICK N : N = e.nils \cup {v}
      OBVIOUS
    <2>3. n \in 0 .. Cardinality(s.selected) /\ N \in SUBSET s.selected
      <3>1. n \in 0 .. Cardinality(s.selected)
        BY <1>3, <1>8, <2>1
      <3>2. e.nils \in SUBSET s.selected
        BY EntryFacts
      <3>. QED  BY <2>2, <3>1, <3>2
    <2>4. e2 = [e EXCEPT !.nils = N, !.remaining = n]
      BY <1>0, <2>1, <2>2 DEF WithNil
    <2>. QED  BY <2>1, <2>2, <2>3, <2>4 DEF EntryIn, Open
  <1>10. Owed(s, e2, d, Q, C2) \in SUBSET (Owed(s, e, d, Q, C) \ {v})
    BY <1>9 DEF Owed
  <1>11. Cardinality(Owed(s, e2, d, Q, C2)) <= e2.remaining
    <2>1. /\ IsFiniteSet(Owed(s, e, d, Q, C) \ {v})
          /\ Cardinality(Owed(s, e, d, Q, C) \ {v}) = Cardinality(Owed(s, e, d, Q, C)) - 1
      BY <1>5, <1>6, FS_RemoveElement
    <2>2. Cardinality(Owed(s, e2, d, Q, C2)) <= Cardinality(Owed(s, e, d, Q, C) \ {v})
      BY <1>10, <2>1, FS_Subset
    <2>3. Cardinality(Owed(s, e2, d, Q, C2)) \in Nat
      BY OwedFacts
    <2>. QED  BY <1>3, <1>6, <1>9, <2>1, <2>2, <2>3
  <1>12. \A u \in Q : u \notin e2.nils /\ e2.lastCounted <= u /\ u <= e2.lastDoc
    BY <1>1, <1>2, <1>3, <1>4, <1>9 DEF Accounted
  <1>13. \A u \in C2 : e2.lastDoc <= u /\ (Given(s) => e2.lastDoc # u /\ u \notin e2.nils)
    BY <1>1, <1>9 DEF Accounted
  <1>14. Accounted(s, e2, d, Q, C2)
    BY <1>1, <1>9, <1>11, <1>12, <1>13 DEF Accounted
  <1>15. Agrees(s, e2, d, g)
    BY <1>1, <1>2, <1>3, <1>4, <1>9 DEF Agrees
  <1>. QED  BY <1>0, <1>8, <1>9, <1>14, <1>15 DEF Books

\* The documents of a chunk count, each plan's once.
LEMMA BooksCounted ==
    ASSUME NEW s, IsSetup(s), NEW e \in EntryIn(s), NEW d \in DocsIn(s), NEW L \in SUBSET s.selected,
           NEW Q \in SUBSET s.selected,
           NEW C \in SUBSET s.selected, NEW g,
           L \subseteq Q, \A v \in L : d[v].ver >= e.occ,
           Open(e), Books(s, e, d, Q, C, g)
    PROVE  /\ Counted(e, L) \in EntryIn(s) /\ Open(Counted(e, L)) /\ Books(s, Counted(e, L), d, {}, C, g)
           /\ Counted(e, L).nils = e.nils /\ Counted(e, L).occ = e.occ /\ Counted(e, L).partial = e.partial
           /\ Counted(e, L).lastDoc = e.lastDoc
           /\ L \ {e.lastCounted} = {} => Counted(e, L) = e
           /\ L \ {e.lastCounted} # {} =>
                 Counted(e, L).remaining = e.remaining - Cardinality(L \ {e.lastCounted})
  <1>0. PICK e2 : e2 = Counted(e, L)
    OBVIOUS
  <1>. DEFINE N == L \ {e.lastCounted}
              n == Cardinality(N)
              m == CHOOSE v \in L : \A u \in L : u <= v
  <1>1. Accounted(s, e, d, Q, C) /\ Agrees(s, e, d, g)
    BY DEF Books
  <1>2. s.selected \subseteq Nat \ {0} /\ s.selected \subseteq s.versions /\ IsFiniteSet(s.selected)
    BY SetFacts
  <1>3. e.lastDoc \in Nat /\ e.lastCounted \in Nat /\ e.remaining \in Nat /\ e.occ \in Nat
        /\ e.remaining <= Cardinality(s.selected) /\ Cardinality(s.selected) \in Nat
    BY EntryFacts, SetFacts
  <1>4. IsFiniteSet(N) /\ n \in Nat /\ (n = 0 <=> N = {}) /\ IsFiniteSet(L)
    <2>1. N \in SUBSET s.selected
      OBVIOUS
    <2>2. IsFiniteSet(N) /\ IsFiniteSet(L)
      BY <1>2, <2>1, FS_Subset
    <2>. QED  BY <2>2, FS_CardinalityType, FS_EmptySet
  <1>5. e2 = IF n = 0 THEN e ELSE [e EXCEPT !.remaining = IF n > @ THEN 0 ELSE @ - n, !.lastCounted = m]
    BY <1>0 DEF Counted
  <1>6. CASE N = {}
    <2>1. e2 = e
      BY <1>4, <1>5, <1>6
    <2>2. Books(s, e, d, {}, C, g)
      BY BooksKept
    <2>. QED  BY <1>0, <1>6, <2>1, <2>2
  <1>7. CASE N # {}
    <2>1. m \in L /\ \A u \in L : u <= m
      <3>1. \E x \in L : \A u \in L : u <= x
        BY <1>2, <1>4, <1>7, ExtremeFacts
      <3>. QED  BY <3>1
    <2>2. m \in Nat /\ m \in s.selected /\ m <= e.lastDoc /\ d[m].ver >= e.occ
      BY <1>1, <1>2, <2>1 DEF Accounted
    <2>3. N \in SUBSET Owed(s, e, d, Q, C)
      BY <1>1 DEF Owed, Accounted
    <2>4. /\ IsFiniteSet(Owed(s, e, d, Q, C)) /\ Cardinality(Owed(s, e, d, Q, C)) \in Nat
          /\ Cardinality(Owed(s, e, d, Q, C)) <= e.remaining
      BY <1>1, OwedFacts DEF Accounted
    <2>5. n <= Cardinality(Owed(s, e, d, Q, C))
      BY <2>3, <2>4, FS_Subset
    <2>. HIDE DEF m, n
    <2>6. e2 = [e EXCEPT !.remaining = e.remaining - n, !.lastCounted = m]
      <3>1. n # 0 /\ ~(n > e.remaining)
        BY <1>3, <1>4, <1>7, <2>4, <2>5
      <3>. QED  BY <1>5, <3>1
    <2>7. e2 \in EntryIn(s) /\ Open(e2) /\ e2.lastDoc = e.lastDoc /\ e2.lastCounted = m
          /\ e2.nils = e.nils /\ e2.remaining = e.remaining - n
          /\ e2.partial = e.partial /\ e2.occ = e.occ /\ e2.tracked
      <3>1. PICK k : k = e.remaining - n
        OBVIOUS
      <3>2. k \in 0 .. Cardinality(s.selected)
        BY <1>3, <1>4, <2>4, <2>5, <3>1
      <3>3. e2 = [e EXCEPT !.remaining = k, !.lastCounted = m]
        BY <2>6, <3>1
      <3>. QED  BY <2>2, <3>1, <3>2, <3>3 DEF EntryIn, Open
    <2>8. ASSUME NEW v \in s.selected, v \in Owed(s, e2, d, {}, C)
          PROVE  v \in Owed(s, e, d, Q, C) /\ v \notin N
      <3>1. v \notin e.nils /\ v # m /\ (v \in C \/ (~e.partial /\ d[v].ver < e.occ))
        BY <2>7, <2>8 DEF Owed
      <3>2. v \in Nat /\ v # 0 /\ d[v].ver \in Nat
        BY <1>2 DEF DocsIn
      <3>3. v \in C => e.lastDoc <= v
        BY <1>1 DEF Accounted
      <3>4. v \notin L
        BY <1>3, <2>1, <2>2, <3>1, <3>2, <3>3
      <3>5. v # e.lastCounted
        <4>1. SUFFICES ASSUME v = e.lastCounted
                       PROVE  FALSE
          OBVIOUS
        <4>2. d[v].ver >= e.occ
          BY <1>1, <3>2, <4>1 DEF Accounted
        <4>3. e.lastDoc <= v
          BY <1>3, <3>1, <3>2, <3>3, <4>2
        <4>4. \A u \in L : u = v
          BY <1>1, <1>2, <1>3, <4>1, <4>3 DEF Accounted
        <4>. QED  BY <1>7, <4>1, <4>4
      <3>. QED  BY <3>1, <3>4, <3>5 DEF Owed
    <2>9. Owed(s, e2, d, {}, C) \in SUBSET (Owed(s, e, d, Q, C) \ N)
      BY <2>8, OwedFacts
    <2>10. Cardinality(Owed(s, e2, d, {}, C)) <= e2.remaining
      <3>1. /\ IsFiniteSet(Owed(s, e, d, Q, C) \ N)
            /\ Cardinality(Owed(s, e, d, Q, C) \ N)
                 = Cardinality(Owed(s, e, d, Q, C)) - Cardinality(Owed(s, e, d, Q, C) \cap N)
        BY <2>4, FS_Difference
      <3>2. Owed(s, e, d, Q, C) \cap N = N
        BY <2>3
      <3>3. Cardinality(Owed(s, e2, d, {}, C)) <= Cardinality(Owed(s, e, d, Q, C) \ N)
        BY <2>9, <3>1, FS_Subset
      <3>4. Cardinality(Owed(s, e2, d, {}, C)) \in Nat
        BY OwedFacts
      <3>5. Cardinality(Owed(s, e, d, Q, C) \ N) = Cardinality(Owed(s, e, d, Q, C)) - n
        BY <3>1, <3>2 DEF n
      <3>. QED  BY <1>3, <1>4, <2>4, <2>7, <3>3, <3>4, <3>5
    <2>11. \A u \in C : e2.lastDoc <= u /\ (Given(s) => e2.lastDoc # u /\ u \notin e2.nils)
      BY <1>1, <2>7 DEF Accounted
    <2>12. Accounted(s, e2, d, {}, C)
      BY <2>2, <2>7, <2>10, <2>11 DEF Accounted
    <2>13. Agrees(s, e2, d, g)
      BY <1>1, <2>7 DEF Agrees
    <2>14. Books(s, e2, d, {}, C, g)
      BY <2>7, <2>12, <2>13 DEF Books
    <2>. QED  BY <1>0, <1>7, <2>7, <2>14 DEF n
  <1>. QED  BY <1>0, <1>6, <1>7

\* A write never lowers a document's number.
LEMMA WrittenFacts ==
    ASSUME NEW doc, doc.ver \in Nat, NEW body, NEW idx \in Nat
    PROVE  /\ Written(doc, body, idx).ver >= doc.ver /\ Written(doc, body, idx).ver >= idx
           /\ \/ Written(doc, body, idx) = doc /\ doc.ver > idx
              \/ Written(doc, body, idx) = [ver |-> idx, body |-> body]
  BY DEF Written

\* The documents of an open root are written, or deleted, at its own number:
\* what is written was queued, what is deleted was a nil or goes with the root.
LEMMA BooksWritten ==
    ASSUME NEW s, IsSetup(s), NEW e \in EntryIn(s), NEW d \in DocsIn(s), NEW d2 \in DocsIn(s),
           NEW Q \in SUBSET s.selected, NEW C, NEW g,
           \A v \in s.versions :
              \/ d2[v] = d[v]
              \/ \E b : /\ d2[v] = Written(d[v], b, e.occ)
                        /\ IF b.found THEN v \in Q ELSE v \in e.nils \/ g,
           Books(s, e, d, Q, C, g)
    PROVE  Books(s, e, d2, Q, C, g)
  <1>0. s.selected \subseteq s.versions
    BY SetFacts
  <1>1. ASSUME NEW v \in s.versions
        PROVE  /\ d[v].ver \in Nat /\ d2[v].ver \in Nat /\ d2[v].ver >= d[v].ver
               /\ \/ d2[v] = d[v]
                  \/ d2[v].ver = e.occ /\ (IF d2[v].body.found THEN v \in Q ELSE v \in e.nils \/ g)
    <2>1. d[v].ver \in Nat /\ d2[v].ver \in Nat
      BY <1>1 DEF DocsIn
    <2>2. e.occ \in Nat
      BY EntryFacts
    <2>3. CASE d2[v] = d[v]
      BY <2>1, <2>3
    <2>4. ASSUME NEW b, d2[v] = Written(d[v], b, e.occ), IF b.found THEN v \in Q ELSE v \in e.nils \/ g
          PROVE  /\ d2[v].ver >= d[v].ver
                 /\ \/ d2[v] = d[v]
                    \/ d2[v].ver = e.occ /\ (IF d2[v].body.found THEN v \in Q ELSE v \in e.nils \/ g)
      <3>1. CASE d[v].ver <= e.occ
        <4>1. d2[v] = [ver |-> e.occ, body |-> b]
          BY <2>4, <3>1 DEF Written
        <4>2. d2[v].ver = e.occ /\ d2[v].body = b
          BY <4>1
        <4>. QED  BY <2>1, <2>2, <2>4, <3>1, <4>2
      <3>2. CASE ~(d[v].ver <= e.occ)
        BY <2>1, <2>4, <3>2 DEF Written
      <3>. QED  BY <3>1, <3>2
    <2>. QED  BY <2>1, <2>3, <2>4
  <1>2. ASSUME Open(e)
        PROVE  Accounted(s, e, d2, Q, C)
    <2>1. Accounted(s, e, d, Q, C)
      BY <1>2 DEF Books
    <2>2. e.occ \in Nat /\ e.remaining \in Nat
      BY EntryFacts
    <2>3. \A v \in s.selected : v \in Owed(s, e, d2, Q, C) => v \in Owed(s, e, d, Q, C)
      BY <1>0, <1>1, <2>2 DEF Owed
    <2>4. Cardinality(Owed(s, e, d2, Q, C)) <= Cardinality(Owed(s, e, d, Q, C))
      BY <2>3, FewerOwed
    <2>5. Cardinality(Owed(s, e, d2, Q, C)) <= e.remaining
      BY <2>1, <2>2, <2>4, OwedFacts DEF Accounted
    <2>6. e.lastCounted # 0 => e.lastCounted \in s.selected /\ d2[e.lastCounted].ver >= e.occ
      BY <1>0, <1>1, <2>1, <2>2 DEF Accounted
    <2>. QED  BY <2>1, <2>5, <2>6 DEF Accounted
  <1>3. ASSUME Open(e)
        PROVE  Agrees(s, e, d2, g)
    <2>1. Agrees(s, e, d, g) /\ Accounted(s, e, d, Q, C)
      BY <1>3 DEF Books
    <2>. QED  BY <1>1, <2>1 DEF Agrees, Accounted
  <1>. QED  BY <1>2, <1>3 DEF Books

\* A root with nothing remaining has nothing to come and, unless a plan
\* omitted it, everything written but its nils.
LEMMA NothingOwed ==
    ASSUME NEW s, IsSetup(s), NEW e \in EntryIn(s), NEW d \in DocsIn(s),
           NEW Q \in SUBSET s.selected, NEW C \in SUBSET s.selected, NEW g,
           Open(e), e.remaining = 0, Books(s, e, d, Q, C, g)
    PROVE  /\ Given(s) => C = {}
           /\ ~e.partial => \A v \in s.selected : v \in e.nils \/ d[v].ver >= e.occ
  <1>1. Accounted(s, e, d, Q, C)
    BY DEF Books
  <1>2. s.selected \subseteq Nat \ {0} /\ s.selected \subseteq s.versions
    BY SetFacts
  <1>3. e.occ \in Nat /\ e.lastDoc \in Nat /\ e.lastCounted \in Nat
    BY EntryFacts
  <1>4. Owed(s, e, d, Q, C) = {}
    <2>1. /\ IsFiniteSet(Owed(s, e, d, Q, C)) /\ Cardinality(Owed(s, e, d, Q, C)) \in Nat
          /\ Cardinality(Owed(s, e, d, Q, C)) <= 0
      BY <1>1, OwedFacts DEF Accounted
    <2>2. Cardinality(Owed(s, e, d, Q, C)) = 0
      BY <2>1
    <2>. QED  BY <2>1, <2>2, FS_EmptySet
  <1>5. ASSUME Given(s), NEW u \in C
        PROVE  FALSE
    <2>1. u \notin e.nils /\ e.lastDoc <= u /\ e.lastDoc # u /\ e.lastCounted <= e.lastDoc
      BY <1>1, <1>5 DEF Accounted
    <2>2. u # e.lastCounted /\ u \in s.selected
      BY <1>2, <1>3, <2>1
    <2>. QED  BY <1>4, <2>1, <2>2 DEF Owed
  <1>6. ASSUME ~e.partial, NEW v \in s.selected, v \notin e.nils
        PROVE  d[v].ver >= e.occ
    <2>1. d[v].ver \in Nat
      BY <1>2 DEF DocsIn
    <2>2. CASE v = e.lastCounted
      BY <1>1, <1>2, <2>2 DEF Accounted
    <2>3. CASE v # e.lastCounted
      BY <1>3, <1>4, <1>6, <2>1, <2>3 DEF Owed
    <2>. QED  BY <2>2, <2>3
  <1>. QED  BY <1>5, <1>6

-----------------------------------------------------------------------------
(* The answers about a batch *)

\* Positions in a row of blocks of k.
LEMMA BlockFacts ==
    ASSUME NEW k \in Nat \ {0}, NEW n \in Nat, NEW i \in 1 .. k * n
    PROVE  /\ 1 + ((i - 1) \div k) \in 1 .. n
           /\ 1 + ((i - 1) % k) \in 1 .. k
  <1>1. (i - 1) \div k \in Int /\ (i - 1) % k \in 0 .. k - 1
        /\ i - 1 = k * ((i - 1) \div k) + ((i - 1) % k)
    OBVIOUS
  <1>2. PICK q \in Int : q = (i - 1) \div k
    BY <1>1
  <1>3. PICK m \in 0 .. k - 1 : m = (i - 1) % k
    BY <1>1
  <1>4. i - 1 = k * q + m
    BY <1>1, <1>2, <1>3
  <1>5. q >= 0 /\ q < n
    BY <1>4
  <1>. QED  BY <1>2, <1>3, <1>5

\* Within a block a later position is a later remainder.
LEMMA BlockOrder ==
    ASSUME NEW k \in Nat \ {0}, NEW i \in Nat, NEW j \in Nat, i < j, i \div k = j \div k
    PROVE  1 + (i % k) < 1 + (j % k)
  <1>1. /\ i \div k \in Int /\ i % k \in 0 .. k - 1 /\ i = k * (i \div k) + (i % k)
        /\ j % k \in 0 .. k - 1 /\ j = k * (j \div k) + (j % k)
    OBVIOUS
  <1>2. PICK q \in Int : q = i \div k
    BY <1>1
  <1>3. PICK a \in 0 .. k - 1 : a = i % k
    BY <1>1
  <1>4. PICK b \in 0 .. k - 1 : b = j % k
    BY <1>1
  <1>5. i = k * q + a /\ j = k * q + b
    BY <1>1, <1>2, <1>3, <1>4
  <1>6. a < b
    BY <1>5
  <1>. QED  BY <1>3, <1>4, <1>6

\* What the source holds is well formed, and found where its plan finds it.
LEMMA TruthFacts ==
    ASSUME TypeOK, NEW r \in Roots, NEW v \in Versions
    PROVE  /\ Truth(r, v) \in Body /\ (Truth(r, v).found <=> v \in has[r])
           /\ Truth(r, v).found => Truth(r, v).n = src[r]
  <1>1. CASE v \in has[r]
    <2>1. PICK K : K = {<<c, src[c]>> : c \in Kids}
      OBVIOUS
    <2>2. K \in SUBSET (Kids \X Nat) /\ src[r] \in Nat
      BY <2>1 DEF TypeOK, Things
    <2>3. Truth(r, v) = [found |-> TRUE, n |-> src[r], kids |-> K]
      BY <1>1, <2>1 DEF Truth
    <2>. QED  BY <1>1, <2>2, <2>3 DEF Body
  <1>2. CASE v \notin has[r]
    BY <1>2 DEF Truth, NoBody, Body
  <1>. QED  BY <1>1, <1>2

\* The answers about a root: one per plan, its nils first.
LEMMA AnswersFacts ==
    ASSUME TypeOK, NEW r \in Roots
    PROVE  /\ Answers(r) \in [1 .. Cardinality(Selected) -> Item]
           /\ \A i \in 1 .. Cardinality(Selected) :
                 /\ Answers(r)[i].id = r
                 /\ Answers(r)[i].body = Truth(r, Answers(r)[i].v)
           /\ \A i, j \in 1 .. Cardinality(Selected) : i < j =>
                 /\ Answers(r)[i].v # Answers(r)[j].v
                 /\ Answers(r)[i].body.found => Answers(r)[i].v < Answers(r)[j].v
  <1>. DEFINE nils == Selected \ has[r]
              rest == Selected \ nils
              k == Cardinality(Selected)
              m == Cardinality(nils)
              pos(v) == IF v \in nils THEN Nth(nils, v) ELSE m + Nth(rest, v)
              at(i) == CHOOSE v \in Selected : pos(v) = i
  <1>1. Selected \in SUBSET Nat /\ IsFiniteSet(Selected) /\ Selected \subseteq Versions
    BY SetupFacts, SetFacts DEF Selected, Versions
  <1>2. nils \in SUBSET Nat /\ IsFiniteSet(nils) /\ rest \in SUBSET Nat /\ IsFiniteSet(rest)
        /\ m \in Nat /\ k \in Nat /\ Cardinality(rest) = k - m
    <2>1. nils \in SUBSET Selected /\ rest \in SUBSET Selected
      OBVIOUS
    <2>2. IsFiniteSet(nils) /\ IsFiniteSet(rest)
      BY <1>1, <2>1, FS_Subset
    <2>3. Cardinality(rest) = Cardinality(Selected) - Cardinality(Selected \cap nils)
      BY <1>1, FS_Difference
    <2>4. Selected \cap nils = nils
      OBVIOUS
    <2>5. m \in Nat /\ k \in Nat
      BY <1>1, <2>2, FS_CardinalityType
    <2>. QED  BY <1>1, <2>1, <2>2, <2>3, <2>4, <2>5
  <1>3. ASSUME NEW i \in 1 .. k
        PROVE  \E v \in Selected : pos(v) = i
    <2>1. CASE i <= m
      <3>1. i \in 1 .. m
        BY <1>2, <2>1
      <3>2. PICK v \in nils : Nth(nils, v) = i
        BY <1>2, <3>1, NthFacts
      <3>. QED  BY <3>2
    <2>2. CASE ~(i <= m)
      <3>1. i - m \in 1 .. Cardinality(rest)
        BY <1>2, <2>2
      <3>2. PICK v \in rest : Nth(rest, v) = i - m
        BY <1>2, <3>1, NthFacts
      <3>3. m + Nth(rest, v) = i
        BY <1>2, <3>2
      <3>. QED  BY <3>2, <3>3
    <2>. QED  BY <2>1, <2>2
  <1>4. ASSUME NEW i \in 1 .. k
        PROVE  at(i) \in Selected /\ pos(at(i)) = i
    BY <1>3
  <1>5. Answers(r) = [i \in 1 .. k |-> [id |-> r, v |-> at(i), body |-> Truth(r, at(i))]]
    BY DEF Answers
  <1>6. ASSUME NEW a \in Selected, NEW b \in Selected, pos(a) < pos(b), a \notin nils
        PROVE  a < b
    <2>1. Nth(rest, a) \in 1 .. k - m
      BY <1>2, <1>6, NthFacts
    <2>2. b \notin nils
      <3>1. SUFFICES ASSUME b \in nils
                     PROVE  FALSE
        OBVIOUS
      <3>2. Nth(nils, b) \in 1 .. m
        BY <1>2, <3>1, NthFacts
      <3>. QED  BY <1>2, <1>6, <2>1, <3>1, <3>2
    <2>3. Nth(rest, b) \in 1 .. k - m
      BY <1>2, <2>2, NthFacts
    <2>4. Nth(rest, a) < Nth(rest, b)
      BY <1>2, <1>6, <2>1, <2>2, <2>3
    <2>5. b < a => Nth(rest, b) < Nth(rest, a)
      BY <1>2, <1>6, <2>2, NthFacts
    <2>6. a \in Nat /\ b \in Nat
      BY <1>1
    <2>. QED  BY <2>1, <2>3, <2>4, <2>5, <2>6
  <1>. HIDE DEF at, pos
  <1>7. ASSUME NEW i \in 1 .. k
        PROVE  [id |-> r, v |-> at(i), body |-> Truth(r, at(i))] \in Item
    BY <1>1, <1>4, TruthFacts DEF Item
  <1>8. ASSUME NEW i \in 1 .. k
        PROVE  Answers(r)[i].id = r /\ Answers(r)[i].v = at(i) /\ Answers(r)[i].body = Truth(r, at(i))
    BY <1>5
  <1>9. ASSUME NEW i \in 1 .. k, NEW j \in 1 .. k, i < j
        PROVE  /\ Answers(r)[i].v # Answers(r)[j].v
               /\ Answers(r)[i].body.found => Answers(r)[i].v < Answers(r)[j].v
    <2>1. at(i) \in Selected /\ pos(at(i)) = i /\ at(j) \in Selected /\ pos(at(j)) = j
      BY <1>4
    <2>2. at(i) # at(j)
      BY <1>9, <2>1
    <2>3. Answers(r)[i].body.found => at(i) \notin nils
      BY <1>1, <1>8, <2>1, TruthFacts
    <2>4. at(i) \notin nils => at(i) < at(j)
      BY <1>6, <1>9, <2>1
    <2>. QED  BY <1>8, <2>2, <2>3, <2>4
  <1>. QED  BY <1>5, <1>7, <1>8, <1>9

\* The page AskPlans makes of the answers.
BatchItems(ids) ==
    LET k == Cardinality(Selected)
        nth(i) == CHOOSE r \in ids : Nth(ids, r) = i
    IN [i \in 1 .. k * Cardinality(ids) |->
          Answers(nth(1 + ((i - 1) \div k)))[1 + ((i - 1) % k)]]

\* It answers about those ids only, what the source says, in order.
LEMMA BatchFacts ==
    ASSUME TypeOK, NEW ids \in SUBSET Roots
    PROVE  /\ BatchItems(ids) \in Seq(Item)
           /\ Ordered(BatchItems(ids))
           /\ \A it \in Range(BatchItems(ids)) : it.id \in ids /\ it.body = Truth(it.id, it.v)
  <1>. DEFINE k == Cardinality(Selected)
              n == Cardinality(ids)
              nth(i) == CHOOSE r \in ids : Nth(ids, r) = i
              a(i) == 1 + ((i - 1) \div k)
              b(i) == 1 + ((i - 1) % k)
  <1>1. k \in Nat \ {0}
    BY SetupFacts, SetFacts DEF Selected
  <1>2. ids \in SUBSET Nat /\ IsFiniteSet(ids) /\ n \in Nat
    <2>1. Roots \in SUBSET Nat /\ IsFiniteSet(Roots)
      BY SetupFacts, SetFacts DEF Roots
    <2>2. IsFiniteSet(ids)
      BY <2>1, FS_Subset
    <2>. QED  BY <2>1, <2>2, FS_CardinalityType
  <1>3. ASSUME NEW i \in 1 .. n
        PROVE  nth(i) \in ids /\ Nth(ids, nth(i)) = i
    BY <1>2, NthFacts
  <1>4. BatchItems(ids) = [i \in 1 .. k * n |-> Answers(nth(a(i)))[b(i)]]
    BY DEF BatchItems
  <1>5. k * n \in Nat
    BY <1>1, <1>2
  <1>6. ASSUME NEW i \in 1 .. k * n
        PROVE  a(i) \in 1 .. n /\ b(i) \in 1 .. k
    BY <1>1, <1>2, BlockFacts
  <1>7. ASSUME NEW i \in 1 .. k * n, NEW j \in 1 .. k * n, i < j, a(i) = a(j)
        PROVE  b(i) < b(j)
    <2>1. PICK q : q = (i - 1) \div k
      OBVIOUS
    <2>2. PICK q2 : q2 = (j - 1) \div k
      OBVIOUS
    <2>3. (i - 1) \div k \in Int /\ (j - 1) \div k \in Int
      BY <1>1, <1>5
    <2>4. 1 + q = 1 + q2 /\ q \in Int /\ q2 \in Int
      BY <1>7, <2>1, <2>2, <2>3
    <2>5. q = q2
      BY <2>4
    <2>6. (i - 1) \div k = (j - 1) \div k
      BY <2>1, <2>2, <2>5
    <2>7. i - 1 \in Nat /\ j - 1 \in Nat /\ i - 1 < j - 1
      BY <1>5, <1>7
    <2>. QED  BY <1>1, <2>6, <2>7, BlockOrder
  <1>. HIDE DEF nth, a, b, n, k
  <1>8. ASSUME NEW i \in 1 .. k * n
        PROVE  /\ BatchItems(ids)[i] = Answers(nth(a(i)))[b(i)]
               /\ BatchItems(ids)[i] \in Item /\ BatchItems(ids)[i].id = nth(a(i)) /\ nth(a(i)) \in ids
               /\ BatchItems(ids)[i].body = Truth(BatchItems(ids)[i].id, BatchItems(ids)[i].v)
    <2>1. BatchItems(ids)[i] = Answers(nth(a(i)))[b(i)]
      BY <1>4
    <2>2. a(i) \in 1 .. n /\ b(i) \in 1 .. k
      BY <1>6
    <2>3. nth(a(i)) \in ids /\ nth(a(i)) \in Roots
      BY <1>3, <2>2
    <2>4. PICK r \in Roots : r = nth(a(i))
      BY <2>3
    <2>5. PICK c \in 1 .. k : c = b(i)
      BY <2>2
    <2>6. /\ Answers(r)[c] \in Item /\ Answers(r)[c].id = r
          /\ Answers(r)[c].body = Truth(r, Answers(r)[c].v)
      BY AnswersFacts DEF k
    <2>. QED  BY <2>1, <2>3, <2>4, <2>5, <2>6
  <1>9. BatchItems(ids) \in [1 .. k * n -> Item]
    BY <1>4, <1>8
  <1>10. BatchItems(ids) \in Seq(Item)
    BY <1>5, <1>9, SeqDef
  <1>11. DOMAIN BatchItems(ids) = 1 .. k * n
    BY <1>4
  <1>12. ASSUME NEW i \in 1 .. k * n, NEW j \in 1 .. k * n, i < j,
                BatchItems(ids)[i].id = BatchItems(ids)[j].id
         PROVE  /\ BatchItems(ids)[i].v # BatchItems(ids)[j].v
                /\ BatchItems(ids)[i].body.found => BatchItems(ids)[i].v < BatchItems(ids)[j].v
    <2>1. nth(a(i)) = nth(a(j)) /\ nth(a(i)) \in Roots
      BY <1>8, <1>12
    <2>2. a(i) = a(j)
      BY <1>3, <1>6, <2>1
    <2>3. b(i) < b(j) /\ b(i) \in 1 .. k /\ b(j) \in 1 .. k
      BY <1>6, <1>7, <1>12, <2>2
    <2>4. PICK r \in Roots : r = nth(a(i))
      BY <2>1
    <2>5. BatchItems(ids)[i] = Answers(r)[b(i)] /\ BatchItems(ids)[j] = Answers(r)[b(j)]
      BY <1>8, <2>1, <2>4
    <2>. QED  BY <2>3, <2>5, AnswersFacts DEF k
  <1>13. Ordered(BatchItems(ids))
    BY <1>11, <1>12 DEF Ordered
  <1>. QED  BY <1>8, <1>10, <1>11, <1>13 DEF Range

-----------------------------------------------------------------------------
(* Types *)

Row == [present : BOOLEAN, stale : BOOLEAN, mark : Nat]
Doc == [ver : Nat, body : Body]
Edge == [stamp : Nat, kids : SUBSET Kids]

\* The next state is well typed, in the setup of this one.
TypeNext ==
    /\ used'.setup = used.setup
    /\ seq' \in Nat
    /\ src' \in [Things -> Nat] /\ has' \in [Roots -> SUBSET Versions]
    /\ notices' \subseteq Things /\ known' \in [Things -> Nat]
    /\ rows' \in [Roots -> Row]
    /\ changed' \in [Things -> Nat]
    /\ edges' \in [Roots -> [Versions -> Edge]]
    /\ docs' \in [Roots -> [Versions -> Doc]]
    /\ live' \in [Roots -> Live]
    /\ w' \in Walk
    /\ entry' \in [Roots -> Entry]
    /\ job' \in Job
    /\ used' \in Used
    /\ exposed' \subseteq Roots

\* What the type invariant says of the variables.
TypeNow ==
    /\ seq \in Nat
    /\ src \in [Things -> Nat] /\ has \in [Roots -> SUBSET Versions]
    /\ notices \subseteq Things /\ known \in [Things -> Nat]
    /\ rows \in [Roots -> Row]
    /\ changed \in [Things -> Nat]
    /\ edges \in [Roots -> [Versions -> Edge]]
    /\ docs \in [Roots -> [Versions -> Doc]]
    /\ live \in [Roots -> Live]
    /\ w \in Walk
    /\ entry \in [Roots -> Entry]
    /\ job \in Job
    /\ used \in Used
    /\ exposed \subseteq Roots

\* With the sets of records named.
LEMMA TypeFacts == TypeOK => TypeNow
  BY DEF TypeOK, TypeNow, Row, Doc, Edge

\* The sets of a setup stay while it is the same.
LEMMA SetsKept ==
    ASSUME used'.setup = used.setup
    PROVE  /\ Roots' = Roots /\ Kids' = Kids /\ Things' = Things /\ Versions' = Versions
           /\ Selected' = Selected /\ Body' = Body /\ Live' = Live /\ Walk' = Walk
           /\ Entry' = Entry /\ Job' = Job /\ Used' = Used
  <1>1. Roots' = Roots /\ Kids' = Kids /\ Things' = Things /\ Versions' = Versions /\ Selected' = Selected
    BY DEF Roots, Kids, Things, Versions, Selected
  <1>2. Body' = Body
    BY <1>1 DEF Body
  <1>3. Item' = Item
    BY <1>1, <1>2 DEF Item
  <1>4. Page' = Page
    BY <1>3 DEF Page
  <1>5. Live' = Live
    BY <1>1, <1>2 DEF Live
  <1>6. Walk' = Walk
    BY <1>1, <1>3, <1>4 DEF Walk
  <1>7. Entry' = Entry
    BY <1>1 DEF Entry
  <1>8. Job' = Job /\ Used' = Used
    BY DEF Job, Used, MaxAttempts, MaxChanges, MaxErrors, MaxCrashes
  <1>. QED  BY <1>1, <1>2, <1>5, <1>6, <1>7, <1>8

\* So the type invariant holds of the next state.
LEMMA TypeKept ==
    ASSUME TypeNext
    PROVE  TypeOK'
  BY SetsKept DEF TypeNext, TypeOK, Row, Doc, Edge

\* Entries are those of the setup.
LEMMA EntrySets ==
    Entry = EntryIn(used.setup) /\ [Versions -> [ver : Nat, body : Body]] = DocsIn(used.setup)
  BY DEF Entry, EntryIn, DocsIn, Body, Selected, Versions, Kids

\* The entries the flusher makes are well typed.
LEMMA EntryTypes ==
    ASSUME TypeOK
    PROVE  /\ NoEntry \in EntryIn(used.setup) /\ FailedEntry \in EntryIn(used.setup)
           /\ ~Open(NoEntry) /\ ~Open(FailedEntry) /\ FailedEntry.tracked /\ ~NoEntry.tracked
           /\ FailedEntry.failed /\ ~FailedEntry.settled /\ FailedEntry.occ = 0
           /\ ~NoEntry.failed /\ ~NoEntry.settled /\ NoEntry.occ = 0
  <1>1. Cardinality(used.setup.selected) \in Nat
    BY SetupFacts, SetFacts
  <1>2. 0 \in 0 .. Cardinality(used.setup.selected)
    BY <1>1
  <1>3. NoEntry \in EntryIn(used.setup)
    BY <1>2 DEF NoEntry, EntryIn
  <1>4. FailedEntry \in EntryIn(used.setup)
    BY <1>3 DEF FailedEntry, EntryIn
  <1>. QED  BY <1>3, <1>4 DEF NoEntry, FailedEntry, Open

\* The finite sets of the setup in use.
LEMMA StateSets ==
    ASSUME TypeOK
    PROVE  /\ IsSetup(used.setup) /\ Roots = used.setup.roots /\ Versions = used.setup.versions
           /\ Selected = used.setup.selected /\ Targeted = Given(used.setup)
           /\ Resumable = OnePlan(used.setup)
           /\ Roots \in SUBSET Nat /\ IsFiniteSet(Roots)
           /\ Selected \in SUBSET Nat /\ IsFiniteSet(Selected) /\ Selected \subseteq Versions
           /\ Selected # {} /\ Cardinality(Selected) \in Nat \ {0}
           /\ Versions \subseteq Nat \ {0} /\ IsFiniteSet(Versions)
           /\ \A S \in SUBSET Roots : IsFiniteSet(S) /\ Cardinality(S) \in Nat
           /\ \A S \in SUBSET Selected : IsFiniteSet(S) /\ Cardinality(S) \in 0 .. Cardinality(Selected)
  <1>1. IsSetup(used.setup)
    BY SetupFacts
  <1>2. Roots \in SUBSET Nat /\ IsFiniteSet(Roots)
        /\ Selected \in SUBSET Nat /\ IsFiniteSet(Selected) /\ Selected \subseteq Versions
        /\ Selected # {} /\ Cardinality(Selected) \in Nat \ {0}
        /\ Versions \subseteq Nat \ {0} /\ IsFiniteSet(Versions)
    BY <1>1, SetFacts DEF Roots, Selected, Versions
  <1>3. \A S \in SUBSET Roots : IsFiniteSet(S) /\ Cardinality(S) \in Nat
    BY <1>2, FS_Subset, FS_CardinalityType
  <1>4. ASSUME NEW S \in SUBSET Selected
        PROVE  IsFiniteSet(S) /\ Cardinality(S) \in 0 .. Cardinality(Selected)
    <2>1. IsFiniteSet(S) /\ Cardinality(S) <= Cardinality(Selected)
      BY <1>2, FS_Subset
    <2>2. Cardinality(S) \in Nat
      BY <2>1, FS_CardinalityType
    <2>. QED  BY <1>2, <2>1, <2>2
  <1>. QED  BY <1>1, <1>2, <1>3, <1>4
        DEF Roots, Versions, Selected, Targeted, Batches, Given, Resumable, OnePlan

\* Marks are drawn one for each row.
LEMMA MarkFacts ==
    ASSUME TypeOK, NEW S \in SUBSET Roots
    PROVE  /\ MarkedRows(S) \in [Roots -> Row]
           /\ \A r \in S : MarkedRows(S)[r].stale /\ MarkedRows(S)[r].present
           /\ \A r \in Roots \ S : MarkedRows(S)[r] = rows[r]
           /\ Cardinality(S) \in Nat /\ seq + Cardinality(S) \in Nat
  <1>1. S \in SUBSET Nat /\ IsFiniteSet(S) /\ Cardinality(S) \in Nat /\ seq \in Nat
    BY StateSets DEF TypeOK
  <1>2. ASSUME NEW r \in S
        PROVE  MarkAt(seq + Nth(S, r)) \in Row
    <2>1. PICK n : n = Nth(S, r)
      OBVIOUS
    <2>2. n \in 1 .. Cardinality(S)
      BY <1>1, <2>1, NthFacts
    <2>3. PICK m : m = seq + n
      OBVIOUS
    <2>4. m \in Nat
      BY <1>1, <2>2, <2>3
    <2>5. MarkAt(seq + Nth(S, r)) = [present |-> TRUE, stale |-> TRUE, mark |-> m]
      BY <2>1, <2>3 DEF MarkAt
    <2>6. [present |-> TRUE, stale |-> TRUE, mark |-> m] \in Row
      BY <2>4 DEF Row
    <2>. QED  BY <2>5, <2>6
  <1>3. \A r \in Roots : rows[r] \in Row
    BY DEF TypeOK, Row
  <1>4. MarkedRows(S) \in [Roots -> Row]
    BY <1>2, <1>3 DEF MarkedRows
  <1>5. \A r \in S : MarkedRows(S)[r].stale /\ MarkedRows(S)[r].present
    BY DEF MarkedRows, MarkAt
  <1>6. \A r \in Roots \ S : MarkedRows(S)[r] = rows[r]
    BY DEF MarkedRows
  <1>. QED  BY <1>1, <1>4, <1>5, <1>6

\* What a walk holds.
LEMMA WalkFacts ==
    ASSUME NEW x \in Walk
    PROVE  /\ x.page \in Seq(Item) /\ x.pending \in Seq(Item) /\ x.chunk \in Seq(Item)
           /\ x.inbox \in Seq(Page) /\ x.left \in SUBSET Selected /\ x.rejected \in SUBSET (Roots \X Selected)
           /\ x.ids \in SUBSET Roots /\ x.todo \in SUBSET Roots
           /\ x.start \in Nat /\ x.next \in Nat /\ x.no \in Nat /\ x.completed \in Nat
           /\ x.hit \in BOOLEAN /\ x.anyFailed \in BOOLEAN /\ x.markFailed \in BOOLEAN
           /\ x.pc \in {"idle", "plan", "walk", "batch", "ask", "finish",
                        "bulk", "edges", "nils", "narrow", "remark"}
           /\ x.how \in {"flush", "nil", "leave", "remove"} /\ x.ret \in {"plan", "walk", "finish"}
  BY DEF Walk

\* The walk fail leaves.
Failed(x, S, any, mark) ==
    [x EXCEPT !.pending = Without(x.pending, S), !.anyFailed = any, !.markFailed = mark]

\* It differs in its queue and in what failed.
LEMMA FailedFacts ==
    ASSUME NEW x \in Walk, NEW S, NEW any \in BOOLEAN, NEW mark \in BOOLEAN, NEW y, y = Failed(x, S, any, mark)
    PROVE  /\ y \in Walk
           /\ y.pc = x.pc /\ y.how = x.how /\ y.ret = x.ret /\ y.left = x.left /\ y.start = x.start
           /\ y.next = x.next /\ y.inbox = x.inbox /\ y.no = x.no /\ y.page = x.page
           /\ y.chunk = x.chunk /\ y.rejected = x.rejected /\ y.ids = x.ids /\ y.todo = x.todo
           /\ y.hit = x.hit /\ y.completed = x.completed
           /\ y.anyFailed = any /\ y.markFailed = mark
           /\ y.pending = Without(x.pending, S)
  <1>1. Without(x.pending, S) \in Seq(Item)
    BY WalkFacts, WithoutFacts
  <1>2. PICK q \in Seq(Item) : q = Without(x.pending, S)
    BY <1>1
  <1>3. y = [x EXCEPT !.pending = q, !.anyFailed = any, !.markFailed = mark]
    BY <1>2 DEF Failed
  <1>. QED  BY <1>2, <1>3, ZenonT(60) DEF Walk

\* fail: the roots S are forgotten but for their failure, and marked but for
\* those whose mark was lost.
FailsTo(S, base, next, lost, any, mark) ==
    /\ rows' = MarkedRows(S \ lost) /\ rows' \in [Roots -> Row]
    /\ seq' \in Nat /\ seq' >= seq
    /\ entry' \in [Roots -> Entry]
    /\ \A r \in Roots : entry'[r] = IF r \in S THEN FailedEntry ELSE base[r]
    /\ w' = Failed(next, S, any, mark) /\ w' \in Walk
    /\ mark <=> next.markFailed \/ lost # {}
    /\ used' \in Used /\ used'.setup = used.setup

\* What fail does: the failed roots are marked or their marks are lost.
LEMMA FailFacts ==
    ASSUME TypeOK, NEW S \in SUBSET Roots, NEW base \in [Roots -> Entry], NEW next \in Walk,
           NEW cost \in Nat, Fail(S, base, next, cost)
    PROVE  \E lost \in SUBSET S, any \in BOOLEAN, mark \in BOOLEAN : FailsTo(S, base, next, lost, any, mark)
  <1>1. PICK lost \in SUBSET S :
          /\ used.errors + cost + Cardinality(lost) <= MaxErrors
          /\ rows' = MarkedRows(S \ lost)
          /\ seq' = seq + Cardinality(S \ lost)
          /\ entry' = [r \in Roots |-> IF r \in S THEN FailedEntry ELSE base[r]]
          /\ w' = [next EXCEPT
                !.pending = Without(@, S),
                !.anyFailed = @ \/ S # {},
                !.markFailed = @ \/ lost # {}]
          /\ used' = [used EXCEPT !.errors = @ + cost + Cardinality(lost),
                                  !.lost = @ \/ lost # {}]
    BY DEF Fail
  <1>2. rows' \in [Roots -> Row] /\ Cardinality(S \ lost) \in Nat
    BY <1>1, MarkFacts
  <1>3. seq' \in Nat /\ seq' >= seq
    BY <1>1, <1>2 DEF TypeOK
  <1>4. entry' \in [Roots -> Entry]
    BY <1>1, EntryTypes, EntrySets
  <1>5. PICK any \in BOOLEAN, mark \in BOOLEAN :
          any = (next.anyFailed \/ S # {}) /\ mark = (next.markFailed \/ lost # {})
    OBVIOUS
  <1>6. w' = Failed(next, S, any, mark) /\ w' \in Walk
    <2>1. w' = Failed(next, S, any, mark)
      BY <1>1, <1>5 DEF Failed
    <2>. QED  BY <2>1, FailedFacts
  <1>7. used' \in Used /\ used'.setup = used.setup
    <2>1. used.errors \in Nat /\ MaxErrors \in Nat /\ Cardinality(lost) \in Nat /\ used \in Used
      <3>1. used \in Used
        BY DEF TypeOK
      <3>2. used.errors \in 0 .. MaxErrors
        BY <3>1 DEF Used
      <3>3. MaxErrors \in Nat
        BY SetupFacts DEF MaxErrors, IsSetup
      <3>. QED  BY <3>1, <3>2, <3>3, StateSets
    <2>2. PICK n : n = used.errors + cost + Cardinality(lost)
      OBVIOUS
    <2>3. n \in 0 .. MaxErrors
      BY <1>1, <2>1, <2>2
    <2>4. PICK b : b = (used.lost \/ lost # {})
      OBVIOUS
    <2>5. used' = [used EXCEPT !.errors = n, !.lost = b] /\ b \in BOOLEAN
      BY <1>1, <2>2, <2>4
    <2>. QED  BY <2>1, <2>3, <2>5 DEF Used
  <1>8. FailsTo(S, base, next, lost, any, mark)
    BY <1>1, <1>2, <1>3, <1>4, <1>5, <1>6, <1>7 DEF FailsTo
  <1>. QED  BY <1>8

\* What salvage does: the open roots are marked, or no mark is stored.
LEMMA SalvageFacts ==
    ASSUME TypeOK, NEW cost \in Nat, Salvage(cost)
    PROVE  /\ rows' \in [Roots -> Row] /\ \A r \in Roots : rows'[r] = rows[r] \/ rows'[r].stale
           /\ seq' \in Nat /\ seq' >= seq
           /\ used' \in Used /\ used'.setup = used.setup
           /\ Forget /\ Retry
  <1>. DEFINE S == {r \in Roots : Unsettled(r)}
  <1>1. S \in SUBSET Roots
    OBVIOUS
  <1>2. used.errors \in Nat /\ MaxErrors \in Nat /\ used \in Used
    <2>1. used \in Used
      BY DEF TypeOK
    <2>2. used.errors \in 0 .. MaxErrors
      BY <2>1 DEF Used
    <2>3. MaxErrors \in Nat
      BY SetupFacts DEF MaxErrors, IsSetup
    <2>. QED  BY <2>1, <2>2, <2>3
  <1>3. /\ used.errors + cost <= MaxErrors
        /\ \/ /\ rows' = MarkedRows(S) /\ seq' = seq + Cardinality(S)
              /\ used' = [used EXCEPT !.errors = @ + cost]
           \/ /\ used.errors + cost < MaxErrors
              /\ used' = [used EXCEPT !.errors = @ + cost + 1, !.lost = TRUE]
              /\ rows' = rows /\ seq' = seq
        /\ Forget /\ Retry
    BY DEF Salvage
  <1>. HIDE DEF S
  <1>4. /\ MarkedRows(S) \in [Roots -> Row] /\ Cardinality(S) \in Nat
        /\ \A r \in Roots : MarkedRows(S)[r] = rows[r] \/ MarkedRows(S)[r].stale
    BY <1>1, MarkFacts
  <1>5. rows \in [Roots -> Row] /\ seq \in Nat
    BY DEF TypeOK, Row
  <1>6. used' \in Used /\ used'.setup = used.setup
    <2>1. PICK n : n = used.errors + cost
      OBVIOUS
    <2>2. PICK m : m = used.errors + cost + 1
      OBVIOUS
    <2>3. n \in 0 .. MaxErrors /\ (used.errors + cost < MaxErrors => m \in 0 .. MaxErrors)
      BY <1>2, <1>3, <2>1, <2>2
    <2>4. CASE used' = [used EXCEPT !.errors = n]
      BY <1>2, <2>3, <2>4 DEF Used
    <2>5. CASE used' = [used EXCEPT !.errors = m, !.lost = TRUE] /\ used.errors + cost < MaxErrors
      BY <1>2, <2>3, <2>5 DEF Used
    <2>. QED  BY <1>3, <2>1, <2>2, <2>4, <2>5
  <1>. QED  BY <1>3, <1>4, <1>5, <1>6

\* Handing the queue to the flusher.
LEMMA FlushingFacts ==
    ASSUME NEW x \in Walk, NEW ret \in {"plan", "walk", "finish"}, NEW y, y = Flushing(x, ret)
    PROVE  /\ y \in Walk
           /\ y.left = x.left /\ y.start = x.start /\ y.next = x.next /\ y.inbox = x.inbox
           /\ y.no = x.no /\ y.page = x.page /\ y.rejected = x.rejected /\ y.todo = x.todo
           /\ y.hit = x.hit /\ y.completed = x.completed /\ y.anyFailed = x.anyFailed
           /\ y.markFailed = x.markFailed
           /\ x.pending = <<>> => /\ y.pc = ret /\ y.how = x.how /\ y.ret = x.ret /\ y.chunk = x.chunk
                                  /\ y.pending = <<>> /\ y.ids = x.ids
           /\ x.pending # <<>> => /\ y.pc = "bulk" /\ y.how = "flush" /\ y.ret = ret
                                  /\ y.chunk = x.pending /\ y.pending = <<>> /\ y.ids = IdsIn(x.pending)
  <1>1. CASE x.pending = <<>>
    BY <1>1, ZenonT(60) DEF Walk, Flushing
  <1>2. CASE x.pending # <<>>
    <2>1. PICK I : I = IdsIn(x.pending)
      OBVIOUS
    <2>2. PICK q \in Seq(Item) : q = x.pending
      BY WalkFacts
    <2>3. I \in SUBSET Roots
      <3>0. Range(q) \in SUBSET Item
        BY RangeOfSeq
      <3>1. \A it \in Range(q) : it.id \in Roots
        BY <3>0 DEF Item
      <3>2. \A i \in DOMAIN q : q[i] \in Range(q)
        BY DEF Range
      <3>. QED  BY <2>1, <2>2, <3>1, <3>2 DEF IdsIn
    <2>4. PICK q0 : q0 = <<>>
      OBVIOUS
    <2>5. q0 \in Seq(Item)
      BY <2>4
    <2>6. y = [x EXCEPT !.pc = "bulk", !.how = "flush", !.ret = ret, !.chunk = q, !.pending = q0, !.ids = I]
      BY <1>2, <2>1, <2>2, <2>4 DEF Flushing
    <2>7. y \in Walk
      BY <2>3, <2>5, <2>6, ZenonT(60) DEF Walk
    <2>8. /\ y.left = x.left /\ y.start = x.start /\ y.next = x.next /\ y.inbox = x.inbox
          /\ y.no = x.no /\ y.page = x.page /\ y.rejected = x.rejected /\ y.todo = x.todo
          /\ y.hit = x.hit /\ y.completed = x.completed /\ y.anyFailed = x.anyFailed
          /\ y.markFailed = x.markFailed
          /\ y.pc = "bulk" /\ y.how = "flush" /\ y.ret = ret /\ y.chunk = q /\ y.pending = q0 /\ y.ids = I
      BY <2>6 DEF Walk
    <2>. QED  BY <1>2, <2>1, <2>2, <2>4, <2>7, <2>8
  <1>. QED  BY <1>1, <1>2

\* A write of a well-formed body is a document, and of an edge set a set.
LEMMA WriteTypes ==
    /\ \A doc \in Doc, b \in Body, i \in Nat : Written(doc, b, i) \in Doc
    /\ \A set \in Edge, K \in SUBSET Kids, i \in Nat :
          ReplacedSet(set, i, K) \in Edge /\ RemovedSet(set, i) \in Edge
    /\ \A b \in Body : Names(b) \in SUBSET Kids
    /\ NoBody \in Body
  BY DEF Written, ReplacedSet, RemovedSet, NoEdges, Names, Body, NoBody, Doc, Edge

\* The rows the operations write are well typed.
LEMMA RowTypes ==
    /\ NoRow \in Row /\ \A n \in Nat : MarkAt(n) \in Row
    /\ \A row \in Row, m \in Nat : ClearedRow(row, m) \in Row
  BY DEF NoRow, MarkAt, Row, ClearedRow

\* Changes at the source and their registration.
LEMMA TypeSource ==
    ASSUME TypeOK, \/ \E r \in Roots : ChangeRoot(r) \/ LiveBegin(r)
                   \/ \E c \in Kids : ChangeKid(c)
                   \/ \E y \in Things : Register(y)
    PROVE  TypeNext
  <1>. TypeNow
    BY TypeFacts
  <1>1. used \in Used /\ used.changes \in Nat /\ MaxChanges \in Nat
    <2>1. used \in Used
      BY DEF TypeNow
    <2>2. used.changes \in 0 .. MaxChanges
      BY <2>1 DEF Used
    <2>3. MaxChanges \in Nat
      BY SetupFacts DEF MaxChanges, IsSetup
    <2>. QED  BY <2>1, <2>2, <2>3
  <1>2. ASSUME Spend("changes"), used.changes < MaxChanges
        PROVE  used' \in Used /\ used'.setup = used.setup
    <2>1. PICK n : n = used.changes + 1
      OBVIOUS
    <2>2. n \in 0 .. MaxChanges /\ used' = [used EXCEPT !.changes = n]
      <3>1. n \in 0 .. MaxChanges
        BY <1>1, <1>2, <2>1
      <3>2. used' = [used EXCEPT !["changes"] = n]
        BY <1>2, <2>1 DEF Spend
      <3>. QED  BY <3>1, <3>2
    <2>. QED  BY <1>1, <2>2 DEF Used
  <1>3. ASSUME NEW r \in Roots, ChangeRoot(r)
        PROVE  TypeNext
    <2>1. Existences \subseteq SUBSET Versions
      BY SetupFacts DEF IsSetup, Existences, Versions
    <2>2. has' \in [Roots -> SUBSET Versions] /\ src' \in [Things -> Nat] /\ notices' \subseteq Things
      <3>1. PICK vs \in Existences : has' = [has EXCEPT ![r] = vs]
        BY <1>3 DEF ChangeRoot
      <3>2. has' \in [Roots -> SUBSET Versions]
        BY <2>1, <3>1 DEF TypeNow
      <3>3. src' \in [Things -> Nat] /\ notices' \subseteq Things
        BY <1>3 DEF ChangeRoot, TypeNow, Things
      <3>. QED  BY <3>2, <3>3
    <2>. QED  BY <1>2, <1>3, <2>2 DEF ChangeRoot, TypeNow, TypeNext, store
  <1>4. ASSUME NEW c \in Kids, ChangeKid(c)
        PROVE  TypeNext
    <2>1. src' \in [Things -> Nat] /\ notices' \subseteq Things
      BY <1>4 DEF ChangeKid, TypeNow, Things
    <2>. QED  BY <1>2, <1>4, <2>1 DEF ChangeKid, TypeNow, TypeNext, store
  <1>5. ASSUME NEW r \in Roots, LiveBegin(r)
        PROVE  TypeNext
    <2>1. [v \in Versions |-> Truth(r, v)] \in [Versions -> Body]
      BY TruthFacts
    <2>2. PICK n : n = seq + 1
      OBVIOUS
    <2>3. PICK o \in [Versions -> Body] : o = [v \in Versions |-> Truth(r, v)]
      BY <2>1
    <2>4. n \in Nat /\ rows[r].mark \in Nat
      BY <2>2 DEF TypeNow, Row
    <2>5. [idx |-> n, mark |-> rows[r].mark, out |-> o] \in Live
      BY <2>4 DEF Live
    <2>6. live' = [live EXCEPT ![r] = [idx |-> n, mark |-> rows[r].mark, out |-> o]] /\ seq' = n
      BY <1>5, <2>2, <2>3 DEF LiveBegin
    <2>7. live' \in [Roots -> Live]
      BY <2>5, <2>6 DEF TypeNow
    <2>. QED  BY <1>5, <2>4, <2>6, <2>7 DEF LiveBegin, TypeNow, TypeNext, source, store
  <1>6. ASSUME NEW y \in Things, Register(y)
        PROVE  TypeNext
    <2>. DEFINE parents == {r \in Roots : \E v \in Versions : y \in edges[r][v].kids}
    <2>1. parents \in SUBSET Nat /\ IsFiniteSet(parents) /\ Cardinality(parents) \in Nat /\ seq \in Nat
      <3>1. parents \in SUBSET Roots
        OBVIOUS
      <3>. QED  BY <3>1, StateSets DEF TypeNow
    <2>2. \A n \in Nat : MarkAt(n) \in Row
      BY DEF MarkAt, Row
    <2>3. \A r \in parents : seq + 1 + Nth(parents, r) \in Nat
      <3>1. \A r \in parents : Nth(parents, r) \in 1 .. Cardinality(parents)
        BY <2>1, NthFacts
      <3>. QED  BY <2>1, <3>1
    <2>4. seq + 1 \in Nat /\ seq + 1 + Cardinality(parents) \in Nat
      BY <2>1
    <2>5. rows' = [r \in Roots |->
             IF r \in {y} \cap Roots THEN MarkAt(seq + 1)
             ELSE IF r \in parents THEN MarkAt(seq + 1 + Nth(parents, r)) ELSE rows[r]]
      BY <1>6 DEF Register
    <2>6. rows' \in [Roots -> Row]
      <3>1. ASSUME NEW r \in Roots
            PROVE  rows'[r] \in Row
        <4>1. rows[r] \in Row
          BY DEF TypeNow
        <4>2. MarkAt(seq + 1) \in Row /\ (r \in parents => MarkAt(seq + 1 + Nth(parents, r)) \in Row)
          BY <2>2, <2>3, <2>4
        <4>. HIDE DEF parents
        <4>. QED  BY <2>5, <4>1, <4>2
      <3>. QED  BY <2>5, <3>1
    <2>7. changed' \in [Things -> Nat] /\ known' \in [Things -> Nat] /\ notices' \subseteq Things
      BY <1>6, <2>4 DEF Register, TypeNow
    <2>8. seq' \in Nat
      BY <1>6, <2>4 DEF Register
    <2>. QED  BY <1>6, <2>6, <2>7, <2>8 DEF Register, TypeNow, TypeNext
  <1>. QED  BY <1>3, <1>4, <1>5, <1>6

\* The end of a live build.
LEMMA TypeLiveEnd ==
    ASSUME TypeOK, NEW r \in Roots, LiveEnd(r)
    PROVE  TypeNext
  <1>. TypeNow
    BY TypeFacts
  <1>. DEFINE b == live[r]
              gone == \A v \in Versions : ~b.out[v].found
              drifted == ~gone /\ \E c \in Kids : changed[c] > b.idx
              drops == gone /\ DropsRow(rows[r], b.mark)
  <1>1. b \in Live /\ b.idx \in Nat /\ b.mark \in Nat /\ \A v \in Versions : b.out[v] \in Body
    BY DEF TypeNow, Live
  <1>2. docs' \in [Roots -> [Versions -> Doc]]
    <2>1. docs' = [docs EXCEPT ![r] = [v \in Versions |-> Written(@[v], b.out[v], b.idx)]]
      BY DEF LiveEnd
    <2>2. \A v \in Versions : Written(docs[r][v], b.out[v], b.idx) \in Doc
      BY <1>1, WriteTypes DEF TypeNow
    <2>. QED  BY <2>1, <2>2 DEF TypeNow
  <1>3. edges' \in [Roots -> [Versions -> Edge]]
    <2>1. edges' = [edges EXCEPT ![r] = [v \in Versions |->
             IF gone THEN RemovedSet(@[v], b.idx) ELSE ReplacedSet(@[v], b.idx, Names(b.out[v]))]]
      BY DEF LiveEnd
    <2>2. \A v \in Versions : /\ RemovedSet(edges[r][v], b.idx) \in Edge
                              /\ ReplacedSet(edges[r][v], b.idx, Names(b.out[v])) \in Edge
      BY <1>1, WriteTypes DEF TypeNow
    <2>. HIDE DEF gone
    <2>. QED  BY <2>1, <2>2 DEF TypeNow
  <1>4. rows' \in [Roots -> Row]
    <2>1. rows' = [rows EXCEPT ![r] =
             IF drops THEN NoRow ELSE IF drifted THEN MarkAt(seq + 1)
             ELSE IF gone \/ ~@.present THEN @ ELSE ClearedRow(@, b.mark)]
      BY Zenon DEF LiveEnd
    <2>2. NoRow \in Row /\ MarkAt(seq + 1) \in Row
      BY RowTypes DEF TypeNow
    <2>3. rows \in [Roots -> Row]
      BY DEF TypeNow
    <2>4. rows[r] \in Row /\ ClearedRow(rows[r], b.mark) \in Row
      BY <1>1, <2>3, RowTypes
    <2>. HIDE DEF drops, drifted, gone, b
    <2>. QED  BY <2>1, <2>2, <2>3, <2>4
  <1>5. seq' \in Nat /\ changed' \in [Things -> Nat] /\ exposed' \subseteq Roots
    BY DEF LiveEnd, TypeNow, Things
  <1>6. live' \in [Roots -> Live]
    <2>1. NoLive \in Live
      BY WriteTypes DEF NoLive, Live
    <2>. QED  BY <2>1 DEF LiveEnd, TypeNow
  <1>. QED  BY <1>2, <1>3, <1>4, <1>5, <1>6 DEF LiveEnd, TypeNow, TypeNext, source

-----------------------------------------------------------------------------
(* What the steps of the walk leave *)

\* The elements of a queue of items.
LEMMA ItemFacts ==
    ASSUME TypeOK, NEW q \in Seq(Item)
    PROVE  /\ Range(q) \in SUBSET Item
           /\ IdsIn(q) \in SUBSET Roots
           /\ \A r : Of(q, r) \in SUBSET Selected
           /\ \A it \in Range(q) : it.id \in Roots /\ it.v \in Selected /\ it.v \in Versions /\ it.body \in Body
  <1>1. Range(q) \in SUBSET Item
    BY RangeOfSeq
  <1>2. \A it \in Range(q) : it.id \in Roots /\ it.v \in Selected /\ it.body \in Body
    BY <1>1 DEF Item
  <1>3. \A i \in DOMAIN q : q[i] \in Range(q)
    BY DEF Range
  <1>4. IdsIn(q) \in SUBSET Roots
    BY <1>2, <1>3 DEF IdsIn
  <1>5. \A r : Of(q, r) \in SUBSET Selected
    BY <1>2 DEF Of
  <1>6. Selected \subseteq Versions
    BY StateSets
  <1>. QED  BY <1>1, <1>2, <1>4, <1>5, <1>6

\* The plan of a walk whose pipeline runs.
LEMMA PlanFacts ==
    ASSUME TypeOK, Placed(used.setup, w), w.start # 0
    PROVE  /\ ~Targeted /\ ~Given(used.setup) /\ At(w) = "walk" /\ w.left # {}
           /\ Plan = LeastOf(w.left) /\ Plan \in w.left /\ Plan \in Selected /\ Plan \in Versions
           /\ \A u \in w.left : Plan <= u
           /\ Pages[Plan] \in Seq(Seq(Roots)) /\ Len(Pages[Plan]) \in Nat
           /\ Pages[Plan] = used.setup.pages[Plan]
  <1>1. ~Given(used.setup) /\ At(w) = "walk" /\ w.left # {}
    BY DEF Placed
  <1>2. w.left \in SUBSET Selected /\ Selected \in SUBSET Nat /\ Selected \subseteq Versions
        /\ Targeted = Given(used.setup) /\ \A S \in SUBSET Selected : IsFiniteSet(S)
    BY StateSets, WalkFacts DEF TypeOK
  <1>3. w.left \in SUBSET Nat /\ IsFiniteSet(w.left)
    BY <1>2
  <1>4. LeastOf(w.left) \in w.left /\ \A u \in w.left : LeastOf(w.left) <= u
    BY <1>1, <1>3, ExtremeFacts
  <1>5. Pages \in [Selected -> Seq(Seq(Roots))]
    BY SetupFacts DEF IsSetup, Pages, Selected, Roots
  <1>6. Plan \in Selected /\ Plan \in w.left
    BY <1>2, <1>4 DEF Plan
  <1>7. Pages[Plan] \in Seq(Seq(Roots))
    BY <1>5, <1>6
  <1>8. Len(Pages[Plan]) \in Nat
    BY <1>7, LenProperties
  <1>. QED  BY <1>1, <1>2, <1>4, <1>6, <1>7, <1>8 DEF Plan, Pages

\* A page the pipeline fetches: the roots listed with what the source holds of
\* them; those omitted the plan does not find.
LEMMA FetchFacts ==
    ASSUME TypeOK, Placed(used.setup, w), FetchPage
    PROVE  \E items \in Seq(Item) :
              /\ w.next \in 1 .. Len(Pages[Plan])
              /\ w' = [w EXCEPT !.next = w.next + 1,
                                !.inbox = Append(w.inbox, [no |-> w.next, items |-> items])]
              /\ w' \in Walk /\ [no |-> w.next, items |-> items] \in Page
              /\ \A it \in Range(items) : it.v = Plan /\ it.body = Truth(it.id, Plan)
              /\ \A r \in Range(Pages[Plan][w.next]) : r \in IdsIn(items) \/ Plan \notin has[r]
  <1>. DEFINE ids == Pages[Plan][w.next]
              at(om) == {i \in DOMAIN ids : ids[i] \notin om}
              listed(om) == Picked(ids, at(om))
              its(om) == [i \in DOMAIN listed(om) |->
                             [id |-> listed(om)[i], v |-> Plan, body |-> Truth(listed(om)[i], Plan)]]
  <1>1. /\ Plan \in Selected /\ Plan \in Versions /\ Pages[Plan] \in Seq(Seq(Roots))
        /\ Len(Pages[Plan]) \in Nat
    BY PlanFacts DEF FetchPage
  <1>2. w \in Walk /\ w.next \in Nat /\ w.next <= Len(Pages[Plan]) /\ w.inbox \in Seq(Page)
    BY WalkFacts DEF TypeOK, FetchPage
  <1>3. PICK om \in SUBSET {r \in Roots : Plan \notin has[r]} :
          /\ om \subseteq {ids[i] : i \in DOMAIN ids}
          /\ w' = [w EXCEPT !.next = @ + 1, !.inbox = Append(@, [no |-> w.next, items |-> its(om)])]
    BY DEF FetchPage
  <1>4. w.next \in 1 .. Len(Pages[Plan])
    BY <1>1, <1>2 DEF Placed
  <1>5. QED
    <2>1. w.next \in 1 .. Len(Pages[Plan])
      BY <1>4
    <2>2. ids \in Seq(Roots)
      BY <1>1, <2>1, ElementOfSeq
    <2>3. at(om) \in SUBSET DOMAIN ids
      OBVIOUS
    <2>4. listed(om) \in Seq(Roots) /\ Range(listed(om)) = {ids[i] : i \in at(om)}
      <3>. HIDE DEF at, ids
      <3>. QED  BY <2>2, <2>3, PickedFacts
    <2>5. PICK L \in Seq(Roots) : L = listed(om)
      BY <2>4
    <2>6. DOMAIN L = 1 .. Len(L) /\ Len(L) \in Nat /\ \A i \in DOMAIN L : L[i] \in Roots
      BY LenProperties, ElementOfSeq
    <2>7. its(om) = [i \in 1 .. Len(L) |-> [id |-> L[i], v |-> Plan, body |-> Truth(L[i], Plan)]]
      BY <2>5, <2>6
    <2>. HIDE DEF listed, its
    <2>8. \A i \in 1 .. Len(L) : [id |-> L[i], v |-> Plan, body |-> Truth(L[i], Plan)] \in Item
      <3>1. ASSUME NEW i \in 1 .. Len(L)
            PROVE  [id |-> L[i], v |-> Plan, body |-> Truth(L[i], Plan)] \in Item
        <4>1. L[i] \in Roots
          BY <2>6
        <4>2. Truth(L[i], Plan) \in Body
          BY <1>1, <4>1, TruthFacts
        <4>. QED  BY <1>1, <4>1, <4>2 DEF Item
      <3>. QED  BY <3>1
    <2>9. its(om) \in [1 .. Len(L) -> Item]
      BY <2>7, <2>8
    <2>10. its(om) \in Seq(Item)
      BY <2>6, <2>9, SeqDef
    <2>11. PICK items \in Seq(Item) : items = its(om)
      BY <2>10
    <2>12. DOMAIN items = 1 .. Len(L) /\ \A i \in 1 .. Len(L) :
              items[i].id = L[i] /\ items[i].v = Plan /\ items[i].body = Truth(items[i].id, Plan)
      BY <2>7, <2>11
    <2>13. \A it \in Range(items) : it.v = Plan /\ it.body = Truth(it.id, Plan)
      BY <2>12 DEF Range
    <2>14. ASSUME NEW r \in Range(ids)
           PROVE  r \in IdsIn(items) \/ Plan \notin has[r]
      <3>1. CASE r \in om
        BY <3>1
      <3>2. CASE r \notin om
        <4>1. r \in {ids[i] : i \in at(om)}
          BY <3>2 DEF Range
        <4>2. r \in Range(L)
          BY <2>4, <2>5, <4>1
        <4>3. PICK i \in 1 .. Len(L) : r = L[i]
          BY <2>6, <4>2 DEF Range
        <4>. QED  BY <2>12, <4>3 DEF IdsIn
      <3>. QED  BY <3>1, <3>2
    <2>15. PICK p : p = [no |-> w.next, items |-> items]
      OBVIOUS
    <2>16. p \in Page
      BY <1>2, <2>15 DEF Page
    <2>17. PICK B \in Seq(Page) : B = Append(w.inbox, p)
      BY <1>2, <2>16, AppendFacts
    <2>18. PICK n \in Nat : n = w.next + 1
      BY <1>2
    <2>19. w' = [w EXCEPT !.next = n, !.inbox = B]
      BY <1>3, <2>11, <2>15, <2>17, <2>18
    <2>20. w' \in Walk
      BY <1>2, <2>19, ZenonT(60) DEF Walk
    <2>. QED  BY <2>1, <2>13, <2>14, <2>15, <2>16, <2>17, <2>18, <2>19, <2>20 DEF ids

\* The documents of a chunk.
LEMMA ChunkFacts ==
    ASSUME TypeOK
    PROVE  /\ ChunkKeys \in SUBSET (Roots \X Selected) /\ IsFiniteSet(ChunkKeys)
           /\ \A r, v : <<r, v>> \in ChunkKeys <=> v \in Of(w.chunk, r)
           /\ \A r, v : <<r, v>> \in ChunkKeys =>
                 \E it \in Range(w.chunk) : it.id = r /\ it.v = v /\ ChunkBody(r, v) = it.body
           /\ \A k \in ChunkKeys : k[1] \in IdsIn(w.chunk)
           /\ \A S \in SUBSET ChunkKeys : IsFiniteSet(S) /\ Cardinality(S) \in Nat
  <1>1. w.chunk \in Seq(Item)
    BY WalkFacts DEF TypeOK
  <1>2. PICK q \in Seq(Item) : q = w.chunk
    BY <1>1
  <1>3. DOMAIN q = 1 .. Len(q) /\ Len(q) \in Nat /\ \A i \in DOMAIN q : q[i] \in Range(q)
    BY LenProperties DEF Range
  <1>4. \A it \in Range(q) : it.id \in Roots /\ it.v \in Selected
    BY ItemFacts
  <1>5. ChunkKeys = {<<it.id, it.v>> : it \in Range(q)}
    BY <1>2 DEF ChunkKeys, Range
  <1>6. ChunkKeys \in SUBSET (Roots \X Selected)
    BY <1>4, <1>5
  <1>7. IsFiniteSet(ChunkKeys)
    <2>1. IsFiniteSet(Roots \X Selected)
      BY StateSets, FS_Product
    <2>. QED  BY <1>6, <2>1, FS_Subset
  <1>8. \A r, v : <<r, v>> \in ChunkKeys <=> v \in Of(w.chunk, r)
    BY <1>2, <1>5 DEF Of
  <1>9. ASSUME NEW r, NEW v, <<r, v>> \in ChunkKeys
        PROVE  \E it \in Range(w.chunk) : it.id = r /\ it.v = v /\ ChunkBody(r, v) = it.body
    <2>. DEFINE at == {i \in DOMAIN q : q[i].id = r /\ q[i].v = v}
                m == CHOOSE i \in at : \A j \in at : j <= i
    <2>1. at \in SUBSET Nat /\ IsFiniteSet(at)
      <3>1. at \in SUBSET (1 .. Len(q)) /\ IsFiniteSet(1 .. Len(q))
        BY <1>3, FS_Interval
      <3>. HIDE DEF at
      <3>2. IsFiniteSet(at)
        BY <3>1, FS_Subset
      <3>3. 1 .. Len(q) \subseteq Nat
        BY <1>3
      <3>. QED  BY <3>1, <3>2, <3>3
    <2>2. at # {}
      <3>1. PICK it \in Range(q) : it.id = r /\ it.v = v
        BY <1>5, <1>9
      <3>2. PICK i \in DOMAIN q : it = q[i]
        BY DEF Range
      <3>. QED  BY <3>1, <3>2
    <2>3. \E i \in at : \A j \in at : j <= i
      <3>. HIDE DEF at
      <3>. QED  BY <2>1, <2>2, ExtremeFacts
    <2>4. m \in at
      BY <2>3
    <2>5. ChunkBody(r, v) = q[m].body
      BY <1>2 DEF ChunkBody
    <2>. HIDE DEF m
    <2>6. q[m] \in Range(q) /\ q[m].id = r /\ q[m].v = v
      BY <1>3, <2>4
    <2>. QED  BY <1>2, <2>5, <2>6
  <1>10. \A k \in ChunkKeys : k[1] \in IdsIn(w.chunk)
    BY <1>2, <1>5 DEF IdsIn, Range
  <1>11. \A S \in SUBSET ChunkKeys : IsFiniteSet(S) /\ Cardinality(S) \in Nat
    BY <1>7, FS_Subset, FS_CardinalityType
  <1>. QED  BY <1>6, <1>7, <1>8, <1>9, <1>10, <1>11

\* What a bulk request leaves of the documents.
LEMMA UpsertFacts ==
    ASSUME TypeOK, NEW keys \in SUBSET ChunkKeys
    PROVE  /\ Upserted(keys) \in [Roots -> [Versions -> Doc]]
           /\ \A r \in Roots, v \in Versions :
                 IF <<r, v>> \in keys
                 THEN \E it \in Range(w.chunk) :
                        /\ it.id = r /\ it.v = v
                        /\ Upserted(keys)[r][v] = Written(docs[r][v], it.body, entry[r].occ)
                 ELSE Upserted(keys)[r][v] = docs[r][v]
  <1>1. \A r \in Roots, v \in Versions :
           Upserted(keys)[r][v] = IF <<r, v>> \in keys THEN Written(docs[r][v], ChunkBody(r, v), entry[r].occ)
                                  ELSE docs[r][v]
    BY DEF Upserted
  <1>2. ASSUME NEW r \in Roots, NEW v \in Versions, <<r, v>> \in keys
        PROVE  \E it \in Range(w.chunk) : it.id = r /\ it.v = v /\ ChunkBody(r, v) = it.body
    BY <1>2, ChunkFacts
  <1>3. ASSUME NEW r \in Roots, NEW v \in Versions
        PROVE  Upserted(keys)[r][v] \in Doc
    <2>1. docs[r][v] \in Doc /\ entry[r] \in Entry
      BY TypeFacts DEF TypeNow
    <2>2. entry[r].occ \in Nat
      BY <2>1 DEF Entry
    <2>3. <<r, v>> \in keys => ChunkBody(r, v) \in Body
      <3>1. w.chunk \in Seq(Item)
        BY WalkFacts DEF TypeOK
      <3>. QED  BY <1>2, <3>1, ItemFacts
    <2>4. <<r, v>> \in keys => Written(docs[r][v], ChunkBody(r, v), entry[r].occ) \in Doc
      BY <2>1, <2>2, <2>3, WriteTypes
    <2>. QED  BY <1>1, <2>1, <2>4
  <1>4. Upserted(keys) \in [Roots -> [Versions -> Doc]]
    <2>1. Upserted(keys) = [r \in Roots |-> [v \in Versions |-> Upserted(keys)[r][v]]]
      BY DEF Upserted
    <2>. QED  BY <1>3, <2>1
  <1>. QED  BY <1>1, <1>2, <1>4

\* What a delete at the given versions leaves of the documents.
LEMMA DeletedFacts ==
    ASSUME TypeOK, NEW r \in Roots, NEW vs \in SUBSET Versions
    PROVE  /\ Deleted(r, vs) \in [Roots -> [Versions -> Doc]]
           /\ \A q \in Roots, v \in Versions :
                 Deleted(r, vs)[q][v] = IF q = r /\ v \in vs
                                        THEN Written(docs[r][v], NoBody, entry[r].occ)
                                        ELSE docs[q][v]
  <1>1. docs \in [Roots -> [Versions -> Doc]] /\ entry[r] \in Entry
    BY TypeFacts DEF TypeNow
  <1>2. entry[r].occ \in Nat
    BY <1>1 DEF Entry
  <1>3. \A v \in Versions : Written(docs[r][v], NoBody, entry[r].occ) \in Doc
    BY <1>1, <1>2, WriteTypes
  <1>4. Deleted(r, vs) = [docs EXCEPT ![r] = [v \in Versions |->
            IF v \in vs THEN Written(docs[r][v], NoBody, entry[r].occ) ELSE docs[r][v]]]
    BY DEF Deleted
  <1>5. [v \in Versions |-> IF v \in vs THEN Written(docs[r][v], NoBody, entry[r].occ) ELSE docs[r][v]]
           \in [Versions -> Doc]
    BY <1>1, <1>3
  <1>6. Deleted(r, vs) \in [Roots -> [Versions -> Doc]]
    BY <1>1, <1>4, <1>5
  <1>7. ASSUME NEW q \in Roots, NEW v \in Versions
        PROVE  Deleted(r, vs)[q][v] = IF q = r /\ v \in vs
                                      THEN Written(docs[r][v], NoBody, entry[r].occ)
                                      ELSE docs[q][v]
    BY <1>1, <1>4
  <1>. QED  BY <1>6, <1>7

-----------------------------------------------------------------------------
(* Types: the attempts and the loop *)

\* An attempt that ends forgets everything.
LEMMA ForgetTypes ==
    ASSUME TypeOK, Forget
    PROVE  w' \in Walk /\ w' = IdleWalk /\ entry' \in [Roots -> Entry] /\ \A r \in Roots : entry'[r] = NoEntry
  <1>1. IdleWalk \in Walk
    BY DEF IdleWalk, Walk
  <1>2. NoEntry \in Entry
    BY EntryTypes, EntrySets
  <1>. QED  BY <1>1, <1>2 DEF Forget

\* An error is retried or ends the activity.
LEMMA RetryTypes ==
    ASSUME TypeOK, Retry
    PROVE  /\ job' \in Job /\ job'.latest = job.latest /\ job'.recorded = job.recorded
           /\ job'.attempts = job.attempts
           /\ job'.outcome = "running" => job'.attempts < MaxAttempts
  <1>1. job \in Job /\ MaxAttempts \in Nat
    BY SetupFacts DEF TypeOK, MaxAttempts, IsSetup
  <1>2. job.attempts \in 0 .. MaxAttempts
    BY <1>1 DEF Job
  <1>3. CASE job.attempts = MaxAttempts
    BY <1>1, <1>3 DEF Retry, Job
  <1>4. CASE job.attempts # MaxAttempts
    <2>1. job' = [job EXCEPT !.outcome = "running"]
      BY <1>4 DEF Retry
    <2>. QED  BY <1>1, <1>2, <1>4, <2>1 DEF Job
  <1>. QED  BY <1>3, <1>4

\* The attempts of the activity, but for finish.
LEMMA TypeAttempts ==
    ASSUME TypeOK, Cursor(used.setup, w, job), StartAttempt \/ Beat \/ Crash \/ Abort \/ BulkFails \/ Rest
    PROVE  TypeNext
  <1>. TypeNow
    BY TypeFacts
  <1>. USE DEF TypeNow
  <1>1. job.latest \in Nat /\ job.recorded \in Nat /\ job.attempts \in 0 .. MaxAttempts /\ MaxAttempts \in Nat
    BY SetupFacts DEF Job, MaxAttempts, IsSetup
  <1>2. CASE StartAttempt
    <2>1. PICK n : n = job.attempts + 1
      OBVIOUS
    <2>2. n \in 0 .. MaxAttempts
      BY <1>1, <1>2, <2>1 DEF StartAttempt, Cursor, MaxAttempts
    <2>3. job' = [job EXCEPT !.attempts = n, !.latest = job.recorded]
      BY <1>2, <2>1 DEF StartAttempt
    <2>4. job' \in Job
      BY <1>1, <2>2, <2>3 DEF Job
    <2>5. PICK f : f = FirstPage
      OBVIOUS
    <2>6. f \in Nat /\ FirstLoop \in {"batch", "plan"}
      BY <1>1, <2>5 DEF FirstPage, FirstLoop
    <2>7. PICK x \in Walk : x = IdleWalk
      <3>1. IdleWalk \in Walk
        BY DEF IdleWalk, Walk
      <3>. QED  BY <3>1
    <2>8. w' \in Walk
      <3>1. PICK l : l = FirstLoop
        OBVIOUS
      <3>2. w' = [x EXCEPT !.pc = l, !.left = Selected, !.next = f]
        BY <1>2, <2>5, <2>7, <3>1 DEF StartAttempt
      <3>. QED  BY <2>6, <3>1, <3>2 DEF Walk
    <2>. QED  BY <1>2, <2>4, <2>8 DEF StartAttempt, TypeNext, source, store
  <1>3. CASE Beat
    <2>1. job' \in Job
      BY <1>1, <1>3 DEF Beat, Job
    <2>. QED  BY <1>3, <2>1 DEF Beat, TypeNext, source, store
  <1>4. CASE Crash
    <2>1. w' \in Walk /\ entry' \in [Roots -> Entry] /\ job' \in Job
      BY <1>4, ForgetTypes, RetryTypes DEF Crash
    <2>2. used' \in Used /\ used'.setup = used.setup
      <3>1. used.crashes \in 0 .. MaxCrashes /\ MaxCrashes \in Nat
        BY SetupFacts DEF MaxCrashes, IsSetup, Used
      <3>2. PICK n : n = used.crashes + 1
        OBVIOUS
      <3>3. n \in 0 .. MaxCrashes
        BY <1>4, <3>1, <3>2 DEF Crash
      <3>4. used' = [used EXCEPT !["crashes"] = n]
        BY <1>4, <3>2 DEF Crash, Spend
      <3>. QED  BY <3>3, <3>4 DEF Used
    <2>. QED  BY <1>4, <2>1, <2>2 DEF Crash, TypeNext, source, store
  <1>5. ASSUME Salvage(1)
        PROVE  /\ rows' \in [Roots -> Row] /\ seq' \in Nat /\ used' \in Used /\ used'.setup = used.setup
               /\ w' \in Walk /\ entry' \in [Roots -> Entry] /\ job' \in Job
    BY <1>5, SalvageFacts, ForgetTypes, RetryTypes
  <1>6. CASE Abort
    BY <1>5, <1>6 DEF Abort, TypeNext, source, store
  <1>7. CASE BulkFails
    <2>1. docs' \in [Roots -> [Versions -> Doc]]
      BY <1>7, UpsertFacts DEF BulkFails
    <2>. QED  BY <1>5, <1>7, <2>1 DEF BulkFails, TypeNext, source, store
  <1>8. CASE Rest
    BY <1>8 DEF Rest, vars, TypeNext, source, store
  <1>. QED  BY <1>2, <1>3, <1>4, <1>6, <1>7, <1>8

\* The end of an attempt that was not aborted.
LEMMA TypeFinish ==
    ASSUME TypeOK, Finish
    PROVE  TypeNext
  <1>. TypeNow
    BY TypeFacts
  <1>. USE DEF TypeNow
  <1>1. CASE w.pending # <<>>
    <2>1. w' \in Walk
      BY <1>1, FlushingFacts DEF Finish
    <2>. QED  BY <1>1, <2>1 DEF Finish, TypeNext, source, store
  <1>2. CASE w.pending = <<>>
    <2>. DEFINE S == {r \in Roots : Unsettled(r)}
    <2>1. PICK lost \in SUBSET S :
            /\ used.errors + Cardinality(lost) <= MaxErrors
            /\ used' = [used EXCEPT !.errors = @ + Cardinality(lost), !.lost = @ \/ lost # {}]
            /\ rows' = MarkedRows(S \ lost)
            /\ seq' = seq + Cardinality(S \ lost)
            /\ Forget
            /\ IF w.markFailed \/ lost # {} THEN Retry
               ELSE job' = [job EXCEPT !.outcome = IF w.anyFailed \/ S # {} THEN "marked" ELSE "done"]
      BY <1>2 DEF Finish
    <2>2. S \ lost \in SUBSET Roots /\ lost \in SUBSET Roots
      OBVIOUS
    <2>. HIDE DEF S
    <2>3. rows' \in [Roots -> Row] /\ seq' \in Nat
      BY <2>1, <2>2, MarkFacts
    <2>4. w' \in Walk /\ entry' \in [Roots -> Entry]
      BY <2>1, ForgetTypes
    <2>5. job' \in Job
      <3>1. CASE w.markFailed \/ lost # {}
        BY <2>1, <3>1, RetryTypes
      <3>2. CASE ~(w.markFailed \/ lost # {})
        BY <2>1, <3>2 DEF Job
      <3>. QED  BY <3>1, <3>2
    <2>6. used' \in Used /\ used'.setup = used.setup
      <3>1. used.errors \in 0 .. MaxErrors /\ MaxErrors \in Nat
        BY SetupFacts DEF MaxErrors, IsSetup, Used
      <3>2. Cardinality(lost) \in Nat
        BY <2>2, StateSets
      <3>3. PICK n : n = used.errors + Cardinality(lost)
        OBVIOUS
      <3>4. PICK b : b = (used.lost \/ lost # {})
        OBVIOUS
      <3>5. n \in 0 .. MaxErrors /\ b \in BOOLEAN
        BY <2>1, <3>1, <3>2, <3>3, <3>4
      <3>6. used' = [used EXCEPT !.errors = n, !.lost = b]
        BY <2>1, <3>3, <3>4
      <3>. QED  BY <3>5, <3>6 DEF Used
    <2>. QED  BY <2>3, <2>4, <2>5, <2>6 DEF Finish, TypeNext, source, store
  <1>. QED  BY <1>1, <1>2

\* The page loop, but for its items.
LEMMA TypeLoop ==
    ASSUME TypeOK, Placed(used.setup, w),
           Execute \/ FlushBeforePlan \/ FetchPage \/ TakePage \/ PageConsumed \/ EndPlan
    PROVE  TypeNext
  <1>. TypeNow
    BY TypeFacts
  <1>. USE DEF TypeNow
  <1>1. CASE Execute
    <2>1. PICK n \in Nat : n = seq + 1
      OBVIOUS
    <2>2. w' = [w EXCEPT !.pc = "walk", !.start = n] /\ seq' = n
      BY <1>1, <2>1 DEF Execute
    <2>3. w' \in Walk
      BY <2>2, ZenonT(60) DEF Walk
    <2>. QED  BY <1>1, <2>2, <2>3 DEF Execute, TypeNext, source, store
  <1>2. CASE FlushBeforePlan
    <2>1. w' \in Walk
      BY <1>2, FlushingFacts DEF FlushBeforePlan
    <2>. QED  BY <1>2, <2>1 DEF FlushBeforePlan, TypeNext, source, store
  <1>3. CASE FetchPage
    <2>1. w' \in Walk
      BY <1>3, FetchFacts
    <2>. QED  BY <1>3, <2>1 DEF FetchPage, TypeNext, source, store
  <1>4. CASE TakePage
    <2>1. Head(w.inbox) \in Page /\ Tail(w.inbox) \in Seq(Page)
      BY <1>4, WalkFacts, TailFacts DEF TakePage
    <2>2. PICK p \in Page : p = Head(w.inbox)
      BY <2>1
    <2>3. PICK q \in Seq(Page) : q = Tail(w.inbox)
      BY <2>1
    <2>4. w' = [w EXCEPT !.no = p.no, !.page = p.items, !.inbox = q]
      BY <1>4, <2>2, <2>3 DEF TakePage
    <2>5. w' \in Walk
      BY <2>4 DEF Walk, Page
    <2>. QED  BY <1>4, <2>5 DEF TakePage, TypeNext, source, store
  <1>5. CASE PageConsumed
    <2>. DEFINE next == [w EXCEPT !.no = 0, !.completed = IF Resumable /\ ~LastPage(w.no) THEN w.no ELSE @]
    <2>1. next \in Walk
      BY DEF Walk
    <2>2. w' = Flushing(next, "walk") \/ w' = next
      BY <1>5 DEF PageConsumed
    <2>. HIDE DEF next
    <2>3. w' \in Walk
      BY <2>1, <2>2, FlushingFacts
    <2>. QED  BY <1>5, <2>3 DEF PageConsumed, TypeNext, source, store
  <1>6. CASE EndPlan
    <2>1. w' \in Walk
      BY <1>6, ZenonT(60) DEF EndPlan, Walk
    <2>. QED  BY <1>6, <2>1 DEF EndPlan, TypeNext, source, store
  <1>. QED  BY <1>1, <1>2, <1>3, <1>4, <1>5, <1>6

\* The item at the head of the page.
LEMMA HeadFacts ==
    ASSUME TypeOK, w.page # <<>>
    PROVE  /\ Head(w.page) \in Item /\ Head(w.page).id \in Roots /\ Head(w.page).v \in Selected
           /\ Head(w.page) \in Range(w.page)
           /\ ItemDone \in Walk /\ ItemDone = [w EXCEPT !.page = Tail(w.page)]
           /\ Tail(w.page) \in Seq(Item)
           /\ Range(w.page) = {Head(w.page)} \cup Range(Tail(w.page))
  <1>1. w \in Walk /\ w.page \in Seq(Item)
    BY WalkFacts DEF TypeOK
  <1>2. Head(w.page) \in Item /\ Tail(w.page) \in Seq(Item)
        /\ Range(w.page) = {Head(w.page)} \cup Range(Tail(w.page))
    BY <1>1, TailFacts
  <1>3. PICK q \in Seq(Item) : q = Tail(w.page)
    BY <1>2
  <1>4. ItemDone = [w EXCEPT !.page = q]
    BY <1>3 DEF ItemDone
  <1>5. ItemDone \in Walk
    BY <1>1, <1>4 DEF Walk
  <1>6. PICK it \in Item : it = Head(w.page)
    BY <1>2
  <1>7. it.id \in Roots /\ it.v \in Selected
    BY DEF Item
  <1>. QED  BY <1>2, <1>3, <1>4, <1>5, <1>6, <1>7

\* The items of a page.
LEMMA TypeItem ==
    ASSUME TypeOK, NEW r \in Roots, CountNil(r) => entry[r].remaining >= 1,
           ItemStep(r) \/ BeginItemFails(r)
    PROVE  TypeNext
  <1>. TypeNow
    BY TypeFacts
  <1>. USE DEF TypeNow
  <1>1. w.page # <<>>
    BY DEF ItemStep, BeginItem, AddDoc, SkipItem, Contradiction, CountNil, BeginItemFails, AtItem
  <1>2. PICK it \in Item : it = Head(w.page)
    BY <1>1, HeadFacts
  <1>3. it.v \in Selected /\ ItemDone \in Walk
    BY <1>1, <1>2, HeadFacts
  <1>4. entry \in [Roots -> Entry] /\ entry[r] \in Entry
    OBVIOUS
  <1>5. ASSUME NEW base \in [Roots -> Entry], NEW cost \in Nat, Fail({r}, base, ItemDone, cost),
               UNCHANGED <<source, changed, edges, docs, live, job, exposed>>
        PROVE  TypeNext
    <2>1. {r} \in SUBSET Roots
      OBVIOUS
    <2>2. /\ rows' \in [Roots -> Row] /\ seq' \in Nat /\ used' \in Used /\ used'.setup = used.setup
          /\ w' \in Walk /\ entry' \in [Roots -> Entry]
      BY <1>3, <1>5, <2>1, FailFacts DEF FailsTo
    <2>. QED  BY <1>5, <2>2 DEF TypeNext, source
  <1>6. CASE BeginItem(r)
    <2>1. rows' \in [Roots -> Row]
      BY <1>6 DEF BeginItem, Row
    <2>2. PICK n \in Nat : n = seq + 1
      OBVIOUS
    <2>3. PICK e \in Entry : e = NoEntry
      BY EntryTypes, EntrySets
    <2>4. PICK k : k = Cardinality(w.left)
      OBVIOUS
    <2>5. PICK p : p = (w.left # Selected)
      OBVIOUS
    <2>6. k \in 0 .. Cardinality(Selected) /\ p \in BOOLEAN /\ rows[r].mark \in Nat /\ w.start \in Nat
      BY <2>4, <2>5, StateSets, WalkFacts DEF Row
    <2>7. PICK m \in Nat : m = rows[r].mark
      BY <2>6
    <2>8. PICK st \in Nat : st = w.start
      BY <2>6
    <2>9. entry' = [entry EXCEPT ![r] = [e EXCEPT
              !.tracked = TRUE, !.occ = n, !.mark = m, !.start = st, !.remaining = k, !.partial = p]]
      BY <1>6, <2>2, <2>3, <2>4, <2>5, <2>7, <2>8 DEF BeginItem
    <2>10. [e EXCEPT !.tracked = TRUE, !.occ = n, !.mark = m, !.start = st, !.remaining = k, !.partial = p] \in Entry
      BY <2>6 DEF Entry
    <2>11. entry' \in [Roots -> Entry]
      BY <2>9, <2>10
    <2>. QED  BY <1>6, <2>1, <2>2, <2>11 DEF BeginItem, TypeNext, source, store
  <1>7. CASE AddDoc(r)
    <2>1. [entry[r] EXCEPT !.lastDoc = it.v] \in Entry
      BY <1>3, <1>4, StateSets DEF Entry
    <2>2. entry' = [entry EXCEPT ![r] = [entry[r] EXCEPT !.lastDoc = it.v]]
      BY <1>2, <1>7 DEF AddDoc
    <2>3. entry' \in [Roots -> Entry]
      BY <2>1, <2>2
    <2>. DEFINE next == [ItemDone EXCEPT !.pending = Append(@, it)]
    <2>4. next \in Walk
      <3>1. PICK x \in Walk : x = ItemDone
        BY <1>3
      <3>0. Append(x.pending, it) \in Seq(Item)
        <4>1. x.pending \in Seq(Item)
          BY WalkFacts
        <4>. QED  BY <4>1, AppendFacts
      <3>2. PICK q \in Seq(Item) : q = Append(x.pending, it)
        BY <3>0
      <3>3. next = [x EXCEPT !.pending = q]
        BY <3>1, <3>2
      <3>4. [x EXCEPT !.pending = q] \in Walk
        BY DEF Walk
      <3>. QED  BY <3>3, <3>4
    <2>5. w' = Flushing(next, "walk") \/ w' = next
      BY <1>2, <1>7 DEF AddDoc
    <2>. HIDE DEF next
    <2>6. w' \in Walk
      BY <2>4, <2>5, FlushingFacts
    <2>. QED  BY <1>7, <2>3, <2>6 DEF AddDoc, TypeNext, source, store
  <1>8. CASE SkipItem(r)
    BY <1>3, <1>8 DEF SkipItem, TypeNext, source, store
  <1>9. CASE Contradiction(r)
    BY <1>4, <1>5, <1>9 DEF Contradiction
  <1>10. CASE BeginItemFails(r)
    BY <1>4, <1>5, <1>10 DEF BeginItemFails
  <1>11. CASE CountNil(r)
    <2>. DEFINE e == [entry[r] EXCEPT !.nils = @ \cup {Head(w.page).v}, !.remaining = @ - 1]
                base == [entry EXCEPT ![r] = e]
    <2>1. e \in Entry
      <3>1. PICK o \in Entry : o = entry[r]
        BY <1>4
      <3>2. PICK n : n = o.remaining - 1
        OBVIOUS
      <3>3. PICK N : N = o.nils \cup {it.v}
        OBVIOUS
      <3>4. o.remaining \in 0 .. Cardinality(Selected) /\ o.nils \in SUBSET Selected /\ Cardinality(Selected) \in Nat
        BY StateSets DEF Entry
      <3>5. n \in 0 .. Cardinality(Selected) /\ N \in SUBSET Selected
        BY <1>3, <1>11, <3>1, <3>2, <3>3, <3>4
      <3>6. e = [o EXCEPT !.nils = N, !.remaining = n]
        BY <1>2, <3>1, <3>2, <3>3
      <3>. QED  BY <3>5, <3>6 DEF Entry
    <2>2. base \in [Roots -> Entry]
      BY <1>4, <2>1
    <2>3. /\ IF e.remaining = 0 /\ e.partial
             THEN Fail({r}, base, ItemDone, 0)
             ELSE /\ entry' = base
                  /\ w' = IF e.remaining > 0 \/ r \in IdsIn(w.pending) THEN ItemDone
                          ELSE [ItemDone EXCEPT !.pc = "nils", !.how = Settling(e), !.ret = "walk",
                                                !.ids = {r}, !.todo = {r}]
                  /\ UNCHANGED <<seq, rows, used>>
          /\ UNCHANGED <<source, changed, edges, docs, live, job, exposed>>
      BY <1>11, Zenon DEF CountNil
    <2>. HIDE DEF base, e
    <2>4. CASE e.remaining = 0 /\ e.partial
      <3>1. Fail({r}, base, ItemDone, 0) /\ UNCHANGED <<source, changed, edges, docs, live, job, exposed>>
        BY <2>3, <2>4, Zenon
      <3>2. 0 \in Nat
        OBVIOUS
      <3>. QED  BY <1>5, <2>2, <3>1, <3>2, Zenon
    <2>5. CASE ~(e.remaining = 0 /\ e.partial)
      <3>1. PICK x \in Walk : x = ItemDone
        BY <1>3
      <3>2. Settling(e) \in {"flush", "nil", "leave", "remove"}
        BY DEF Settling
      <3>3. [x EXCEPT !.pc = "nils", !.how = Settling(e), !.ret = "walk", !.ids = {r}, !.todo = {r}] \in Walk
        BY <3>2, ZenonT(60) DEF Walk
      <3>4. w' \in Walk
        BY <1>3, <2>3, <2>5, <3>1, <3>3
      <3>. QED  BY <2>2, <2>3, <2>5, <3>4 DEF TypeNext, source
    <2>. QED  BY <2>4, <2>5
  <1>. QED  BY <1>6, <1>7, <1>8, <1>9, <1>10, <1>11 DEF ItemStep

\* What a step that ends with fail leaves is well typed.
LEMMA TypeFail ==
    ASSUME TypeOK, NEW S \in SUBSET Roots, NEW base \in [Roots -> Entry], NEW next \in Walk,
           NEW cost \in Nat, Fail(S, base, next, cost),
           UNCHANGED <<source, changed, edges, live, job, exposed>>,
           docs' \in [Roots -> [Versions -> Doc]]
    PROVE  TypeNext
  <1>1. TypeNow
    BY TypeFacts
  <1>2. /\ rows' \in [Roots -> Row] /\ seq' \in Nat /\ used' \in Used /\ used'.setup = used.setup
        /\ w' \in Walk /\ entry' \in [Roots -> Entry]
    BY FailFacts DEF FailsTo
  <1>. QED  BY <1>1, <1>2 DEF TypeNow, TypeNext, source

\* A batch holds ids of the type.
LEMMA BatchIds ==
    ASSUME TypeOK, Placed(used.setup, w), w.next <= Len(Batches)
    PROVE  /\ Batch \in SUBSET Roots /\ IsFiniteSet(Batch) /\ Cardinality(Batch) \in Nat
           /\ w.next \in DOMAIN used.setup.batches /\ Batch = used.setup.batches[w.next]
           /\ \A r \in Batch : Nth(Batch, r) \in 1 .. Cardinality(Batch)
  <1>1. Batches \in Seq(SUBSET Roots) /\ Batches = used.setup.batches
    BY SetupFacts DEF IsSetup, Batches, Roots
  <1>2. w.next \in Nat /\ w.next >= 1
    BY WalkFacts DEF TypeOK, Placed
  <1>3. w.next \in 1 .. Len(Batches) /\ DOMAIN Batches = 1 .. Len(Batches)
    BY <1>1, <1>2, LenProperties
  <1>4. Batch \in SUBSET Roots
    BY <1>1, <1>3, ElementOfSeq DEF Batch
  <1>5. IsFiniteSet(Batch) /\ Cardinality(Batch) \in Nat /\ Batch \in SUBSET Nat
    BY <1>4, StateSets
  <1>6. \A r \in Batch : Nth(Batch, r) \in 1 .. Cardinality(Batch)
    BY <1>5, NthFacts
  <1>. QED  BY <1>1, <1>3, <1>4, <1>5, <1>6 DEF Batch

\* What BeginItem makes of the entries.
LEMMA BeginItemFacts ==
    ASSUME TypeOK, NEW r \in Roots, BeginItem(r)
    PROVE  /\ \A q \in Roots : q # r => entry'[q] = entry[q]
           /\ Open(entry'[r]) /\ entry'[r].tracked /\ ~entry'[r].failed /\ ~entry'[r].settled
           /\ entry'[r].occ = seq + 1 /\ entry'[r].nils = {} /\ entry'[r].lastCounted = 0
           /\ entry'[r].lastDoc = 0 /\ entry'[r].remaining = Cardinality(w.left)
           /\ entry'[r].partial <=> w.left # Selected
           /\ entry'[r].mark = rows[r].mark /\ entry'[r].start = w.start
  <1>1. PICK o \in Entry : o = NoEntry
    BY EntryTypes, EntrySets
  <1>2. PICK n : n = seq + 1
    OBVIOUS
  <1>3. PICK m : m = rows[r].mark
    OBVIOUS
  <1>4. PICK k : k = Cardinality(w.left)
    OBVIOUS
  <1>5. PICK p : p = (w.left # Selected)
    OBVIOUS
  <1>6. PICK st : st = w.start
    OBVIOUS
  <1>7. PICK e : e = [o EXCEPT !.tracked = TRUE, !.occ = n, !.mark = m, !.start = st, !.remaining = k, !.partial = p]
    OBVIOUS
  <1>8. entry' = [entry EXCEPT ![r] = e]
    BY <1>1, <1>2, <1>3, <1>4, <1>5, <1>6, <1>7 DEF BeginItem
  <1>9. entry'[r] = e /\ \A q \in Roots : q # r => entry'[q] = entry[q]
    BY <1>8 DEF TypeOK
  <1>10. o.failed = FALSE /\ o.settled = FALSE /\ o.nils = {} /\ o.lastCounted = 0 /\ o.lastDoc = 0
    BY <1>1 DEF NoEntry
  <1>11. e.tracked /\ e.failed = o.failed /\ e.settled = o.settled /\ e.occ = n /\ e.nils = o.nils
         /\ e.lastCounted = o.lastCounted /\ e.lastDoc = o.lastDoc /\ e.remaining = k /\ e.partial = p
         /\ e.mark = m /\ e.start = st
    BY <1>7 DEF Entry
  <1>12. Open(e)
    BY <1>10, <1>11 DEF Open
  <1>. QED  BY <1>2, <1>3, <1>4, <1>5, <1>6, <1>9, <1>10, <1>11, <1>12

\* What BeginBatch makes of the entries.
LEMMA BeginBatchFacts ==
    ASSUME TypeOK, Placed(used.setup, w), BeginBatch
    PROVE  /\ seq' \in Nat /\ seq' >= seq
           /\ entry' \in [Roots -> Entry]
           /\ \A r \in Roots \ Batch : entry'[r] = entry[r]
           /\ \A r \in Batch : \E n \in Nat, e \in EntryIn(used.setup) :
                 /\ e = entry'[r] /\ n = seq + Nth(Batch, r) /\ n > seq /\ n <= seq'
                 /\ Open(e) /\ e.tracked /\ e.occ = n /\ e.nils = {} /\ e.lastCounted = 0
                 /\ e.lastDoc = 0 /\ e.remaining = Cardinality(Selected) /\ ~e.partial /\ ~e.settled
                 /\ e.mark = rows[r].mark /\ e.start = n
  <1>1. /\ Batch \in SUBSET Roots /\ Cardinality(Batch) \in Nat
        /\ \A r \in Batch : Nth(Batch, r) \in 1 .. Cardinality(Batch)
    BY BatchIds DEF BeginBatch
  <1>2. seq \in Nat /\ rows \in [Roots -> Row] /\ entry \in [Roots -> Entry]
    BY TypeFacts DEF TypeNow
  <1>3. seq' \in Nat /\ seq' >= seq /\ seq' = seq + Cardinality(Batch)
    <2>1. seq' = seq + Cardinality(Batch)
      BY DEF BeginBatch
    <2>. QED  BY <1>1, <1>2, <2>1
  <1>4. ASSUME NEW r \in Batch
        PROVE  \E n \in Nat, e \in EntryIn(used.setup) :
                 /\ e = entry'[r] /\ e \in Entry /\ n = seq + Nth(Batch, r) /\ n > seq /\ n <= seq'
                 /\ Open(e) /\ e.tracked /\ e.occ = n /\ e.nils = {} /\ e.lastCounted = 0
                 /\ e.lastDoc = 0 /\ e.remaining = Cardinality(Selected) /\ ~e.partial /\ ~e.settled
                 /\ e.mark = rows[r].mark /\ e.start = n
    <2>1. Nth(Batch, r) \in Nat /\ Nth(Batch, r) >= 1 /\ Nth(Batch, r) <= Cardinality(Batch)
      BY <1>1
    <2>2. PICK n : n = seq + Nth(Batch, r)
      OBVIOUS
    <2>3. n \in Nat /\ n > seq /\ n <= seq'
      BY <1>1, <1>2, <1>3, <2>1, <2>2
    <2>4. PICK m \in Nat : m = rows[r].mark
      BY <1>1, <1>2 DEF Row
    <2>5. Cardinality(Selected) \in 0 .. Cardinality(Selected)
      BY StateSets
    <2>6. entry'[r] = [NoEntry EXCEPT !.tracked = TRUE, !.occ = n, !.mark = m, !.start = n,
                                      !.remaining = Cardinality(Selected)]
      <3>1. entry'[r] = [NoEntry EXCEPT !.tracked = TRUE, !.occ = seq + Nth(Batch, r), !.mark = rows[r].mark,
                               !.start = seq + Nth(Batch, r), !.remaining = Cardinality(Selected)]
        BY <1>1, Zenon DEF BeginBatch
      <3>. QED  BY <2>2, <2>4, <3>1, Zenon
    <2>7. PICK k \in 0 .. Cardinality(Selected) : k = Cardinality(Selected)
      BY <2>5
    <2>8. PICK o \in Entry : o = NoEntry
      BY EntryTypes, EntrySets
    <2>9. PICK e : e = [o EXCEPT !.tracked = TRUE, !.occ = n, !.mark = m, !.start = n, !.remaining = k]
      OBVIOUS
    <2>10. o.partial = FALSE /\ o.failed = FALSE /\ o.settled = FALSE /\ o.nils = {}
           /\ o.lastCounted = 0 /\ o.lastDoc = 0
      BY <2>8 DEF NoEntry
    <2>11. e \in Entry
      BY <2>3, <2>9 DEF Entry
    <2>12. e = entry'[r] /\ e \in EntryIn(used.setup)
      BY <2>6, <2>7, <2>8, <2>9, <2>11, EntrySets
    <2>13. e.tracked /\ e.failed = o.failed /\ e.settled = o.settled /\ e.occ = n /\ e.nils = o.nils
           /\ e.lastCounted = o.lastCounted /\ e.lastDoc = o.lastDoc /\ e.remaining = k /\ e.partial = o.partial
           /\ e.mark = m /\ e.start = n
      BY <2>9 DEF Entry
    <2>14. Open(e) /\ e.nils = {} /\ e.lastCounted = 0 /\ e.lastDoc = 0 /\ ~e.partial /\ ~e.settled
      BY <2>10, <2>13 DEF Open
    <2>. QED  BY <2>2, <2>3, <2>4, <2>7, <2>11, <2>12, <2>13, <2>14
  <1>5. \A r \in Roots \ Batch : entry'[r] = entry[r]
    BY DEF BeginBatch
  <1>6. entry' \in [Roots -> Entry]
    <2>1. \A r \in Roots : entry'[r] \in Entry
      BY <1>2, <1>4, <1>5
    <2>2. DOMAIN entry' = Roots /\ entry' = [r \in Roots |-> entry'[r]]
      BY DEF BeginBatch
    <2>. QED  BY <2>1, <2>2
  <1>7. ASSUME NEW r \in Batch
        PROVE  \E n \in Nat, e \in EntryIn(used.setup) :
                 /\ e = entry'[r] /\ n = seq + Nth(Batch, r) /\ n > seq /\ n <= seq'
                 /\ Open(e) /\ e.tracked /\ e.occ = n /\ e.nils = {} /\ e.lastCounted = 0
                 /\ e.lastDoc = 0 /\ e.remaining = Cardinality(Selected) /\ ~e.partial /\ ~e.settled
                 /\ e.mark = rows[r].mark /\ e.start = n
    <2>1. PICK n \in Nat, e \in EntryIn(used.setup) :
                 /\ e = entry'[r] /\ e \in Entry /\ n = seq + Nth(Batch, r) /\ n > seq /\ n <= seq'
                 /\ Open(e) /\ e.tracked /\ e.occ = n /\ e.nils = {} /\ e.lastCounted = 0
                 /\ e.lastDoc = 0 /\ e.remaining = Cardinality(Selected) /\ ~e.partial /\ ~e.settled
                 /\ e.mark = rows[r].mark /\ e.start = n
      BY <1>4, Zenon
    <2>. QED  BY <2>1
  <1>. QED  BY <1>3, <1>5, <1>6, <1>7, Zenon

\* The batch loop.
LEMMA TypeBatch ==
    ASSUME TypeOK, Placed(used.setup, w), BeginBatch \/ BatchFails \/ AskPlans \/ BatchDone \/ EndBatches
    PROVE  TypeNext
  <1>. TypeNow
    BY TypeFacts
  <1>. USE DEF TypeNow
  <1>1. w.next \in Nat
    BY WalkFacts
  <1>2. NextBatch \in Walk
    <2>1. PICK n \in Nat : n = w.next + 1
      BY <1>1
    <2>2. NextBatch = [w EXCEPT !.pc = "batch", !.next = n]
      BY <2>1 DEF NextBatch
    <2>. QED  BY <2>2 DEF Walk
  <1>3. CASE BeginBatch
    <2>1. seq' \in Nat /\ entry' \in [Roots -> Entry]
      BY <1>3, BeginBatchFacts
    <2>2. rows' \in [Roots -> Row]
      <3>1. \A r \in Roots : [rows[r] EXCEPT !.present = TRUE] \in Row
        BY DEF Row
      <3>. QED  BY <1>3, <3>1 DEF BeginBatch
    <2>3. w' \in Walk
      BY <1>3 DEF BeginBatch, Walk
    <2>. QED  BY <1>3, <2>1, <2>2, <2>3 DEF BeginBatch, TypeNext, source
  <1>4. CASE BatchFails
    <2>1. /\ Fail(Batch, entry, NextBatch, 1) /\ docs' = docs
          /\ UNCHANGED <<source, changed, edges, live, job, exposed>>
      BY <1>4 DEF BatchFails
    <2>2. Batch \in SUBSET Roots
      BY <1>4, BatchIds DEF BatchFails
    <2>. QED  BY <1>2, <2>1, <2>2, TypeFail
  <1>5. CASE AskPlans
    <2>1. PICK errs \in SUBSET Batch :
             Fail(errs, entry, [w EXCEPT !.pc = "walk", !.page = BatchItems(Batch \ errs)], Cardinality(errs))
      BY <1>5 DEF AskPlans, BatchItems
    <2>2. docs' = docs /\ UNCHANGED <<source, changed, edges, live, job, exposed>>
      BY <1>5 DEF AskPlans
    <2>3. Batch \in SUBSET Roots
      <3>1. w.next <= Len(Batches)
        BY <1>5 DEF Placed, At, Flusher, Applying, AskPlans, Batches, Given
      <3>. QED  BY <3>1, BatchIds
    <2>4. errs \in SUBSET Roots /\ Batch \ errs \in SUBSET Roots /\ Cardinality(errs) \in Nat
      BY <2>3, StateSets
    <2>5. PICK q \in Seq(Item) : q = BatchItems(Batch \ errs)
      BY <2>4, BatchFacts
    <2>6. [w EXCEPT !.pc = "walk", !.page = q] \in Walk
      BY DEF Walk
    <2>. QED  BY <2>1, <2>2, <2>4, <2>5, <2>6, TypeFail
  <1>6. CASE BatchDone
    BY <1>2, <1>6 DEF BatchDone, TypeNext, source, store
  <1>7. CASE EndBatches
    <2>1. w' \in Walk
      BY <1>7 DEF EndBatches, Walk
    <2>. QED  BY <1>7, <2>1 DEF EndBatches, TypeNext, source, store
  <1>. QED  BY <1>3, <1>4, <1>5, <1>6, <1>7

-----------------------------------------------------------------------------
(* Types: the flusher *)

\* Failures are counted up to their bound.
LEMMA SpentFacts ==
    ASSUME TypeOK, NEW n \in Nat, used.errors + n <= MaxErrors, used' = [used EXCEPT !.errors = @ + n]
    PROVE  used' \in Used /\ used'.setup = used.setup
  <1>1. used \in Used
    BY DEF TypeOK
  <1>2. used.errors \in 0 .. MaxErrors /\ MaxErrors \in Nat
    BY <1>1, SetupFacts DEF MaxErrors, IsSetup, Used
  <1>3. PICK m : m = used.errors + n
    OBVIOUS
  <1>4. m \in 0 .. MaxErrors
    BY <1>2, <1>3
  <1>5. used' = [used EXCEPT !.errors = m]
    BY <1>3
  <1>. QED  BY <1>1, <1>4, <1>5 DEF Used

\* One more failure.
LEMMA SpendFacts ==
    ASSUME TypeOK, CanErr, Spend("errors")
    PROVE  used' \in Used /\ used'.setup = used.setup
  <1>1. used \in Used
    BY DEF TypeOK
  <1>2. used.errors \in 0 .. MaxErrors /\ MaxErrors \in Nat
    BY <1>1, SetupFacts DEF MaxErrors, IsSetup, Used
  <1>3. used.errors + 1 <= MaxErrors
    BY <1>2 DEF CanErr
  <1>4. used' = [used EXCEPT !.errors = @ + 1]
    BY DEF Spend
  <1>. QED  BY <1>3, <1>4, SpentFacts

\* Counting keeps an entry well typed.
LEMMA CountedTypes ==
    ASSUME NEW s, IsSetup(s), NEW e \in EntryIn(s), NEW L \in SUBSET s.selected
    PROVE  Counted(e, L) \in EntryIn(s)
  <1>. DEFINE N == L \ {e.lastCounted}
              n == Cardinality(N)
              m == CHOOSE v \in L : \A u \in L : u <= v
  <1>1. s.selected \subseteq Nat /\ IsFiniteSet(s.selected) /\ Cardinality(s.selected) \in Nat
    BY SetFacts
  <1>2. IsFiniteSet(N) /\ IsFiniteSet(L)
    BY <1>1, FS_Subset
  <1>3. n \in Nat /\ (n = 0 <=> N = {})
    BY <1>2, FS_CardinalityType, FS_EmptySet
  <1>4. n # 0 => m \in L
    <2>1. n # 0 => \E v \in L : \A u \in L : u <= v
      <3>1. n # 0 => L # {}
        BY <1>3
      <3>2. L \in SUBSET Nat
        BY <1>1
      <3>. QED  BY <1>2, <3>1, <3>2, ExtremeFacts
    <2>. QED  BY <2>1
  <1>5. Counted(e, L) = IF n = 0 THEN e ELSE [e EXCEPT !.remaining = IF n > @ THEN 0 ELSE @ - n, !.lastCounted = m]
    BY DEF Counted
  <1>. HIDE DEF n, m, N
  <1>6. PICK k : k = IF n > e.remaining THEN 0 ELSE e.remaining - n
    OBVIOUS
  <1>7. e.remaining \in Nat /\ e.remaining <= Cardinality(s.selected)
    BY EntryFacts
  <1>8. k \in 0 .. Cardinality(s.selected)
    BY <1>1, <1>3, <1>6, <1>7
  <1>9. CASE n = 0
    BY <1>5, <1>9
  <1>10. CASE n # 0
    <2>1. m \in Nat
      BY <1>1, <1>4, <1>10
    <2>2. Counted(e, L) = [e EXCEPT !.remaining = k, !.lastCounted = m]
      BY <1>5, <1>6, <1>10
    <2>. QED  BY <1>8, <2>1, <2>2 DEF EntryIn
  <1>. QED  BY <1>9, <1>10

\* Settling keeps an entry well typed, and either forgets it or shuts it.
LEMMA SettleFacts ==
    ASSUME TypeOK, NEW r \in Roots, Settle(r)
    PROVE  /\ entry' \in [Roots -> Entry]
           /\ \A q \in Roots : q # r => entry'[q] = entry[q]
           /\ \/ ~KeepSettled /\ entry'[r] = NoEntry
              \/ /\ KeepSettled /\ entry'[r].tracked = entry[r].tracked /\ entry'[r].settled
                 /\ entry'[r].failed = entry[r].failed /\ entry'[r].occ = entry[r].occ
  <1>1. entry \in [Roots -> Entry] /\ NoEntry \in Entry
    BY EntryTypes, EntrySets DEF TypeOK
  <1>2. PICK e \in Entry : e = entry[r]
    BY <1>1
  <1>3. [e EXCEPT !.settled = TRUE] \in Entry
    BY DEF Entry
  <1>4. [e EXCEPT !.settled = TRUE].tracked = e.tracked /\ [e EXCEPT !.settled = TRUE].settled
        /\ [e EXCEPT !.settled = TRUE].failed = e.failed /\ [e EXCEPT !.settled = TRUE].occ = e.occ
    BY DEF Entry
  <1>5. SettledEntry(e) = IF KeepSettled THEN [e EXCEPT !.settled = TRUE] ELSE NoEntry
    BY DEF SettledEntry
  <1>6. entry' = [entry EXCEPT ![r] = SettledEntry(e)]
    BY <1>2 DEF Settle
  <1>7. SettledEntry(e) \in Entry
    BY <1>1, <1>3, <1>5
  <1>8. entry' \in [Roots -> Entry] /\ entry'[r] = SettledEntry(e) /\ \A q \in Roots : q # r => entry'[q] = entry[q]
    BY <1>1, <1>6, <1>7
  <1>. QED  BY <1>2, <1>4, <1>5, <1>8

\* The bulk request and the edge sets.
LEMMA TypeBulk ==
    ASSUME TypeOK,
           BulkUpsert \/ CountDocs \/ \E r \in Roots : StoreEdges(r) \/ StoreEdgesFails(r)
    PROVE  TypeNext
  <1>. TypeNow
    BY TypeFacts
  <1>. USE DEF TypeNow
  <1>1. ASSUME NEW r
        PROVE  Took(r) \in Walk
    BY DEF Took, Walk
  <1>2. CASE BulkUpsert
    <2>1. PICK rejected \in SUBSET ChunkKeys :
            /\ used.errors + Cardinality(rejected) <= MaxErrors
            /\ docs' = Upserted(ChunkKeys \ rejected)
            /\ w' = [w EXCEPT !.pc = "edges", !.rejected = rejected,
                              !.todo = {k[1] : k \in ChunkKeys \ rejected}]
            /\ used' = [used EXCEPT !.errors = @ + Cardinality(rejected)]
      BY <1>2 DEF BulkUpsert
    <2>2. ChunkKeys \in SUBSET (Roots \X Selected) /\ Cardinality(rejected) \in Nat
      BY ChunkFacts
    <2>3. used' \in Used /\ used'.setup = used.setup
      BY <2>1, <2>2, SpentFacts
    <2>4. docs' \in [Roots -> [Versions -> Doc]]
      BY <2>1, UpsertFacts
    <2>5. PICK T : T = {k[1] : k \in ChunkKeys \ rejected}
      OBVIOUS
    <2>6. T \in SUBSET Roots /\ rejected \in SUBSET (Roots \X Selected)
      BY <2>2, <2>5
    <2>7. w' = [w EXCEPT !.pc = "edges", !.rejected = rejected, !.todo = T]
      BY <2>1, <2>5
    <2>8. w' \in Walk
      BY <2>6, <2>7 DEF Walk
    <2>. QED  BY <1>2, <2>3, <2>4, <2>8 DEF BulkUpsert, TypeNext, source, store
  <1>3. CASE CountDocs
    <2>. DEFINE rejected == {r \in w.ids : Unsettled(r) /\ \E v \in Selected : <<r, v>> \in w.rejected}
                counted == {r \in w.ids : Unsettled(r)} \ rejected
                base == [r \in Roots |-> IF r \in counted THEN Counted(entry[r], Landed(r)) ELSE entry[r]]
                settling == {r \in counted : base[r].remaining = 0 /\ ~base[r].partial /\ base[r].nils # {}}
    <2>1. Fail(rejected, base, [w EXCEPT !.pc = "nils", !.todo = settling, !.rejected = {}], 0)
      BY <1>3, Zenon DEF CountDocs
    <2>2. w.ids \in SUBSET Roots
      BY WalkFacts
    <2>3. rejected \in SUBSET Roots /\ settling \in SUBSET Roots
      BY <2>2
    <2>4. base \in [Roots -> Entry]
      <3>1. ASSUME NEW r \in Roots
            PROVE  Counted(entry[r], Landed(r)) \in Entry
        <4>1. entry[r] \in EntryIn(used.setup) /\ Landed(r) \in SUBSET used.setup.selected
          BY EntrySets DEF Landed, Selected
        <4>. QED  BY <4>1, CountedTypes, SetupFacts, EntrySets
      <3>. QED  BY <3>1
    <2>. HIDE DEF rejected, settling, base
    <2>5. [w EXCEPT !.pc = "nils", !.todo = settling, !.rejected = {}] \in Walk
      BY <2>3 DEF Walk
    <2>6. docs' = docs /\ UNCHANGED <<source, changed, edges, live, job, exposed>>
      BY <1>3 DEF CountDocs
    <2>7. PICK S \in SUBSET Roots, b \in [Roots -> Entry], next \in Walk, n \in Nat : Fail(S, b, next, n)
      BY <2>1, <2>3, <2>4, <2>5
    <2>8. docs' \in [Roots -> [Versions -> Doc]]
      BY <2>6, TypeFacts DEF TypeNow
    <2>. QED  BY <2>6, <2>7, <2>8, TypeFail
  <1>4. ASSUME NEW r \in Roots, StoreEdges(r)
        PROVE  TypeNext
    <2>1. \A v \in Versions : v \in Landed(r) => Names(ChunkBody(r, v)) \in SUBSET Kids
      <3>1. ASSUME NEW v \in Versions, v \in Landed(r)
            PROVE  Names(ChunkBody(r, v)) \in SUBSET Kids
        <4>1. <<r, v>> \in ChunkKeys
          BY <3>1 DEF Landed
        <4>2. \A q, u : <<q, u>> \in ChunkKeys =>
                   \E it \in Range(w.chunk) : it.id = q /\ it.v = u /\ ChunkBody(q, u) = it.body
          BY ChunkFacts
        <4>3. PICK it \in Range(w.chunk) : it.id = r /\ it.v = v /\ ChunkBody(r, v) = it.body
          BY <4>1, <4>2
        <4>4. w.chunk \in Seq(Item)
          BY WalkFacts
        <4>5. it.body \in Body
          BY <4>4, ItemFacts
        <4>. QED  BY <4>3, <4>5, WriteTypes
      <3>. QED  BY <3>1
    <2>2. entry[r].occ \in Nat
      BY DEF Entry
    <2>3. \A v \in Versions : v \in Landed(r) => ReplacedSet(edges[r][v], entry[r].occ, Names(ChunkBody(r, v))) \in Edge
      BY <2>1, <2>2, WriteTypes
    <2>4. edges' = [edges EXCEPT ![r] = [v \in Versions |->
             IF v \in Landed(r) THEN ReplacedSet(edges[r][v], entry[r].occ, Names(ChunkBody(r, v)))
             ELSE edges[r][v]]]
      BY <1>4 DEF StoreEdges
    <2>5. edges' \in [Roots -> [Versions -> Edge]]
      BY <2>3, <2>4
    <2>6. w' \in Walk
      BY <1>1, <1>4 DEF StoreEdges
    <2>. QED  BY <1>4, <2>5, <2>6 DEF StoreEdges, TypeNext, source
  <1>5. ASSUME NEW r \in Roots, StoreEdgesFails(r)
        PROVE  TypeNext
    <2>1. /\ Fail({r}, entry, Took(r), 1) /\ docs' = docs
          /\ UNCHANGED <<source, changed, edges, live, job, exposed>>
      BY <1>5 DEF StoreEdgesFails
    <2>2. {r} \in SUBSET Roots /\ 1 \in Nat
      OBVIOUS
    <2>. QED  BY <1>1, <2>1, <2>2, TypeFail
  <1>. QED  BY <1>2, <1>3, <1>4, <1>5

\* The nils, the drift checks and what settles a root.
LEMMA TypeSettle ==
    ASSUME TypeOK,
           \/ CheckDrift \/ CheckDriftFails \/ Narrow
           \/ \E r \in Roots : \/ DropNils(r) \/ DropNilsFails(r) \/ LeaveGone(r) \/ Remark(r)
                               \/ Complete(r) \/ FailPartial(r) \/ RemoveRow(r)
    PROVE  TypeNext
  <1>. TypeNow
    BY TypeFacts
  <1>. USE DEF TypeNow
  <1>1. ASSUME NEW r
        PROVE  Took(r) \in Walk
    BY DEF Took, Walk
  <1>2. w.ids \in SUBSET Roots /\ w.todo \in SUBSET Roots
    BY WalkFacts
  <1>3. Checked \in SUBSET Roots
    BY <1>2 DEF Checked
  <1>4. ASSUME NEW r \in Roots, NEW next \in Walk, NEW cost \in Nat, Fail({r}, entry, next, cost),
               UNCHANGED <<source, changed, edges, live, job, exposed>>,
               docs' \in [Roots -> [Versions -> Doc]]
        PROVE  TypeNext
    BY <1>4, TypeFail
  <1>5. ASSUME NEW r \in Roots, rows' = MarkedRows({r}), seq' = seq + 1
        PROVE  rows' \in [Roots -> Row] /\ seq' \in Nat
    <2>1. {r} \in SUBSET Roots
      OBVIOUS
    <2>2. rows' \in [Roots -> Row]
      BY <1>5, <2>1, MarkFacts
    <2>3. seq' \in Nat
      BY <1>5
    <2>. QED  BY <2>2, <2>3
  <1>6. ASSUME NEW r \in Roots
        PROVE  Dropped(r) \in SUBSET Versions
    <2>1. entry[r].nils \in SUBSET Selected /\ Selected \subseteq Versions
      BY StateSets DEF Entry
    <2>. QED  BY <2>1 DEF Dropped
  <1>7. CASE CheckDrift
    <2>. DEFINE hit == \E r \in Checked : ChangedSince(r)
    <2>1. PICK pc : pc = IF hit /\ Cardinality(Checked) > 1 THEN "narrow" ELSE "remark"
      OBVIOUS
    <2>2. PICK T : T = IF hit THEN Checked ELSE {}
      OBVIOUS
    <2>3. PICK b : b = hit
      OBVIOUS
    <2>4. w' = [w EXCEPT !.pc = pc, !.hit = b, !.todo = T]
      BY <1>7, <2>1, <2>2, <2>3 DEF CheckDrift
    <2>5. pc \in {"narrow", "remark"} /\ T \in SUBSET Roots /\ b \in BOOLEAN
      BY <1>3, <2>1, <2>2, <2>3
    <2>6. w' \in Walk
      BY <2>4, <2>5, ZenonT(60) DEF Walk
    <2>. QED  BY <1>7, <2>6 DEF CheckDrift, TypeNext, source, store
  <1>8. CASE CheckDriftFails
    <2>1. w' \in Walk
      BY <1>3, <1>8, ZenonT(60) DEF CheckDriftFails, Walk
    <2>2. used' \in Used /\ used'.setup = used.setup
      BY <1>8, SpendFacts DEF CheckDriftFails
    <2>. QED  BY <1>8, <2>1, <2>2 DEF CheckDriftFails, TypeNext, source, store
  <1>9. CASE Narrow
    <2>1. PICK errs \in SUBSET w.todo :
            /\ used.errors + Cardinality(errs) <= MaxErrors
            /\ used' = [used EXCEPT !.errors = @ + Cardinality(errs)]
            /\ w' = [w EXCEPT !.pc = "remark",
                     !.todo = IF w.hit /\ {r \in w.todo \ errs : ChangedSince(r)} = {} THEN @
                              ELSE errs \cup {r \in w.todo \ errs : ChangedSince(r)}]
      BY <1>9 DEF Narrow
    <2>2. PICK T : T = IF w.hit /\ {r \in w.todo \ errs : ChangedSince(r)} = {} THEN w.todo
                       ELSE errs \cup {r \in w.todo \ errs : ChangedSince(r)}
      OBVIOUS
    <2>3. T \in SUBSET Roots
      BY <1>2, <2>2
    <2>4. w' = [w EXCEPT !.pc = "remark", !.todo = T]
      BY <2>1, <2>2
    <2>5. w' \in Walk
      BY <2>3, <2>4 DEF Walk
    <2>6. Cardinality(errs) \in Nat
      BY <1>2, StateSets
    <2>7. used' \in Used /\ used'.setup = used.setup
      BY <2>1, <2>6, SpentFacts
    <2>. QED  BY <1>9, <2>5, <2>7 DEF Narrow, TypeNext, source, store
  <1>10. ASSUME NEW r \in Roots, DropNils(r)
         PROVE  TypeNext
    <2>1. docs' \in [Roots -> [Versions -> Doc]]
      BY <1>6, <1>10, DeletedFacts DEF DropNils
    <2>2. entry[r].occ \in Nat
      BY DEF Entry
    <2>3. \A v \in Versions : RemovedSet(edges[r][v], entry[r].occ) \in Edge
                              /\ ReplacedSet(edges[r][v], entry[r].occ, {}) \in Edge
      <3>1. {} \in SUBSET Kids
        OBVIOUS
      <3>. QED  BY <2>2, <3>1, WriteTypes
    <2>4. edges' = [edges EXCEPT ![r] = [v \in Versions |->
             IF v \notin Dropped(r) THEN edges[r][v]
             ELSE IF w.how = "remove" THEN RemovedSet(edges[r][v], entry[r].occ)
             ELSE ReplacedSet(edges[r][v], entry[r].occ, {})]]
      BY <1>10 DEF DropNils
    <2>5. edges' \in [Roots -> [Versions -> Edge]]
      BY <2>3, <2>4
    <2>. QED  BY <1>1, <1>10, <2>1, <2>5 DEF DropNils, TypeNext, source
  <1>11. ASSUME NEW r \in Roots, DropNilsFails(r)
         PROVE  TypeNext
    <2>1. docs' \in [Roots -> [Versions -> Doc]]
      <3>1. PICK vs \in SUBSET Dropped(r) : docs' = Deleted(r, vs)
        BY <1>11 DEF DropNilsFails
      <3>2. vs \in SUBSET Versions
        BY <1>6
      <3>. QED  BY <3>1, <3>2, DeletedFacts
    <2>2. Fail({r}, entry, Took(r), 1) /\ UNCHANGED <<source, changed, edges, live, job, exposed>>
      BY <1>11 DEF DropNilsFails
    <2>. QED  BY <1>1, <1>4, <2>1, <2>2
  <1>12. ASSUME NEW r \in Roots, LeaveGone(r)
         PROVE  TypeNext
    <2>1. docs' = docs /\ UNCHANGED <<source, changed, edges, live, job, exposed>>
      BY <1>12 DEF LeaveGone
    <2>2. CASE Fail({r}, entry, w, 1)
      BY <1>4, <2>1, <2>2
    <2>3. CASE rows' = MarkedRows({r}) /\ seq' = seq + 1 /\ Settle(r) /\ UNCHANGED <<w, used>>
      <3>1. entry' \in [Roots -> Entry] /\ rows' \in [Roots -> Row] /\ seq' \in Nat
        BY <1>5, <2>3, SettleFacts
      <3>. QED  BY <2>1, <2>3, <3>1 DEF TypeNext, source
    <2>. QED  BY <1>12, <2>2, <2>3 DEF LeaveGone
  <1>13. ASSUME NEW r \in Roots, Remark(r)
         PROVE  TypeNext
    <2>1. docs' = docs /\ UNCHANGED <<source, changed, edges, live, job, exposed>>
      BY <1>13 DEF Remark
    <2>2. CASE Fail({r}, entry, Took(r), 1)
      BY <1>1, <1>4, <2>1, <2>2
    <2>3. CASE rows' = MarkedRows({r}) /\ seq' = seq + 1 /\ w' = Took(r) /\ UNCHANGED <<entry, used>>
      <3>1. rows' \in [Roots -> Row] /\ seq' \in Nat /\ w' \in Walk
        BY <1>1, <1>5, <2>3
      <3>. QED  BY <2>1, <2>3, <3>1 DEF TypeNext, source
    <2>. QED  BY <1>13, <2>2, <2>3 DEF Remark
  <1>14. ASSUME NEW r \in Roots, Complete(r)
         PROVE  TypeNext
    <2>1. entry' \in [Roots -> Entry]
      BY <1>14, SettleFacts DEF Complete
    <2>2. \/ rows' = [rows EXCEPT ![r] = IF @.present THEN ClearedRow(@, entry[r].mark) ELSE @] /\ used' = used
          \/ CanErr /\ Spend("errors") /\ rows' = rows
      BY <1>14 DEF Complete
    <2>3. entry[r].mark \in Nat
      BY DEF Entry
    <2>4. ClearedRow(rows[r], entry[r].mark) \in Row
      BY <2>3, RowTypes
    <2>5. rows' \in [Roots -> Row]
      BY <2>2, <2>4
    <2>6. used' \in Used /\ used'.setup = used.setup
      BY <2>2, SpendFacts
    <2>. QED  BY <1>14, <2>1, <2>5, <2>6 DEF Complete, TypeNext, source
  <1>15. ASSUME NEW r \in Roots, FailPartial(r)
         PROVE  TypeNext
    <2>1. /\ Fail({r}, entry, w, 0) /\ docs' = docs
          /\ UNCHANGED <<source, changed, edges, live, job, exposed>>
      BY <1>15 DEF FailPartial
    <2>. QED  BY <1>4, <2>1
  <1>16. ASSUME NEW r \in Roots, RemoveRow(r)
         PROVE  TypeNext
    <2>. DEFINE drops == DropsRow(rows[r], entry[r].mark)
    <2>1. /\ UNCHANGED <<source, edges, docs, live, job, exposed>>
          /\ \/ /\ rows' = IF drops THEN [rows EXCEPT ![r] = NoRow] ELSE rows
                /\ changed' = IF drops THEN [changed EXCEPT ![r] = 0] ELSE changed
                /\ Settle(r)
                /\ UNCHANGED <<seq, w, used>>
             \/ Fail({r}, entry, w, 1) /\ UNCHANGED changed
      BY <1>16 DEF RemoveRow
    <2>. HIDE DEF drops
    <2>2. CASE Fail({r}, entry, w, 1) /\ UNCHANGED changed
      BY <1>4, <2>1, <2>2
    <2>3. CASE /\ rows' = IF drops THEN [rows EXCEPT ![r] = NoRow] ELSE rows
               /\ changed' = IF drops THEN [changed EXCEPT ![r] = 0] ELSE changed
               /\ Settle(r)
               /\ UNCHANGED <<seq, w, used>>
      <3>1. rows' \in [Roots -> Row] /\ changed' \in [Things -> Nat]
        BY <2>3, RowTypes
      <3>2. entry' \in [Roots -> Entry]
        BY <2>3, SettleFacts
      <3>. QED  BY <2>1, <2>3, <3>1, <3>2 DEF TypeNext, source
    <2>. QED  BY <2>1, <2>2, <2>3
  <1>. QED  BY <1>7, <1>8, <1>9, <1>10, <1>11, <1>12, <1>13, <1>14, <1>15, <1>16

\* The return to the loop.
LEMMA TypeReturn ==
    ASSUME TypeOK, FlusherReturns
    PROVE  TypeNext
  <1>. TypeNow
    BY TypeFacts
  <1>. USE DEF TypeNow
  <1>1. PICK p : p = w.ret
    OBVIOUS
  <1>2. PICK q \in Seq(Item) : q = <<>>
    BY EmptyFacts
  <1>3. w' = [w EXCEPT !.pc = p, !.how = "flush", !.ret = "walk", !.ids = {}, !.chunk = q, !.hit = FALSE]
    BY <1>1, <1>2 DEF FlusherReturns
  <1>4. p \in {"plan", "walk", "finish"}
    BY <1>1, WalkFacts
  <1>5. w' \in Walk
    BY <1>3, <1>4 DEF Walk
  <1>6. job' \in Job
    <2>1. job.recorded \in Nat /\ w.completed \in Nat
      BY WalkFacts DEF Job
    <2>2. CASE Checkpoints
      <3>1. PICK c \in {job.recorded, w.completed} :
              job' = [job EXCEPT !.latest = w.completed, !.recorded = c]
        BY <2>2 DEF FlusherReturns
      <3>. QED  BY <2>1, <3>1 DEF Job
    <2>3. CASE ~Checkpoints
      BY <2>3 DEF FlusherReturns
    <2>. QED  BY <2>2, <2>3
  <1>. QED  BY <1>5, <1>6 DEF FlusherReturns, TypeNext, source, store

\* Every step keeps the types.
LEMMA TypeStep ==
    ASSUME TypeOK, Next, Placed(used.setup, w), Cursor(used.setup, w, job),
           \A r \in Roots : CountNil(r) => entry[r].remaining >= 1
    PROVE  TypeNext
  <1>1. CASE WalkStep
    <2>1. CASE LoopStep
      BY <2>1, TypeAttempts, TypeLoop, TypeBatch, TypeFinish DEF LoopStep
    <2>2. CASE FlushStep
      BY <2>2, TypeBulk, TypeSettle, TypeReturn DEF FlushStep
    <2>3. ASSUME NEW r \in Roots, ItemStep(r)
          PROVE  TypeNext
      BY <2>3, TypeItem
    <2>4. ASSUME NEW r \in Roots, SettleStep(r)
          PROVE  TypeNext
      BY <2>4, TypeBulk, TypeSettle DEF SettleStep
    <2>. QED  BY <1>1, <2>1, <2>2, <2>3, <2>4 DEF WalkStep
  <1>2. CASE Beat \/ Rest
    BY <1>2, TypeAttempts
  <1>3. CASE Failure
    <2>1. CASE Abort \/ Crash \/ BulkFails
      BY <2>1, TypeAttempts
    <2>2. CASE BatchFails \/ CheckDriftFails
      BY <2>2, TypeBatch, TypeSettle
    <2>3. ASSUME NEW r \in Roots, BeginItemFails(r)
          PROVE  TypeNext
      BY <2>3, TypeItem
    <2>4. ASSUME NEW r \in Roots, StoreEdgesFails(r) \/ DropNilsFails(r)
          PROVE  TypeNext
      BY <2>4, TypeBulk, TypeSettle
    <2>. QED  BY <1>3, <2>1, <2>2, <2>3, <2>4 DEF Failure
  <1>4. CASE \/ \E r \in Roots : ChangeRoot(r) \/ LiveBegin(r)
             \/ \E c \in Kids : ChangeKid(c)
             \/ \E y \in Things : Register(y)
    BY <1>4, TypeSource
  <1>5. ASSUME NEW r \in Roots, LiveEnd(r)
        PROVE  TypeNext
    BY <1>5, TypeLiveEnd
  <1>. QED  BY <1>1, <1>2, <1>3, <1>4, <1>5 DEF Next

-----------------------------------------------------------------------------
(* The walk: what holds of it after every step *)

\* An idle walk has nothing in hand.
LEMMA IdleFacts ==
    ASSUME NEW s
    PROVE  WalkOK(s, IdleWalk)
  <1>1. /\ IdleWalk.pc = "idle" /\ IdleWalk.how = "flush" /\ IdleWalk.ids = {} /\ IdleWalk.todo = {}
        /\ IdleWalk.next = 1 /\ IdleWalk.start = 0 /\ IdleWalk.inbox = <<>> /\ IdleWalk.no = 0
        /\ IdleWalk.page = <<>> /\ IdleWalk.pending = <<>> /\ IdleWalk.chunk = <<>>
    BY DEF IdleWalk
  <1>2. Placed(s, IdleWalk)
    BY <1>1 DEF Placed, At, Waiting, Flusher, Applying
  <1>3. Range(<<>>) = {}
    BY EmptyFacts
  <1>4. Ordered(<<>>)
    BY DEF Ordered
  <1>. QED  BY <1>1, <1>2, <1>3, <1>4 DEF WalkOK, Found, Paged, AllNew, Waiting

\* fail only takes from the queue.
LEMMA FailWalk ==
    ASSUME NEW s, NEW x \in Walk, x.pc # "idle", NEW S, NEW any \in BOOLEAN, NEW mark \in BOOLEAN,
           NEW y, y = Failed(x, S, any, mark), WalkOK(s, x)
    PROVE  WalkOK(s, y)
  <1>1. /\ y.pc = x.pc /\ y.how = x.how /\ y.ret = x.ret /\ y.left = x.left /\ y.start = x.start
        /\ y.next = x.next /\ y.inbox = x.inbox /\ y.no = x.no /\ y.page = x.page
        /\ y.chunk = x.chunk /\ y.ids = x.ids /\ y.todo = x.todo
    BY FailedFacts
  <1>2. /\ Range(y.pending) \in SUBSET Range(x.pending)
        /\ x.pending = <<>> => y.pending = <<>>
    <2>1. y.pending = Without(x.pending, S) /\ x.pending \in Seq(Item)
      BY FailedFacts, WalkFacts
    <2>. QED  BY <2>1, WithoutFacts
  <1>3. Placed(s, y)
    <2>1. Placed(s, x)
      BY DEF WalkOK
    <2>. QED  BY <1>1, <1>2, <2>1 DEF Placed, At, Waiting
  <1>4. Found(y) /\ Paged(s, y) /\ AllNew(y)
    BY <1>1, <1>2 DEF WalkOK, Found, Paged, AllNew, Waiting
  <1>. QED  BY <1>3, <1>4 DEF WalkOK

\* The queue handed to the flusher.
LEMMA FlushWalk ==
    ASSUME NEW s, NEW x \in Walk, NEW ret \in {"plan", "walk", "finish"}, x.pc = ret,
           NEW y, y = Flushing(x, ret), WalkOK(s, x)
    PROVE  WalkOK(s, y)
  <1>1. /\ y.left = x.left /\ y.start = x.start /\ y.next = x.next /\ y.inbox = x.inbox
        /\ y.no = x.no /\ y.page = x.page /\ y.todo = x.todo
    BY FlushingFacts
  <1>2. Placed(s, x) /\ Found(x) /\ Paged(s, x) /\ AllNew(x)
    BY DEF WalkOK
  <1>3. CASE x.pending = <<>>
    <2>1. y.pc = ret /\ y.how = x.how /\ y.ret = x.ret /\ y.chunk = x.chunk /\ y.pending = <<>> /\ y.ids = x.ids
      BY <1>3, FlushingFacts
    <2>2. Placed(s, y)
      BY <1>1, <1>2, <1>3, <2>1 DEF Placed, At, Waiting, Flusher, Applying
    <2>. QED  BY <1>1, <1>2, <1>3, <2>1, <2>2 DEF WalkOK, Found, Paged, AllNew, Waiting
  <1>4. CASE x.pending # <<>>
    <2>1. y.pc = "bulk" /\ y.how = "flush" /\ y.ret = ret /\ y.chunk = x.pending /\ y.pending = <<>>
          /\ y.ids = IdsIn(x.pending)
      BY <1>4, FlushingFacts
    <2>2. At(y) = At(x) /\ Waiting(y)
      BY <2>1 DEF At, Flusher, Applying, Waiting
    <2>3. Placed(s, y)
      BY <1>1, <1>2, <2>1, <2>2 DEF Placed, Flusher, Applying
    <2>4. Range(<<>>) = {}
      BY EmptyFacts
    <2>5. Found(y) /\ Paged(s, y) /\ AllNew(y)
      BY <1>1, <1>2, <2>1, <2>2, <2>4 DEF Found, Paged, AllNew
    <2>. QED  BY <2>3, <2>5 DEF WalkOK
  <1>. QED  BY <1>3, <1>4

\* What is left of an ordered queue is ordered.
LEMMA OrderedTail ==
    ASSUME NEW S, NEW q \in Seq(S), q # <<>>, Ordered(q)
    PROVE  /\ Ordered(Tail(q))
           /\ \A i \in DOMAIN Tail(q) : Tail(q)[i].id = Head(q).id =>
                 Tail(q)[i].v # Head(q).v /\ (Head(q).body.found => Head(q).v < Tail(q)[i].v)
  <1>1. /\ Len(q) \in Nat \ {0} /\ DOMAIN q = 1 .. Len(q) /\ DOMAIN Tail(q) = 1 .. Len(q) - 1 /\ Head(q) = q[1]
        /\ \A i \in DOMAIN Tail(q) : Tail(q)[i] = q[i + 1]
    BY TailFacts
  <1>2. \A i \in DOMAIN Tail(q) : i + 1 \in DOMAIN q /\ 1 < i + 1 /\ 1 \in DOMAIN q
    BY <1>1
  <1>3. \A i, j \in DOMAIN Tail(q) : i < j => i + 1 < j + 1
    BY <1>1
  <1>4. Ordered(Tail(q))
    BY <1>1, <1>2, <1>3 DEF Ordered
  <1>. QED  BY <1>1, <1>2, <1>4 DEF Ordered

\* The item at the head of the page is done with.
LEMMA ItemWalk ==
    ASSUME TypeOK, WalkInv, w.pc = "walk", w.page # <<>>
    PROVE  /\ WalkOK(used.setup, ItemDone) /\ ItemDone \in Walk
           /\ ItemDone.pc = "walk" /\ ItemDone.pending = w.pending /\ ItemDone.chunk = w.chunk
           /\ ItemDone.page = Tail(w.page) /\ ItemDone.left = w.left /\ ItemDone.next = w.next
           /\ ItemDone.start = w.start /\ ItemDone.inbox = w.inbox /\ ItemDone.no = w.no
           /\ ItemDone.completed = w.completed /\ ItemDone.ids = w.ids /\ ItemDone.todo = w.todo
           /\ ItemDone.how = w.how /\ ItemDone.ret = w.ret /\ ItemDone.rejected = w.rejected
           /\ ItemDone.anyFailed = w.anyFailed /\ ItemDone.markFailed = w.markFailed
  <1>. DEFINE s == used.setup
  <1>1. w \in Walk /\ w.page \in Seq(Item)
    BY WalkFacts DEF TypeOK
  <1>2. PICK q : q = Tail(w.page)
    OBVIOUS
  <1>3. q \in Seq(Item) /\ Range(q) \in SUBSET Range(w.page) /\ ItemDone \in Walk /\ ItemDone = [w EXCEPT !.page = q]
    BY <1>2, HeadFacts
  <1>4. PICK y \in Walk : y = ItemDone
    BY <1>3
  <1>5. /\ y.page = q /\ y.pc = w.pc /\ y.how = w.how /\ y.ret = w.ret /\ y.left = w.left /\ y.start = w.start
        /\ y.next = w.next /\ y.inbox = w.inbox /\ y.no = w.no /\ y.pending = w.pending
        /\ y.chunk = w.chunk /\ y.rejected = w.rejected /\ y.ids = w.ids /\ y.todo = w.todo
        /\ y.completed = w.completed /\ y.anyFailed = w.anyFailed /\ y.markFailed = w.markFailed
    BY <1>1, <1>3, <1>4 DEF Walk
  <1>6. Placed(s, w) /\ Found(w) /\ Paged(s, w) /\ AllNew(w)
    BY DEF WalkInv, WalkOK
  <1>7. Placed(s, y)
    BY <1>5, <1>6 DEF Placed, At, Waiting, Flusher, Applying
  <1>8. Found(y) /\ AllNew(y)
    BY <1>3, <1>5, <1>6 DEF Found, AllNew, Waiting
  <1>9. Paged(s, y)
    <2>1. Ordered(w.page) => Ordered(q)
      BY <1>1, <1>2, OrderedTail
    <2>. QED  BY <1>3, <1>5, <1>6, <2>1 DEF Paged
  <1>. QED  BY <1>2, <1>4, <1>5, <1>7, <1>8, <1>9 DEF WalkOK

\* Into the flusher with a nil that was a root's last outcome.
Nilled(x, how, r) == [x EXCEPT !.pc = "nils", !.how = how, !.ret = "walk", !.ids = {r}, !.todo = {r}]

\* The rest of the walk is as it was.
LEMMA NilWalk ==
    ASSUME NEW s, NEW x \in Walk, NEW r, NEW how \in {"nil", "leave", "remove"}, x.pc = "walk",
           NEW y \in Walk, y = Nilled(x, how, r),
           WalkOK(s, x)
    PROVE  /\ WalkOK(s, y)
           /\ y.pc = "nils" /\ y.how = how /\ y.ret = "walk" /\ y.ids = {r} /\ y.todo = {r}
           /\ y.left = x.left /\ y.start = x.start /\ y.next = x.next /\ y.inbox = x.inbox
           /\ y.no = x.no /\ y.page = x.page /\ y.pending = x.pending /\ y.chunk = x.chunk
           /\ y.completed = x.completed /\ y.anyFailed = x.anyFailed /\ y.markFailed = x.markFailed
  <1>1. /\ y.pc = "nils" /\ y.how = how /\ y.ret = "walk" /\ y.ids = {r} /\ y.todo = {r}
        /\ y.left = x.left /\ y.start = x.start /\ y.next = x.next /\ y.inbox = x.inbox
        /\ y.no = x.no /\ y.page = x.page /\ y.pending = x.pending /\ y.chunk = x.chunk
        /\ y.completed = x.completed /\ y.anyFailed = x.anyFailed /\ y.markFailed = x.markFailed
    BY DEF Walk, Nilled
  <1>2. Placed(s, x) /\ Found(x) /\ Paged(s, x) /\ AllNew(x)
    BY DEF WalkOK
  <1>3. Placed(s, y)
    BY <1>1, <1>2 DEF Placed, At, Waiting, Flusher, Applying
  <1>4. Found(y) /\ Paged(s, y) /\ AllNew(y)
    BY <1>1, <1>2 DEF Found, Paged, AllNew, Waiting
  <1>. QED  BY <1>1, <1>3, <1>4 DEF WalkOK

\* The walk with one more document in its queue.
Queued(x, it) == [x EXCEPT !.pending = Append(x.pending, it)]

\* It differs in its queue.
LEMMA QueueWalk ==
    ASSUME TypeOK, NEW s, NEW x \in Walk, NEW it \in Item, x.pc = "walk", it.body.found, New(it.body),
           NEW y, y = Queued(x, it), WalkOK(s, x)
    PROVE  /\ WalkOK(s, y) /\ y \in Walk
           /\ Range(y.pending) = Range(x.pending) \cup {it}
           /\ y.pc = x.pc /\ y.how = x.how /\ y.ret = x.ret /\ y.left = x.left /\ y.start = x.start
           /\ y.next = x.next /\ y.inbox = x.inbox /\ y.no = x.no /\ y.page = x.page
           /\ y.chunk = x.chunk /\ y.ids = x.ids /\ y.todo = x.todo /\ y.completed = x.completed
           /\ y.anyFailed = x.anyFailed /\ y.markFailed = x.markFailed
  <1>0. x.pending \in Seq(Item)
    BY WalkFacts
  <1>1. PICK q : q = Append(x.pending, it)
    OBVIOUS
  <1>2. q \in Seq(Item) /\ Range(q) = Range(x.pending) \cup {it}
    BY <1>0, <1>1, AppendFacts
  <1>3. y = [x EXCEPT !.pending = q]
    BY <1>1 DEF Queued
  <1>4. /\ y \in Walk /\ y.pending = q
        /\ y.pc = x.pc /\ y.how = x.how /\ y.ret = x.ret /\ y.left = x.left /\ y.start = x.start
        /\ y.next = x.next /\ y.inbox = x.inbox /\ y.no = x.no /\ y.page = x.page
        /\ y.chunk = x.chunk /\ y.ids = x.ids /\ y.todo = x.todo /\ y.completed = x.completed
        /\ y.anyFailed = x.anyFailed /\ y.markFailed = x.markFailed
    BY <1>2, <1>3, ZenonT(60) DEF Walk
  <1>5. Placed(s, x) /\ Found(x) /\ Paged(s, x) /\ AllNew(x)
    BY DEF WalkOK
  <1>6. Placed(s, y)
    BY <1>4, <1>5 DEF Placed, At, Waiting, Flusher, Applying
  <1>7. Found(y) /\ Paged(s, y) /\ AllNew(y)
    BY <1>2, <1>4, <1>5 DEF Found, Paged, AllNew, Waiting
  <1>. QED  BY <1>2, <1>4, <1>6, <1>7 DEF WalkOK

\* The attempts and the page loop.
LEMMA WalkLoop ==
    ASSUME TypeOK, WalkInv, \A r \in Roots : src[r] >= 1,
           \/ StartAttempt \/ Execute \/ FlushBeforePlan \/ FetchPage \/ TakePage \/ PageConsumed \/ EndPlan
           \/ Finish \/ Crash \/ Abort \/ BulkFails
    PROVE  WalkOK(used.setup, w')
  <1>. DEFINE s == used.setup
  <1>0. w \in Walk /\ Placed(s, w) /\ Found(w) /\ Paged(s, w) /\ AllNew(w) /\ Targeted = Given(s)
    BY StateSets DEF TypeOK, WalkInv, WalkOK
  <1>1. Range(<<>>) = {} /\ Ordered(<<>>)
    BY EmptyFacts DEF Ordered
  <1>2. CASE w' = IdleWalk
    BY <1>2, IdleFacts
  <1>3. CASE Crash \/ Abort \/ BulkFails
    BY <1>2, <1>3 DEF Crash, Abort, BulkFails, Salvage, Forget
  <1>4. CASE Finish
    <2>1. CASE w.pending = <<>>
      BY <1>2, <1>4, <2>1 DEF Finish, Forget
    <2>2. CASE w.pending # <<>>
      <3>1. w' = Flushing(w, "finish") /\ w.pc = "finish"
        BY <1>4, <2>2 DEF Finish
      <3>. QED  BY <1>0, <3>1, FlushWalk DEF WalkInv
    <2>. QED  BY <2>1, <2>2
  <1>5. CASE StartAttempt
    <2>1. PICK x \in Walk : x = IdleWalk
      <3>1. IdleWalk \in Walk
        BY DEF IdleWalk, Walk
      <3>. QED  BY <3>1
    <2>2. job.recorded \in Nat
      BY DEF TypeOK, Job
    <2>3. PICK f \in Nat : f = FirstPage
      BY <2>2 DEF FirstPage
    <2>4. f >= 1
      BY <2>2, <2>3 DEF FirstPage
    <2>5. PICK l : l = FirstLoop
      OBVIOUS
    <2>6. w' = [x EXCEPT !.pc = l, !.left = Selected, !.next = f]
      BY <1>5, <2>1, <2>3, <2>5 DEF StartAttempt
    <2>7. /\ x.how = "flush" /\ x.ids = {} /\ x.todo = {} /\ x.start = 0 /\ x.inbox = <<>> /\ x.no = 0
          /\ x.page = <<>> /\ x.pending = <<>> /\ x.chunk = <<>>
      BY <2>1 DEF IdleWalk
    <2>8. /\ w'.pc = l /\ w'.left = Selected /\ w'.next = f
          /\ w'.how = x.how /\ w'.ids = x.ids /\ w'.todo = x.todo /\ w'.start = x.start /\ w'.inbox = x.inbox
          /\ w'.no = x.no /\ w'.page = x.page /\ w'.pending = x.pending /\ w'.chunk = x.chunk
      BY <2>6 DEF Walk
    <2>9. l = IF Given(s) THEN "batch" ELSE "plan"
      BY <1>0, <2>5 DEF FirstLoop
    <2>10. Selected # {}
      BY StateSets
    <2>11. Placed(s, w')
      BY <2>4, <2>7, <2>8, <2>9, <2>10 DEF Placed, At, Waiting, Flusher, Applying
    <2>. QED  BY <1>1, <2>7, <2>8, <2>9, <2>11 DEF WalkOK, Found, Paged, AllNew, Waiting
  <1>6. CASE Execute
    <2>1. PICK n \in Nat : n = seq + 1 /\ n # 0
      BY DEF TypeOK
    <2>2. w' = [w EXCEPT !.pc = "walk", !.start = n] /\ w.pc = "plan"
      BY <1>6, <2>1 DEF Execute
    <2>3. /\ w'.pc = "walk" /\ w'.start = n /\ w'.left = w.left /\ w'.next = w.next /\ w'.how = w.how
          /\ w'.ids = w.ids /\ w'.todo = w.todo /\ w'.inbox = w.inbox /\ w'.no = w.no /\ w'.page = w.page
          /\ w'.pending = w.pending /\ w'.chunk = w.chunk
      BY <1>0, <2>2 DEF Walk
    <2>4. Placed(s, w')
      BY <1>0, <2>1, <2>2, <2>3 DEF Placed, At, Waiting, Flusher, Applying
    <2>. QED  BY <1>0, <1>1, <2>2, <2>3, <2>4 DEF WalkOK, Found, Paged, AllNew, Waiting
  <1>7. CASE FlushBeforePlan
    <2>1. w' = Flushing(w, "plan") /\ w.pc = "plan"
      BY <1>7 DEF FlushBeforePlan
    <2>. QED  BY <1>0, <2>1, FlushWalk DEF WalkInv
  <1>8. CASE FetchPage
    <2>0. w.start # 0
      BY <1>8 DEF FetchPage
    <2>1. PICK items \in Seq(Item) :
            /\ w' = [w EXCEPT !.next = w.next + 1,
                              !.inbox = Append(w.inbox, [no |-> w.next, items |-> items])]
            /\ [no |-> w.next, items |-> items] \in Page
            /\ \A it \in Range(items) : it.v = Plan /\ it.body = Truth(it.id, Plan)
      BY <1>0, <1>8, FetchFacts
    <2>2. PICK p \in Page : p = [no |-> w.next, items |-> items]
      BY <2>1
    <2>3. w.inbox \in Seq(Page) /\ w.next \in Nat /\ w.next >= 1
      BY <1>0, WalkFacts DEF Placed
    <2>4. PICK q : q = Append(w.inbox, p)
      OBVIOUS
    <2>5. Range(q) = Range(w.inbox) \cup {p}
      BY <2>3, <2>4, AppendFacts
    <2>6. PICK n \in Nat : n = w.next + 1 /\ n >= 1
      BY <2>3
    <2>7. w' = [w EXCEPT !.next = n, !.inbox = q]
      BY <2>1, <2>2, <2>4, <2>6
    <2>8. /\ w'.pc = w.pc /\ w'.start = w.start /\ w'.left = w.left /\ w'.next = n /\ w'.how = w.how
          /\ w'.ids = w.ids /\ w'.todo = w.todo /\ w'.inbox = q /\ w'.no = w.no /\ w'.page = w.page
          /\ w'.pending = w.pending /\ w'.chunk = w.chunk /\ w'.ret = w.ret
      BY <1>0, <2>7 DEF Walk
    <2>9. ~Given(s) /\ At(w) = "walk" /\ Plan = LeastOf(w.left) /\ Plan \in Versions
      BY <1>0, <2>0, PlanFacts
    <2>10. Placed(s, w')
      <3>1. w.pc # "idle"
        BY <2>9 DEF At, Flusher, Applying
      <3>. QED  BY <1>0, <2>0, <2>6, <2>8, <2>9, <3>1 DEF Placed, At, Waiting
    <2>11. p.items = items /\ p.no = w.next
      BY <2>2
    <2>12. \A it \in Range(items) : New(it.body)
      <3>1. ASSUME NEW it \in Range(items)
            PROVE  New(it.body)
        <4>1. it.id \in Roots /\ it.body = Truth(it.id, Plan)
          BY <2>1, ItemFacts
        <4>2. Truth(it.id, Plan).found => Truth(it.id, Plan).n = src[it.id]
          BY <2>9, <4>1, TruthFacts
        <4>. QED  BY <4>1, <4>2 DEF New
      <3>. QED  BY <3>1
    <2>13. Found(w')
      BY <1>0, <2>8 DEF Found, Waiting
    <2>14. Paged(s, w')
      <3>1. p.no # 0 /\ \A it \in Range(p.items) : it.v = LeastOf(w.left)
        BY <2>1, <2>3, <2>9, <2>11
      <3>. QED  BY <1>0, <2>5, <2>8, <2>9, <3>1 DEF Paged
    <2>15. AllNew(w')
      BY <1>0, <2>5, <2>8, <2>11, <2>12 DEF AllNew
    <2>. QED  BY <2>10, <2>13, <2>14, <2>15 DEF WalkOK
  <1>9. CASE TakePage
    <2>1. w.pc = "walk" /\ ~Given(s) /\ w.no = 0 /\ w.inbox # <<>>
      BY <1>0, <1>9 DEF TakePage
    <2>2. w.inbox \in Seq(Page)
      BY <1>0, WalkFacts
    <2>3. PICK p : p = Head(w.inbox)
      OBVIOUS
    <2>4. PICK q : q = Tail(w.inbox)
      OBVIOUS
    <2>5. p \in Page /\ q \in Seq(Page) /\ Range(w.inbox) = {p} \cup Range(q)
      BY <2>1, <2>2, <2>3, <2>4, TailFacts
    <2>6. w' = [w EXCEPT !.no = p.no, !.page = p.items, !.inbox = q]
      BY <1>9, <2>3, <2>4 DEF TakePage
    <2>7. /\ w'.pc = w.pc /\ w'.start = w.start /\ w'.left = w.left /\ w'.next = w.next /\ w'.how = w.how
          /\ w'.ids = w.ids /\ w'.todo = w.todo /\ w'.inbox = q /\ w'.no = p.no /\ w'.page = p.items
          /\ w'.pending = w.pending /\ w'.chunk = w.chunk /\ w'.ret = w.ret
      BY <1>0, <2>6 DEF Walk
    <2>8. p.no # 0
      BY <1>0, <2>1, <2>5 DEF Paged
    <2>9. Placed(s, w')
      BY <1>0, <2>1, <2>7, <2>8 DEF Placed, At, Waiting, Flusher, Applying
    <2>10. Found(w')
      BY <1>0, <2>7 DEF Found, Waiting
    <2>11. Paged(s, w')
      BY <1>0, <2>1, <2>5, <2>7 DEF Paged
    <2>12. AllNew(w')
      BY <1>0, <2>5, <2>7 DEF AllNew
    <2>. QED  BY <2>9, <2>10, <2>11, <2>12 DEF WalkOK
  <1>10. CASE PageConsumed
    <2>1. w.pc = "walk" /\ w.no # 0 /\ w.page = <<>>
      BY <1>10 DEF PageConsumed
    <2>2. PICK c : c = IF Resumable /\ ~LastPage(w.no) THEN w.no ELSE w.completed
      OBVIOUS
    <2>3. c \in Nat
      BY <1>0, <2>2, WalkFacts
    <2>4. PICK y : y = [w EXCEPT !.no = 0, !.completed = c]
      OBVIOUS
    <2>5. y \in Walk
      BY <1>0, <2>3, <2>4 DEF Walk
    <2>6. w' = Flushing(y, "walk") \/ w' = y
      BY <1>10, <2>2, <2>4 DEF PageConsumed
    <2>7. /\ y.pc = w.pc /\ y.start = w.start /\ y.left = w.left /\ y.next = w.next /\ y.how = w.how
          /\ y.ids = w.ids /\ y.todo = w.todo /\ y.inbox = w.inbox /\ y.no = 0 /\ y.page = w.page
          /\ y.pending = w.pending /\ y.chunk = w.chunk /\ y.ret = w.ret
      BY <1>0, <2>4 DEF Walk
    <2>8. Placed(s, y)
      BY <1>0, <2>1, <2>7 DEF Placed, At, Waiting, Flusher, Applying
    <2>9. WalkOK(s, y)
      BY <1>0, <2>7, <2>8 DEF WalkOK, Found, Paged, AllNew, Waiting
    <2>10. y.pc = "walk"
      BY <2>1, <2>7
    <2>11. WalkOK(s, Flushing(y, "walk"))
      BY <2>5, <2>9, <2>10, FlushWalk
    <2>. QED  BY <2>6, <2>9, <2>11
  <1>11. CASE EndPlan
    <2>1. w.pc = "walk" /\ ~Given(s) /\ w.no = 0 /\ w.inbox = <<>>
      BY <1>0, <1>11 DEF EndPlan
    <2>2. PICK L : L = w.left \ {Plan}
      OBVIOUS
    <2>3. PICK pc : pc = IF L = {} THEN "finish" ELSE "plan"
      OBVIOUS
    <2>4. w' = [w EXCEPT !.pc = pc, !.left = L, !.start = 0, !.next = 1]
      BY <1>11, <2>2, <2>3 DEF EndPlan
    <2>5. /\ w'.pc = pc /\ w'.start = 0 /\ w'.left = L /\ w'.next = 1 /\ w'.how = w.how
          /\ w'.ids = w.ids /\ w'.todo = w.todo /\ w'.inbox = w.inbox /\ w'.no = w.no /\ w'.page = w.page
          /\ w'.pending = w.pending /\ w'.chunk = w.chunk /\ w'.ret = w.ret
      BY <1>0, <2>4 DEF Walk
    <2>6. w.page = <<>>
      BY <1>0, <2>1 DEF Placed
    <2>7. Placed(s, w')
      BY <1>0, <2>1, <2>3, <2>5, <2>6 DEF Placed, At, Waiting, Flusher, Applying
    <2>. QED  BY <1>0, <1>1, <2>1, <2>3, <2>5, <2>6, <2>7 DEF WalkOK, Found, Paged, AllNew, Waiting
  <1>. QED  BY <1>3, <1>4, <1>5, <1>6, <1>7, <1>8, <1>9, <1>10, <1>11

\* A step that ends with fail.
LEMMA FailStep ==
    ASSUME TypeOK, NEW S \in SUBSET Roots, NEW base \in [Roots -> Entry], NEW next \in Walk,
           NEW cost \in Nat, Fail(S, base, next, cost), next.pc # "idle", NEW s, WalkOK(s, next)
    PROVE  WalkOK(s, w')
  <1>1. PICK lost \in SUBSET S, any \in BOOLEAN, mark \in BOOLEAN : FailsTo(S, base, next, lost, any, mark)
    BY FailFacts
  <1>. QED  BY <1>1, FailWalk DEF FailsTo

\* The items of a page.
LEMMA WalkItems ==
    ASSUME TypeOK, TypeNext, WalkInv, NEW r \in Roots, ItemStep(r) \/ BeginItemFails(r),
           CountNil(r) => entry[r].remaining >= 1
    PROVE  WalkOK(used.setup, w')
  <1>. DEFINE s == used.setup
  <1>1. w.pc = "walk" /\ w.page # <<>>
    BY DEF ItemStep, BeginItem, AddDoc, SkipItem, Contradiction, CountNil, BeginItemFails, AtItem
  <1>2. PICK x \in Walk : x = ItemDone
    BY <1>1, ItemWalk
  <1>3. WalkOK(s, x) /\ x.pc = "walk"
    BY <1>1, <1>2, ItemWalk
  <1>4. entry \in [Roots -> Entry] /\ {r} \in SUBSET Roots /\ 0 \in Nat /\ 1 \in Nat
    BY DEF TypeOK
  <1>5. CASE BeginItem(r)
    BY <1>5 DEF BeginItem, WalkInv
  <1>6. CASE SkipItem(r)
    BY <1>2, <1>3, <1>6 DEF SkipItem
  <1>7. CASE Contradiction(r)
    <2>1. Fail({r}, entry, x, 0)
      BY <1>2, <1>7 DEF Contradiction
    <2>. QED  BY <1>3, <1>4, <2>1, FailStep
  <1>8. CASE BeginItemFails(r)
    <2>1. Fail({r}, entry, x, 1)
      BY <1>2, <1>8 DEF BeginItemFails
    <2>. QED  BY <1>3, <1>4, <2>1, FailStep
  <1>9. CASE AddDoc(r)
    <2>1. PICK it \in Item : it = Head(w.page)
      BY <1>1, HeadFacts
    <2>2. it.body.found
      BY <1>9, <2>1 DEF AddDoc
    <2>3. it \in Range(w.page)
      BY <1>1, <2>1, HeadFacts
    <2>4. New(it.body)
      BY <2>3 DEF WalkInv, WalkOK, AllNew
    <2>5. PICK y : y = Queued(x, it)
      OBVIOUS
    <2>6. w' = Flushing(y, "walk") \/ w' = y
      BY <1>2, <1>9, <2>1, <2>5 DEF AddDoc, Queued
    <2>7. WalkOK(s, y) /\ y \in Walk /\ y.pc = "walk"
      BY <1>3, <2>2, <2>4, <2>5, QueueWalk
    <2>8. WalkOK(s, Flushing(y, "walk"))
      BY <2>7, FlushWalk
    <2>. QED  BY <2>6, <2>7, <2>8
  <1>10. CASE CountNil(r)
    <2>. DEFINE e == [entry[r] EXCEPT !.nils = @ \cup {Head(w.page).v}, !.remaining = @ - 1]
                base == [entry EXCEPT ![r] = e]
    <2>1. IF e.remaining = 0 /\ e.partial
          THEN Fail({r}, base, ItemDone, 0)
          ELSE /\ entry' = base
               /\ w' = IF e.remaining > 0 \/ r \in IdsIn(w.pending) THEN ItemDone
                       ELSE [ItemDone EXCEPT !.pc = "nils", !.how = Settling(e), !.ret = "walk",
                                             !.ids = {r}, !.todo = {r}]
      BY <1>10, Zenon DEF CountNil
    <2>2. e \in Entry
      <3>1. PICK o \in Entry : o = entry[r]
        BY <1>4
      <3>2. PICK n : n = o.remaining - 1
        OBVIOUS
      <3>3. PICK N : N = o.nils \cup {Head(w.page).v}
        OBVIOUS
      <3>4. o.remaining \in 0 .. Cardinality(Selected) /\ o.nils \in SUBSET Selected /\ Cardinality(Selected) \in Nat
        BY StateSets DEF Entry
      <3>5. Head(w.page).v \in Selected
        BY <1>1, HeadFacts
      <3>6. n \in 0 .. Cardinality(Selected) /\ N \in SUBSET Selected
        BY <1>10, <3>1, <3>2, <3>3, <3>4, <3>5
      <3>7. e = [o EXCEPT !.nils = N, !.remaining = n]
        BY <3>1, <3>2, <3>3
      <3>. QED  BY <3>6, <3>7 DEF Entry
    <2>3. base \in [Roots -> Entry]
      BY <1>4, <2>2
    <2>. HIDE DEF base, e
    <2>4. CASE e.remaining = 0 /\ e.partial
      <3>1. Fail({r}, base, x, 0)
        BY <1>2, <2>1, <2>4
      <3>2. x.pc # "idle"
        BY <1>3
      <3>. QED  BY <1>3, <1>4, <2>3, <3>1, <3>2, FailStep
    <2>5. CASE ~(e.remaining = 0 /\ e.partial)
      <3>1. PICK how : how = Settling(e)
        OBVIOUS
      <3>2. how \in {"nil", "leave", "remove"}
        BY <3>1 DEF Settling
      <3>3. w' = x \/ w' = Nilled(x, how, r)
        BY <1>2, <2>1, <2>5, <3>1 DEF Nilled
      <3>4. PICK y \in Walk : y = w'
        BY DEF TypeNext
      <3>5. CASE y = Nilled(x, how, r)
        BY <1>3, <3>2, <3>4, <3>5, NilWalk
      <3>. QED  BY <1>3, <3>3, <3>4, <3>5
    <2>. QED  BY <2>4, <2>5
  <1>. QED  BY <1>5, <1>6, <1>7, <1>8, <1>9, <1>10 DEF ItemStep

\* The batch loop.
LEMMA WalkBatch ==
    ASSUME TypeOK, WalkInv, \A r \in Roots : src[r] >= 1,
           BeginBatch \/ BatchFails \/ AskPlans \/ BatchDone \/ EndBatches
    PROVE  WalkOK(used.setup, w')
  <1>. DEFINE s == used.setup
  <1>0. w \in Walk /\ Placed(s, w) /\ Found(w) /\ Paged(s, w) /\ AllNew(w) /\ Targeted = Given(s)
        /\ Len(Batches) = Len(s.batches) /\ w.next \in Nat /\ w.next >= 1
    BY StateSets, WalkFacts DEF TypeOK, WalkInv, WalkOK, Batches, Placed
  <1>1. Range(<<>>) = {} /\ Ordered(<<>>)
    BY EmptyFacts DEF Ordered
  <1>2. ASSUME w.pc \in {"batch", "ask"} \/ (Given(s) /\ w.pc = "walk" /\ w.page = <<>>)
        PROVE  NextBatch \in Walk /\ NextBatch.pc = "batch" /\ WalkOK(s, NextBatch)
    <2>1. PICK n \in Nat : n = w.next + 1 /\ n >= 1
      BY <1>0
    <2>2. PICK y : y = [w EXCEPT !.pc = "batch", !.next = n]
      OBVIOUS
    <2>3. NextBatch = y
      BY <2>1, <2>2 DEF NextBatch
    <2>4. /\ y \in Walk
          /\ y.pc = "batch" /\ y.start = w.start /\ y.left = w.left /\ y.next = n /\ y.how = w.how
          /\ y.ids = w.ids /\ y.todo = w.todo /\ y.inbox = w.inbox /\ y.no = w.no /\ y.page = w.page
          /\ y.pending = w.pending /\ y.chunk = w.chunk /\ y.ret = w.ret
      BY <1>0, <2>2 DEF Walk
    <2>5. Given(s) /\ w.page = <<>>
      BY <1>0, <1>2 DEF Placed, At, Flusher, Applying
    <2>6. Placed(s, y)
      BY <1>0, <1>2, <2>1, <2>4, <2>5 DEF Placed, At, Waiting, Flusher, Applying
    <2>7. Found(y) /\ Paged(s, y) /\ AllNew(y)
      BY <1>0, <2>4 DEF Found, Paged, AllNew, Waiting
    <2>. QED  BY <2>3, <2>4, <2>6, <2>7 DEF WalkOK
  <1>3. CASE BeginBatch
    <2>1. w' = [w EXCEPT !.pc = "ask"] /\ w.pc = "batch" /\ w.next <= Len(s.batches)
      BY <1>0, <1>3 DEF BeginBatch
    <2>2. /\ w'.pc = "ask" /\ w'.start = w.start /\ w'.left = w.left /\ w'.next = w.next /\ w'.how = w.how
          /\ w'.ids = w.ids /\ w'.todo = w.todo /\ w'.inbox = w.inbox /\ w'.no = w.no /\ w'.page = w.page
          /\ w'.pending = w.pending /\ w'.chunk = w.chunk /\ w'.ret = w.ret
      BY <1>0, <2>1 DEF Walk
    <2>3. Placed(s, w')
      BY <1>0, <2>1, <2>2 DEF Placed, At, Waiting, Flusher, Applying
    <2>. QED  BY <1>0, <2>2, <2>3, <2>1 DEF WalkOK, Found, Paged, AllNew, Waiting
  <1>4. CASE BatchFails
    <2>1. /\ Fail(Batch, entry, NextBatch, 1) /\ w.pc \in {"batch", "ask"} /\ w.next <= Len(Batches)
      BY <1>4 DEF BatchFails
    <2>2. Batch \in SUBSET Roots /\ entry \in [Roots -> Entry]
      BY <1>0, <2>1, BatchIds DEF TypeOK
    <2>3. NextBatch \in Walk /\ NextBatch.pc # "idle" /\ WalkOK(s, NextBatch)
      BY <1>2, <2>1
    <2>. QED  BY <2>1, <2>2, <2>3, FailStep
  <1>5. CASE AskPlans
    <2>1. PICK errs \in SUBSET Batch :
             Fail(errs, entry, [w EXCEPT !.pc = "walk", !.page = BatchItems(Batch \ errs)], Cardinality(errs))
      BY <1>5 DEF AskPlans, BatchItems
    <2>2. w.pc = "ask" /\ Given(s) /\ w.next <= Len(Batches)
      BY <1>0, <1>5 DEF Placed, At, Flusher, Applying, AskPlans
    <2>3. Batch \in SUBSET Roots
      BY <1>0, <2>2, BatchIds
    <2>4. errs \in SUBSET Roots /\ Batch \ errs \in SUBSET Roots /\ Cardinality(errs) \in Nat
      BY <2>3, StateSets
    <2>5. PICK q : q = BatchItems(Batch \ errs)
      OBVIOUS
    <2>6. q \in Seq(Item) /\ Ordered(q) /\ \A it \in Range(q) : it.body = Truth(it.id, it.v)
      BY <2>4, <2>5, BatchFacts
    <2>7. PICK y : y = [w EXCEPT !.pc = "walk", !.page = q]
      OBVIOUS
    <2>8. /\ y \in Walk
          /\ y.pc = "walk" /\ y.start = w.start /\ y.left = w.left /\ y.next = w.next /\ y.how = w.how
          /\ y.ids = w.ids /\ y.todo = w.todo /\ y.inbox = w.inbox /\ y.no = w.no /\ y.page = q
          /\ y.pending = w.pending /\ y.chunk = w.chunk /\ y.ret = w.ret
      BY <1>0, <2>6, <2>7 DEF Walk
    <2>9. \A it \in Range(q) : New(it.body)
      <3>1. ASSUME NEW it \in Range(q)
            PROVE  New(it.body)
        <4>1. it.id \in Roots /\ it.v \in Versions /\ it.body = Truth(it.id, it.v)
          BY <2>6, ItemFacts
        <4>2. Truth(it.id, it.v).found => Truth(it.id, it.v).n = src[it.id]
          BY <4>1, TruthFacts
        <4>. QED  BY <4>1, <4>2 DEF New
      <3>. QED  BY <3>1
    <2>10. Placed(s, y)
      BY <1>0, <2>2, <2>8 DEF Placed, At, Waiting, Flusher, Applying
    <2>11. Found(y) /\ Paged(s, y)
      BY <1>0, <2>2, <2>6, <2>8 DEF Found, Paged, Waiting
    <2>12. AllNew(y)
      BY <1>0, <2>8, <2>9 DEF AllNew
    <2>13. WalkOK(s, y) /\ y.pc # "idle" /\ entry \in [Roots -> Entry]
      BY <2>8, <2>10, <2>11, <2>12 DEF WalkOK, TypeOK
    <2>14. Fail(errs, entry, y, Cardinality(errs))
      BY <2>1, <2>5, <2>7
    <2>. QED  BY <2>4, <2>8, <2>13, <2>14, FailStep
  <1>6. CASE BatchDone
    <2>1. Given(s) /\ w.pc = "walk" /\ w.page = <<>> /\ w' = NextBatch
      BY <1>0, <1>6 DEF BatchDone
    <2>. QED  BY <1>2, <2>1
  <1>7. CASE EndBatches
    <2>1. w' = [w EXCEPT !.pc = "finish"] /\ w.pc = "batch"
      BY <1>7 DEF EndBatches
    <2>2. /\ w'.pc = "finish" /\ w'.start = w.start /\ w'.left = w.left /\ w'.next = w.next /\ w'.how = w.how
          /\ w'.ids = w.ids /\ w'.todo = w.todo /\ w'.inbox = w.inbox /\ w'.no = w.no /\ w'.page = w.page
          /\ w'.pending = w.pending /\ w'.chunk = w.chunk /\ w'.ret = w.ret
      BY <1>0, <2>1 DEF Walk
    <2>3. Placed(s, w')
      BY <1>0, <2>1, <2>2 DEF Placed, At, Waiting, Flusher, Applying
    <2>. QED  BY <1>0, <2>1, <2>2, <2>3 DEF WalkOK, Found, Paged, AllNew, Waiting
  <1>. QED  BY <1>3, <1>4, <1>5, <1>6, <1>7

\* A step inside the flusher.
LEMMA FlusherWalk ==
    ASSUME NEW s, NEW x \in Walk, NEW y \in Walk, x.pc \in Flusher, y.pc \in Flusher, Waiting(y) => Waiting(x),
           y.how = x.how, y.ret = x.ret, y.left = x.left, y.start = x.start, y.next = x.next,
           y.inbox = x.inbox, y.no = x.no, y.page = x.page, y.pending = x.pending, y.chunk = x.chunk,
           y.ids = x.ids, WalkOK(s, x)
    PROVE  WalkOK(s, y)
  <1>1. Placed(s, x) /\ Found(x) /\ Paged(s, x) /\ AllNew(x)
    BY DEF WalkOK
  <1>2. Placed(s, y)
    BY <1>1 DEF Placed, At, Waiting, Flusher, Applying
  <1>3. Found(y) /\ Paged(s, y) /\ AllNew(y)
    BY <1>1 DEF Found, Paged, AllNew
  <1>. QED  BY <1>2, <1>3 DEF WalkOK

\* The rest of the walk as the flusher works.
SameWalk(x, y) ==
    /\ y.how = x.how /\ y.ret = x.ret /\ y.left = x.left /\ y.start = x.start /\ y.next = x.next
    /\ y.inbox = x.inbox /\ y.no = x.no /\ y.page = x.page /\ y.pending = x.pending /\ y.chunk = x.chunk
    /\ y.ids = x.ids /\ y.completed = x.completed /\ y.anyFailed = x.anyFailed /\ y.markFailed = x.markFailed

\* Taking a root off the flusher's list.
LEMMA TookFacts ==
    ASSUME NEW x \in Walk, NEW r, NEW y, y = [x EXCEPT !.todo = @ \ {r}]
    PROVE  y \in Walk /\ SameWalk(x, y) /\ y.pc = x.pc /\ y.rejected = x.rejected /\ y.todo = x.todo \ {r}
  BY DEF Walk, SameWalk

\* The bulk request, the edge sets, the nils and the drift checks.
LEMMA WalkFlusher ==
    ASSUME TypeOK, TypeNext, WalkInv,
           \/ BulkUpsert \/ CheckDrift \/ CheckDriftFails \/ Narrow
           \/ \E r \in Roots : StoreEdges(r) \/ DropNils(r)
    PROVE  /\ WalkOK(used.setup, w') /\ SameWalk(w, w') /\ w.pc \in Flusher /\ w'.pc \in Flusher
           /\ (w.pc = "bulk" => w'.pc = "edges") /\ (w.pc = "edges" => w'.pc = "edges")
           /\ w.pc \in Applying => w'.pc \in Applying
  <1>. DEFINE s == used.setup
  <1>0. w \in Walk /\ w' \in Walk
    BY DEF TypeOK, TypeNext
  <1>1. SUFFICES /\ SameWalk(w, w') /\ w.pc \in Flusher /\ w'.pc \in Flusher
                 /\ (w.pc = "bulk" => w'.pc = "edges") /\ (w.pc = "edges" => w'.pc = "edges")
                 /\ (w.pc \in Applying => w'.pc \in Applying)
    <2>1. Waiting(w') => Waiting(w)
      BY <1>1 DEF Waiting, Flusher, Applying
    <2>2. PICK y \in Walk : y = w'
      BY <1>0
    <2>3. WalkOK(s, y)
      BY <1>0, <1>1, <2>1, <2>2, FlusherWalk DEF SameWalk, WalkInv
    <2>. QED  BY <1>1, <2>2, <2>3
  <1>2. CASE BulkUpsert
    <2>1. PICK rej, T : w' = [w EXCEPT !.pc = "edges", !.rejected = rej, !.todo = T]
      BY <1>2 DEF BulkUpsert
    <2>2. w.pc = "bulk"
      BY <1>2 DEF BulkUpsert
    <2>3. SameWalk(w, w') /\ w'.pc = "edges"
      BY <1>0, <2>1 DEF Walk, SameWalk
    <2>. QED  BY <2>2, <2>3 DEF Flusher, Applying
  <1>3. CASE CheckDrift
    <2>1. PICK pc, h, T : w' = [w EXCEPT !.pc = pc, !.hit = h, !.todo = T] /\ pc \in {"narrow", "remark"}
      BY <1>3 DEF CheckDrift
    <2>2. w.pc = "nils"
      BY <1>3 DEF CheckDrift
    <2>3. SameWalk(w, w') /\ w'.pc = pc
      BY <1>0, <2>1 DEF Walk, SameWalk
    <2>. QED  BY <2>1, <2>2, <2>3 DEF Flusher, Applying
  <1>4. CASE CheckDriftFails
    <2>1. PICK pc, h, T : w' = [w EXCEPT !.pc = pc, !.hit = h, !.todo = T] /\ pc \in {"narrow", "remark"}
      BY <1>4 DEF CheckDriftFails
    <2>2. w.pc = "nils"
      BY <1>4 DEF CheckDriftFails
    <2>3. SameWalk(w, w') /\ w'.pc = pc
      BY <1>0, <2>1 DEF Walk, SameWalk
    <2>. QED  BY <2>1, <2>2, <2>3 DEF Flusher, Applying
  <1>5. CASE Narrow
    <2>1. PICK T : w' = [w EXCEPT !.pc = "remark", !.todo = T]
      BY <1>5 DEF Narrow
    <2>2. w.pc = "narrow"
      BY <1>5 DEF Narrow
    <2>3. SameWalk(w, w') /\ w'.pc = "remark"
      BY <1>0, <2>1 DEF Walk, SameWalk
    <2>. QED  BY <2>2, <2>3 DEF Flusher, Applying
  <1>6. ASSUME NEW r \in Roots, StoreEdges(r) \/ DropNils(r)
        PROVE  /\ SameWalk(w, w') /\ w.pc \in Flusher /\ w'.pc \in Flusher
               /\ (w.pc = "bulk" => w'.pc = "edges") /\ (w.pc = "edges" => w'.pc = "edges")
               /\ (w.pc \in Applying => w'.pc \in Applying)
    <2>1. w' = [w EXCEPT !.todo = @ \ {r}] /\ w.pc \in {"edges", "nils"}
      BY <1>6 DEF StoreEdges, DropNils, Took
    <2>2. SameWalk(w, w') /\ w'.pc = w.pc
      BY <1>0, <2>1, TookFacts
    <2>. QED  BY <2>1, <2>2 DEF Flusher, Applying
  <1>. QED  BY <1>2, <1>3, <1>4, <1>5, <1>6

\* The chunk is counted.
LEMMA WalkCount ==
    ASSUME TypeOK, WalkInv, w.pc = "edges", NEW T \in SUBSET Roots, NEW y,
           y = [w EXCEPT !.pc = "nils", !.todo = T, !.rejected = {}]
    PROVE  /\ y \in Walk /\ WalkOK(used.setup, y) /\ SameWalk(w, y) /\ y.pc = "nils" /\ y.todo = T
  <1>1. w \in Walk
    BY DEF TypeOK
  <1>2. y \in Walk /\ y.pc = "nils" /\ y.todo = T /\ SameWalk(w, y)
    BY <1>1 DEF Walk, SameWalk
  <1>3. ~Waiting(y) /\ y.pc \in Flusher /\ w.pc \in Flusher
    BY <1>2 DEF Waiting, Flusher, Applying
  <1>4. WalkOK(used.setup, y)
    BY <1>1, <1>2, <1>3, FlusherWalk DEF SameWalk, WalkInv
  <1>. QED  BY <1>2, <1>4

\* The flusher's failures and what settles a root.
LEMMA WalkSettle ==
    ASSUME TypeOK, WalkInv,
           \/ CountDocs
           \/ \E r \in Roots : \/ StoreEdgesFails(r) \/ DropNilsFails(r) \/ LeaveGone(r) \/ Remark(r)
                               \/ Complete(r) \/ FailPartial(r) \/ RemoveRow(r)
    PROVE  WalkOK(used.setup, w')
  <1>. DEFINE s == used.setup
  <1>0. w \in Walk /\ entry \in [Roots -> Entry] /\ WalkOK(s, w)
    BY DEF TypeOK, WalkInv
  <1>1. CASE CountDocs
    <2>. DEFINE rejected == {r \in w.ids : Unsettled(r) /\ \E v \in Selected : <<r, v>> \in w.rejected}
                counted == {r \in w.ids : Unsettled(r)} \ rejected
                base == [r \in Roots |-> IF r \in counted THEN Counted(entry[r], Landed(r)) ELSE entry[r]]
                settling == {r \in counted : base[r].remaining = 0 /\ ~base[r].partial /\ base[r].nils # {}}
    <2>1. Fail(rejected, base, [w EXCEPT !.pc = "nils", !.todo = settling, !.rejected = {}], 0)
      BY <1>1, Zenon DEF CountDocs
    <2>2. w.ids \in SUBSET Roots
      BY <1>0, WalkFacts
    <2>3. rejected \in SUBSET Roots /\ settling \in SUBSET Roots
      BY <2>2
    <2>4. base \in [Roots -> Entry]
      <3>1. ASSUME NEW r \in Roots
            PROVE  Counted(entry[r], Landed(r)) \in Entry
        <4>1. entry[r] \in EntryIn(used.setup) /\ Landed(r) \in SUBSET used.setup.selected
          BY <1>0, EntrySets DEF Landed, Selected
        <4>. QED  BY <4>1, CountedTypes, SetupFacts, EntrySets
      <3>. QED  BY <1>0, <3>1
    <2>. HIDE DEF rejected, settling, base
    <2>5. PICK y : y = [w EXCEPT !.pc = "nils", !.todo = settling, !.rejected = {}]
      OBVIOUS
    <2>6. y \in Walk /\ WalkOK(s, y) /\ y.pc # "idle"
      BY <1>1, <2>3, <2>5, WalkCount DEF CountDocs
    <2>7. Fail(rejected, base, y, 0) /\ 0 \in Nat
      BY <2>1, <2>5
    <2>. QED  BY <2>3, <2>4, <2>6, <2>7, FailStep
  <1>2. ASSUME NEW r \in Roots, w.pc \in Flusher, NEW cost \in Nat, Fail({r}, entry, w, cost) \/ Fail({r}, entry, Took(r), cost)
        PROVE  WalkOK(s, w')
    <2>1. {r} \in SUBSET Roots /\ w.pc # "idle"
      BY <1>2 DEF Flusher, Applying
    <2>2. PICK y : y = Took(r)
      OBVIOUS
    <2>3. y = [w EXCEPT !.todo = @ \ {r}]
      BY <2>2 DEF Took
    <2>4. y \in Walk /\ SameWalk(w, y) /\ y.pc = w.pc
      BY <1>0, <2>3, TookFacts
    <2>5. WalkOK(s, y)
      BY <1>0, <1>2, <2>4, FlusherWalk DEF SameWalk, Waiting
    <2>6. CASE Fail({r}, entry, w, cost)
      BY <1>0, <2>1, <2>6, FailStep
    <2>7. CASE Fail({r}, entry, y, cost)
      <3>1. y.pc # "idle"
        BY <2>1, <2>4
      <3>. QED  BY <1>0, <2>1, <2>4, <2>5, <2>7, <3>1, FailStep
    <2>. QED  BY <1>2, <2>2, <2>6, <2>7
  <1>3. ASSUME NEW r \in Roots,
               \/ StoreEdgesFails(r) \/ DropNilsFails(r) \/ LeaveGone(r) \/ Remark(r)
               \/ Complete(r) \/ FailPartial(r) \/ RemoveRow(r)
        PROVE  WalkOK(s, w')
    <2>1. w.pc \in Flusher
      BY <1>3 DEF StoreEdgesFails, DropNilsFails, LeaveGone, Remark, Complete, FailPartial, RemoveRow,
                  Completable, Flusher, Applying
    <2>2. \/ w' = w \/ w' = Took(r)
          \/ \E cost \in Nat : Fail({r}, entry, w, cost) \/ Fail({r}, entry, Took(r), cost)
      BY <1>3 DEF StoreEdgesFails, DropNilsFails, LeaveGone, Remark, Complete, FailPartial, RemoveRow
    <2>3. CASE w' = Took(r)
      <3>1. PICK y : y = w'
        OBVIOUS
      <3>2. y = [w EXCEPT !.todo = @ \ {r}]
        BY <2>3, <3>1 DEF Took
      <3>3. y \in Walk /\ SameWalk(w, y) /\ y.pc = w.pc
        BY <1>0, <3>2, TookFacts
      <3>4. WalkOK(s, y)
        BY <1>0, <2>1, <3>3, FlusherWalk DEF SameWalk, Waiting
      <3>. QED  BY <3>1, <3>4
    <2>. QED  BY <1>0, <1>2, <2>1, <2>2, <2>3
  <1>. QED  BY <1>1, <1>3

\* The flusher returns to the loop.
LEMMA WalkReturn ==
    ASSUME TypeOK, WalkInv, FlusherReturns
    PROVE  WalkOK(used.setup, w')
  <1>. DEFINE s == used.setup
  <1>0. w \in Walk /\ Placed(s, w) /\ Found(w) /\ Paged(s, w) /\ AllNew(w)
    BY DEF TypeOK, WalkInv, WalkOK
  <1>1. PICK p : p = w.ret
    OBVIOUS
  <1>2. p \in {"plan", "walk", "finish"} /\ w.pc \in Applying /\ w.todo = {}
    BY <1>0, <1>1, WalkFacts DEF FlusherReturns, Applying
  <1>3. w' = [w EXCEPT !.pc = p, !.how = "flush", !.ret = "walk", !.ids = {}, !.chunk = <<>>, !.hit = FALSE]
    BY <1>1 DEF FlusherReturns
  <1>4. /\ w'.pc = p /\ w'.how = "flush" /\ w'.ret = "walk" /\ w'.ids = {} /\ w'.chunk = <<>>
        /\ w'.start = w.start /\ w'.left = w.left /\ w'.next = w.next /\ w'.todo = w.todo
        /\ w'.inbox = w.inbox /\ w'.no = w.no /\ w'.page = w.page /\ w'.pending = w.pending
    BY <1>0, <1>3 DEF Walk
  <1>5. At(w') = At(w) /\ ~Waiting(w')
    BY <1>1, <1>2, <1>4 DEF At, Waiting, Flusher, Applying
  <1>6. Placed(s, w')
    BY <1>0, <1>2, <1>4, <1>5 DEF Placed, Flusher, Applying
  <1>7. Range(<<>>) = {}
    BY EmptyFacts
  <1>8. Found(w') /\ Paged(s, w') /\ AllNew(w')
    BY <1>0, <1>4, <1>5, <1>7 DEF Found, Paged, AllNew
  <1>. QED  BY <1>6, <1>8 DEF WalkOK

\* Every step keeps what holds of the walk.
LEMMA WalkStepInv ==
    ASSUME TypeOK, TypeNext, WalkInv, Next, \A r \in Roots : src[r] >= 1,
           \A r \in Roots : CountNil(r) => entry[r].remaining >= 1
    PROVE  WalkInv'
  <1>0. SUFFICES WalkOK(used.setup, w')
    BY DEF WalkInv, TypeNext
  <1>1. CASE WalkStep
    <2>1. CASE LoopStep
      BY <2>1, WalkLoop, WalkBatch DEF LoopStep
    <2>2. CASE FlushStep
      BY <2>2, WalkFlusher, WalkSettle, WalkReturn DEF FlushStep
    <2>3. ASSUME NEW r \in Roots, ItemStep(r)
          PROVE  WalkOK(used.setup, w')
      BY <2>3, WalkItems
    <2>4. ASSUME NEW r \in Roots, SettleStep(r)
          PROVE  WalkOK(used.setup, w')
      BY <2>4, WalkFlusher, WalkSettle DEF SettleStep
    <2>. QED  BY <1>1, <2>1, <2>2, <2>3, <2>4 DEF WalkStep
  <1>2. CASE w' = w
    BY <1>2 DEF WalkInv
  <1>3. CASE Failure
    <2>1. CASE Abort \/ Crash \/ BulkFails
      BY <2>1, WalkLoop
    <2>2. CASE BatchFails \/ CheckDriftFails
      BY <2>2, WalkBatch, WalkFlusher
    <2>3. ASSUME NEW r \in Roots, BeginItemFails(r)
          PROVE  WalkOK(used.setup, w')
      BY <2>3, WalkItems
    <2>4. ASSUME NEW r \in Roots, StoreEdgesFails(r) \/ DropNilsFails(r)
          PROVE  WalkOK(used.setup, w')
      BY <2>4, WalkSettle
    <2>. QED  BY <1>3, <2>1, <2>2, <2>3, <2>4 DEF Failure
  <1>4. CASE \/ Beat \/ Rest
             \/ \E r \in Roots : ChangeRoot(r) \/ LiveBegin(r) \/ LiveEnd(r)
             \/ \E c \in Kids : ChangeKid(c)
             \/ \E y \in Things : Register(y)
    BY <1>2, <1>4 DEF Beat, Rest, vars, ChangeRoot, LiveBegin, LiveEnd, ChangeKid, Register
  <1>. QED  BY <1>1, <1>3, <1>4 DEF Next

-----------------------------------------------------------------------------
(* One root: the parts of its invariant that steps share *)

\* The types of what a root has.
LEMMA RootTypes ==
    ASSUME TypeOK, NEW r \in Roots
    PROVE  /\ IsSetup(used.setup) /\ entry[r] \in EntryIn(used.setup) /\ docs[r] \in DocsIn(used.setup)
           /\ Queue(w, r) \in SUBSET used.setup.selected
           /\ Coming(used.setup, w, r) \in SUBSET used.setup.selected
           /\ Of(w.page, r) \in SUBSET used.setup.selected
           /\ Of(w.chunk, r) \in SUBSET used.setup.selected
           /\ Of(w.pending, r) \in SUBSET used.setup.selected
           /\ \A v \in used.setup.versions : docs[r][v].ver \in Nat
           /\ entry[r].occ \in Nat /\ entry[r].nils \in SUBSET used.setup.versions
  <1>1. IsSetup(used.setup) /\ Selected = used.setup.selected
    BY StateSets
  <1>2. entry[r] \in EntryIn(used.setup) /\ docs[r] \in DocsIn(used.setup)
    BY EntrySets DEF TypeOK
  <1>3. w.page \in Seq(Item) /\ w.pending \in Seq(Item) /\ w.chunk \in Seq(Item) /\ w.left \in SUBSET Selected
    BY WalkFacts DEF TypeOK
  <1>4. Of(w.page, r) \in SUBSET Selected /\ Of(w.pending, r) \in SUBSET Selected /\ Of(w.chunk, r) \in SUBSET Selected
    BY <1>3, ItemFacts
  <1>5. Queue(w, r) \in SUBSET Selected
    BY <1>4 DEF Queue
  <1>6. Coming(used.setup, w, r) \in SUBSET Selected
    BY <1>1, <1>3, <1>4 DEF Coming
  <1>7. \A v \in used.setup.versions : docs[r][v].ver \in Nat
    BY <1>2 DEF DocsIn
  <1>8. entry[r].occ \in Nat /\ entry[r].nils \in SUBSET used.setup.versions
    <2>1. entry[r].occ \in Nat /\ entry[r].nils \in SUBSET used.setup.selected
      BY <1>1, <1>2, EntryFacts
    <2>2. used.setup.selected \subseteq used.setup.versions
      BY <1>1, SetFacts
    <2>. QED  BY <2>1, <2>2
  <1>. QED  BY <1>1, <1>2, <1>4, <1>5, <1>6, <1>7, <1>8

\* The documents after a step are well typed.
LEMMA NextDocs ==
    ASSUME TypeNext, NEW r \in Roots
    PROVE  docs'[r] \in DocsIn(used.setup) /\ entry'[r] \in EntryIn(used.setup)
  BY EntrySets DEF TypeNext, Doc

\* A root that keeps its entry.
LEMMA RootKept ==
    ASSUME NEW s, IsSetup(s), NEW x, NEW y, NEW e \in EntryIn(s), NEW d \in DocsIn(s), NEW d2 \in DocsIn(s), NEW r,
           RootOK(s, x, e, d, r),
           Queue(y, r) \in SUBSET Queue(x, r), Coming(s, y, r) \in SUBSET Coming(s, x, r),
           Open(e) /\ Removing(x, r) => Removing(y, r),
           \A v \in s.versions : d2[v] = d[v] \/ (d2[v].ver >= d[v].ver /\ d2[v].ver # e.occ),
           Handled(s, y, e, d2, r), Begun(s, y, e, r)
    PROVE  RootOK(s, y, e, d2, r)
  <1>1. Books(s, e, d, Queue(x, r), Coming(s, x, r), Removing(x, r))
    BY DEF RootOK
  <1>2. Books(s, e, d2, Queue(y, r), Coming(s, y, r), Removing(y, r))
    BY <1>1, BooksKept
  <1>. QED  BY <1>2 DEF RootOK

\* Outside the flusher nothing is being settled.
LEMMA HandledLoop ==
    ASSUME NEW s, NEW y, NEW e, NEW d, NEW r, Placed(s, y), y.pc \notin Flusher,
           y.pc = "idle" => e = NoEntry, Of(y.pending, r) # {} => Open(e)
    PROVE  Handled(s, y, e, d, r)
  <1>1. y.ids = {} /\ y.todo = {} /\ y.pc # "bulk"
    BY DEF Placed, Flusher
  <1>. QED  BY <1>1 DEF Handled

\* A forgotten root of an idle walk.
LEMMA IdleRoot ==
    ASSUME NEW s, NEW d, NEW r
    PROVE  RootOK(s, IdleWalk, NoEntry, d, r)
  <1>1. /\ IdleWalk.pc = "idle" /\ IdleWalk.how = "flush" /\ IdleWalk.ids = {} /\ IdleWalk.todo = {}
        /\ IdleWalk.page = <<>> /\ IdleWalk.pending = <<>> /\ IdleWalk.left = {}
    BY DEF IdleWalk
  <1>2. Of(<<>>, r) = {}
    BY EmptyFacts
  <1>3. ~Open(NoEntry) /\ ~NoEntry.tracked
    BY DEF NoEntry, Open
  <1>4. Coming(s, IdleWalk, r) = {}
    BY <1>1, <1>2 DEF Coming
  <1>5. Books(s, NoEntry, d, Queue(IdleWalk, r), Coming(s, IdleWalk, r), Removing(IdleWalk, r))
    BY <1>3, <1>4 DEF Books
  <1>6. Handled(s, IdleWalk, NoEntry, d, r)
    BY <1>1, <1>2 DEF Handled
  <1>. QED  BY <1>3, <1>5, <1>6 DEF RootOK, Begun

\* fail leaves the other roots as they are.
LEMMA FailOthers ==
    ASSUME NEW s, NEW x \in Walk, NEW S, NEW any \in BOOLEAN, NEW mark \in BOOLEAN,
           NEW y, y = Failed(x, S, any, mark), NEW e, NEW d, NEW r, r \notin S, RootOK(s, x, e, d, r)
    PROVE  RootOK(s, y, e, d, r)
  <1>1. /\ y.pc = x.pc /\ y.how = x.how /\ y.ret = x.ret /\ y.left = x.left /\ y.next = x.next
        /\ y.page = x.page /\ y.chunk = x.chunk /\ y.rejected = x.rejected /\ y.ids = x.ids /\ y.todo = x.todo
    BY FailedFacts
  <1>2. Of(y.pending, r) = Of(x.pending, r)
    <2>1. y.pending = Without(x.pending, S) /\ x.pending \in Seq(Item)
      BY FailedFacts, WalkFacts
    <2>. QED  BY <2>1, WithoutFacts
  <1>3. Queue(y, r) = Queue(x, r) /\ Coming(s, y, r) = Coming(s, x, r) /\ Removing(y, r) = Removing(x, r)
    BY <1>1, <1>2 DEF Queue, Coming, Removing, Waiting
  <1>4. Handled(s, y, e, d, r)
    BY <1>1, <1>2 DEF RootOK, Handled
  <1>5. Begun(s, y, e, r)
    BY <1>1 DEF RootOK, Begun, At
  <1>. QED  BY <1>3, <1>4, <1>5 DEF RootOK

\* A root that failed.
LEMMA FailedRoot ==
    ASSUME NEW s, NEW x \in Walk, NEW S, NEW any \in BOOLEAN, NEW mark \in BOOLEAN,
           NEW y, y = Failed(x, S, any, mark), NEW d, NEW r \in S,
           x.pc \notin {"idle", "bulk"}, r \notin x.todo, Begun(s, x, FailedEntry, r)
    PROVE  RootOK(s, y, FailedEntry, d, r)
  <1>1. /\ y.pc = x.pc /\ y.ret = x.ret /\ y.todo = x.todo /\ y.next = x.next
    BY FailedFacts
  <1>2. Of(y.pending, r) = {}
    <2>1. y.pending = Without(x.pending, S) /\ x.pending \in Seq(Item)
      BY FailedFacts, WalkFacts
    <2>. QED  BY <2>1, WithoutFacts
  <1>3. ~Open(FailedEntry) /\ FailedEntry.tracked
    BY DEF FailedEntry, NoEntry, Open
  <1>4. Handled(s, y, FailedEntry, d, r)
    BY <1>1, <1>2, <1>3 DEF Handled
  <1>5. Begun(s, y, FailedEntry, r)
    BY <1>1 DEF Begun, At
  <1>. QED  BY <1>3, <1>4, <1>5 DEF RootOK, Books

\* A tracked root of a batch that was begun may fail.
LEMMA BegunFailed ==
    ASSUME NEW s, NEW x, NEW e, NEW r, e.tracked, Begun(s, x, e, r)
    PROVE  Begun(s, x, FailedEntry, r)
  BY DEF Begun

\* The queue handed to the flusher.
LEMMA FlushRoot ==
    ASSUME NEW s, IsSetup(s), NEW x \in Walk, NEW ret \in {"plan", "walk", "finish"}, x.pc = ret, Placed(s, x),
           NEW y, y = Flushing(x, ret), NEW e \in EntryIn(s), NEW d \in DocsIn(s), NEW r, RootOK(s, x, e, d, r)
    PROVE  RootOK(s, y, e, d, r)
  <1>1. /\ y.left = x.left /\ y.next = x.next /\ y.page = x.page /\ y.todo = x.todo
    BY FlushingFacts
  <1>2. CASE x.pending = <<>>
    <2>1. y.pc = x.pc /\ y.how = x.how /\ y.ret = x.ret /\ y.chunk = x.chunk /\ y.pending = x.pending /\ y.ids = x.ids
      BY <1>2, FlushingFacts
    <2>2. Queue(y, r) = Queue(x, r) /\ Coming(s, y, r) = Coming(s, x, r) /\ Removing(y, r) = Removing(x, r)
      BY <1>1, <2>1 DEF Queue, Coming, Removing, Waiting
    <2>3. Handled(s, y, e, d, r)
      BY <1>1, <2>1 DEF RootOK, Handled, Flusher, Applying, Placed
    <2>4. Begun(s, y, e, r)
      BY <1>1, <2>1 DEF RootOK, Begun, At
    <2>. QED  BY <2>2, <2>3, <2>4 DEF RootOK
  <1>3. CASE x.pending # <<>>
    <2>1. y.pc = "bulk" /\ y.how = "flush" /\ y.ret = ret /\ y.chunk = x.pending /\ y.pending = <<>>
          /\ y.ids = IdsIn(x.pending)
      BY <1>3, FlushingFacts
    <2>2. Of(<<>>, r) = {} /\ (r \in IdsIn(x.pending) <=> Of(x.pending, r) # {})
      BY EmptyFacts, IdFacts
    <2>3. Queue(y, r) \in SUBSET Queue(x, r)
      BY <2>1, <2>2 DEF Queue, Waiting
    <2>4. Coming(s, y, r) = Coming(s, x, r)
      BY <1>1, <2>1 DEF Coming
    <2>5. x.ids = {} /\ x.todo = {} /\ At(y) = At(x)
      BY <2>1 DEF Placed, Flusher, Applying, At
    <2>6. Handled(s, y, e, d, r)
      BY <1>1, <2>1, <2>2, <2>5 DEF RootOK, Handled, Applying
    <2>7. Begun(s, y, e, r)
      BY <1>1, <2>5 DEF RootOK, Begun
    <2>8. ~Removing(x, r)
      BY <2>5 DEF Removing
    <2>. QED  BY <2>3, <2>4, <2>6, <2>7, <2>8, RootKept
  <1>. QED  BY <1>2, <1>3

\* A step of the flusher that leaves the root's entry and documents.
LEMMA FlusherRoot ==
    ASSUME NEW s, NEW x, NEW y, SameWalk(x, y), x.pc \in Flusher, y.pc \in Flusher,
           Waiting(y) <=> Waiting(x), y.pc = "bulk" => x.pc = "bulk", y.pc = "edges" => x.pc = "edges" /\ y.rejected = x.rejected,
           NEW e, NEW d, NEW r, RootOK(s, x, e, d, r),
           r \in y.todo => r \in x.ids /\ Open(e),
           y.pc \in Applying /\ ~(y.pc = "nils" /\ r \in y.todo) => x.pc \in Applying /\ ~(x.pc = "nils" /\ r \in x.todo)
    PROVE  RootOK(s, y, e, d, r)
  <1>1. /\ y.how = x.how /\ y.ret = x.ret /\ y.left = x.left /\ y.next = x.next /\ y.page = x.page
        /\ y.pending = x.pending /\ y.chunk = x.chunk /\ y.ids = x.ids
    BY DEF SameWalk
  <1>2. x.pc \notin {"idle", "ask"} /\ y.pc \notin {"idle", "ask"}
    BY DEF Flusher, Applying
  <1>3. Queue(y, r) = Queue(x, r) /\ Coming(s, y, r) = Coming(s, x, r) /\ Removing(y, r) = Removing(x, r)
    BY <1>1, <1>2 DEF Queue, Coming, Removing
  <1>4. Handled(s, y, e, d, r)
    BY <1>1, <1>2 DEF RootOK, Handled
  <1>5. Begun(s, y, e, r)
    BY <1>1 DEF RootOK, Begun, At
  <1>. QED  BY <1>3, <1>4, <1>5 DEF RootOK

\* A root every outcome of which is applied is settled or forgotten.
LEMMA SettledRoot ==
    ASSUME TypeOK, Placed(used.setup, w), NEW r \in Roots, w.pc \in Applying, w.todo = {}, r \in w.ids, Open(entry[r]),
           entry[r].remaining = 0, RootOK(used.setup, w, entry[r], docs[r], r), Settle(r)
    PROVE  RootOK(used.setup, w, entry'[r], docs[r], r)
  <1>. DEFINE s == used.setup
  <1>1. IsSetup(s) /\ entry[r] \in EntryIn(s) /\ docs[r] \in DocsIn(s) /\ Queue(w, r) \in SUBSET s.selected
        /\ Coming(s, w, r) \in SUBSET s.selected
    BY RootTypes
  <1>2. Books(s, entry[r], docs[r], Queue(w, r), Coming(s, w, r), Removing(w, r))
        /\ Handled(s, w, entry[r], docs[r], r) /\ Begun(s, w, entry[r], r)
    BY DEF RootOK
  <1>3. Given(s) => Coming(s, w, r) = {}
    BY <1>1, <1>2, NothingOwed
  <1>4. ~Open(entry'[r]) /\ (entry'[r].tracked => entry[r].tracked)
    BY SettleFacts DEF Open, NoEntry
  <1>5. Of(w.pending, r) = {}
    <2>1. CASE w.how = "flush"
      BY <2>1, EmptyFacts DEF Placed, Flusher
    <2>2. CASE w.how # "flush"
      BY <1>2, <2>2 DEF Handled
    <2>. QED  BY <2>1, <2>2
  <1>6. Handled(s, w, entry'[r], docs[r], r)
    BY <1>4, <1>5 DEF Handled, Applying
  <1>7. Begun(s, w, entry'[r], r)
    BY <1>2, <1>4 DEF Begun
  <1>. QED  BY <1>3, <1>4, <1>6, <1>7 DEF RootOK, Books

\* A step of the loop that leaves the root's entry and documents.
LEMMA LoopRoot ==
    ASSUME TypeOK, NEW y, Placed(used.setup, w), Placed(used.setup, y), NEW r \in Roots,
           RootOK(used.setup, w, entry[r], docs[r], r),
           w.pc \notin Flusher, y.pc \notin Flusher, y.pc # "idle",
           Of(y.pending, r) \in SUBSET Of(w.pending, r), Coming(used.setup, y, r) \in SUBSET Coming(used.setup, w, r),
           Begun(used.setup, y, entry[r], r)
    PROVE  RootOK(used.setup, y, entry[r], docs[r], r)
  <1>. DEFINE s == used.setup
  <1>1. IsSetup(s) /\ entry[r] \in EntryIn(s) /\ docs[r] \in DocsIn(s)
    BY RootTypes
  <1>2. w.ids = {}
    BY DEF Placed
  <1>3. Queue(y, r) \in SUBSET Queue(w, r)
    BY DEF Queue, Waiting, Flusher
  <1>4. Of(y.pending, r) # {} => Open(entry[r])
    BY DEF RootOK, Handled
  <1>5. Handled(s, y, entry[r], docs[r], r)
    BY <1>4, HandledLoop
  <1>6. ~Removing(w, r)
    BY <1>2 DEF Removing
  <1>. QED  BY <1>1, <1>3, <1>5, <1>6, RootKept

\* The attempts.
LEMMA RootAttempts ==
    ASSUME TypeOK, TypeNext, WalkInv, WalkInv', RootInv, NEW r \in Roots,
           StartAttempt \/ Finish \/ Crash \/ Abort \/ BulkFails
    PROVE  RootOK(used.setup, w', entry'[r], docs'[r], r)
  <1>. DEFINE s == used.setup
  <1>0. w \in Walk /\ Placed(s, w) /\ RootOK(s, w, entry[r], docs[r], r)
    BY DEF TypeOK, WalkInv, WalkOK, RootInv, Roots
  <1>1. ASSUME Forget
        PROVE  RootOK(s, w', entry'[r], docs'[r], r)
    <2>1. w' = IdleWalk /\ entry'[r] = NoEntry
      BY <1>1 DEF Forget
    <2>. QED  BY <2>1, IdleRoot
  <1>2. CASE Crash \/ Abort \/ BulkFails
    BY <1>1, <1>2 DEF Crash, Abort, BulkFails, Salvage
  <1>3. CASE Finish
    <2>1. CASE w.pending = <<>>
      BY <1>1, <1>3, <2>1 DEF Finish
    <2>2. CASE w.pending # <<>>
      <3>1. w' = Flushing(w, "finish") /\ w.pc = "finish" /\ entry' = entry /\ docs' = docs
        BY <1>3, <2>2 DEF Finish
      <3>2. IsSetup(s) /\ entry[r] \in EntryIn(s) /\ docs[r] \in DocsIn(s)
        BY RootTypes
      <3>3. RootOK(s, w', entry[r], docs[r], r)
        BY <1>0, <3>1, <3>2, FlushRoot
      <3>. QED  BY <3>1, <3>3
    <2>. QED  BY <2>1, <2>2
  <1>4. CASE StartAttempt
    <2>1. entry'[r] = entry[r] /\ docs'[r] = docs[r] /\ w.pc = "idle"
      BY <1>4 DEF StartAttempt
    <2>2. entry[r] = NoEntry
      BY <1>0, <2>1 DEF RootOK, Handled
    <2>3. ~Open(NoEntry) /\ ~NoEntry.tracked
      BY DEF NoEntry, Open
    <2>4. PICK x \in Walk : x = IdleWalk
      <3>1. IdleWalk \in Walk
        BY DEF IdleWalk, Walk
      <3>. QED  BY <3>1
    <2>5. w' = [x EXCEPT !.pc = FirstLoop, !.left = Selected, !.next = FirstPage]
      BY <1>4, <2>4 DEF StartAttempt
    <2>6. w'.pc = FirstLoop /\ w'.page = x.page /\ w'.pending = x.pending
      BY <2>5 DEF Walk
    <2>7. w'.page = <<>> /\ w'.pending = <<>> /\ w'.pc \in {"batch", "plan"}
      BY <2>4, <2>6 DEF IdleWalk, FirstLoop
    <2>8. Of(<<>>, r) = {}
      BY EmptyFacts
    <2>9. Given(s) => Coming(s, w', r) = {}
      BY <2>7, <2>8 DEF Coming
    <2>10. Placed(s, w')
      BY DEF WalkInv, WalkOK, TypeNext
    <2>11. PICK y : y = w'
      OBVIOUS
    <2>12. Handled(s, y, NoEntry, docs[r], r)
      <3>1. Placed(s, y) /\ y.pc \notin Flusher /\ y.pc # "idle" /\ Of(y.pending, r) = {}
        BY <2>7, <2>8, <2>10, <2>11 DEF Flusher, Applying
      <3>. QED  BY <3>1, HandledLoop
    <2>. QED  BY <2>1, <2>2, <2>3, <2>9, <2>11, <2>12 DEF RootOK, Books, Begun
  <1>. QED  BY <1>2, <1>3, <1>4

\* The page loop.
LEMMA RootLoop ==
    ASSUME TypeOK, TypeNext, WalkInv, WalkInv', RootInv, NEW r \in Roots,
           Execute \/ FlushBeforePlan \/ FetchPage \/ TakePage \/ PageConsumed \/ EndPlan
    PROVE  RootOK(used.setup, w', entry'[r], docs'[r], r)
  <1>. DEFINE s == used.setup
  <1>0. w \in Walk /\ Placed(s, w) /\ RootOK(s, w, entry[r], docs[r], r) /\ Targeted = Given(s)
    BY StateSets DEF TypeOK, WalkInv, WalkOK, RootInv, Roots
  <1>1. entry' = entry /\ docs' = docs
    BY DEF Execute, FlushBeforePlan, FetchPage, TakePage, PageConsumed, EndPlan
  <1>2. IsSetup(s) /\ entry[r] \in EntryIn(s) /\ docs[r] \in DocsIn(s)
    BY RootTypes
  <1>3. PICK y \in Walk : y = w'
    BY DEF TypeNext
  <1>4. Placed(s, y)
    BY <1>3 DEF WalkInv, WalkOK, TypeNext
  <1>5. SUFFICES RootOK(s, y, entry[r], docs[r], r)
    BY <1>1, <1>3
  <1>6. CASE Execute
    <2>1. y = [w EXCEPT !.pc = "walk", !.start = seq + 1] /\ w.pc = "plan"
      BY <1>3, <1>6 DEF Execute
    <2>2. y.pc = "walk" /\ y.left = w.left /\ y.pending = w.pending /\ y.page = w.page /\ y.next = w.next
      BY <1>0, <2>1 DEF Walk
    <2>3. ~Given(s)
      BY <1>0, <2>1 DEF Placed, At, Flusher, Applying
    <2>4. Coming(s, y, r) = Coming(s, w, r) /\ Begun(s, y, entry[r], r)
      BY <2>2, <2>3 DEF Coming, Begun
    <2>5. y.pc \notin Flusher /\ w.pc \notin Flusher /\ y.pc # "idle"
      BY <2>1, <2>2 DEF Flusher, Applying
    <2>. QED  BY <1>0, <1>4, <2>2, <2>4, <2>5, LoopRoot
  <1>7. CASE FlushBeforePlan
    <2>1. y = Flushing(w, "plan") /\ w.pc = "plan"
      BY <1>3, <1>7 DEF FlushBeforePlan
    <2>. QED  BY <1>0, <1>2, <2>1, FlushRoot
  <1>8. CASE FetchPage
    <2>0. w.start # 0
      BY <1>8 DEF FetchPage
    <2>1. PICK n, q : y = [w EXCEPT !.next = n, !.inbox = q]
      BY <1>3, <1>8 DEF FetchPage
    <2>2. y.pc = w.pc /\ y.how = w.how /\ y.left = w.left /\ y.pending = w.pending /\ y.page = w.page
          /\ y.chunk = w.chunk /\ y.ids = w.ids /\ y.todo = w.todo /\ y.rejected = w.rejected
      BY <1>0, <2>1 DEF Walk
    <2>3. ~Given(s)
      BY <1>0, <2>0, PlanFacts
    <2>4. Queue(y, r) = Queue(w, r) /\ Coming(s, y, r) = Coming(s, w, r) /\ Removing(y, r) = Removing(w, r)
      BY <2>2, <2>3 DEF Queue, Coming, Removing, Waiting
    <2>5. Handled(s, y, entry[r], docs[r], r)
      BY <1>0, <2>2 DEF RootOK, Handled
    <2>. QED  BY <1>0, <2>3, <2>4, <2>5 DEF RootOK, Begun
  <1>9. CASE TakePage
    <2>1. PICK n, q, b : y = [w EXCEPT !.no = n, !.page = q, !.inbox = b]
      BY <1>3, <1>9 DEF TakePage
    <2>2. y.pc = w.pc /\ y.left = w.left /\ y.pending = w.pending
      BY <1>0, <2>1 DEF Walk
    <2>3. ~Given(s) /\ w.pc = "walk"
      BY <1>0, <1>9 DEF TakePage
    <2>4. Coming(s, y, r) = Coming(s, w, r) /\ Begun(s, y, entry[r], r)
      BY <2>2, <2>3 DEF Coming, Begun
    <2>5. y.pc \notin Flusher /\ w.pc \notin Flusher /\ y.pc # "idle"
      BY <2>2, <2>3 DEF Flusher, Applying
    <2>. QED  BY <1>0, <1>4, <2>2, <2>4, <2>5, LoopRoot
  <1>10. CASE PageConsumed
    <2>1. w.pc = "walk" /\ w.no # 0 /\ w.page = <<>> /\ ~Given(s)
      BY <1>0, <1>10 DEF PageConsumed, Placed
    <2>2. PICK c : c = IF Resumable /\ ~LastPage(w.no) THEN w.no ELSE w.completed
      OBVIOUS
    <2>3. c \in Nat
      BY <1>0, <2>2, WalkFacts
    <2>4. PICK z : z = [w EXCEPT !.no = 0, !.completed = c]
      OBVIOUS
    <2>5. /\ z \in Walk
          /\ z.pc = w.pc /\ z.left = w.left /\ z.next = w.next /\ z.how = w.how
          /\ z.ids = w.ids /\ z.todo = w.todo /\ z.page = w.page /\ z.inbox = w.inbox /\ z.start = w.start
          /\ z.pending = w.pending /\ z.chunk = w.chunk /\ z.ret = w.ret /\ z.no = 0
      BY <1>0, <2>3, <2>4 DEF Walk
    <2>6. y = Flushing(z, "walk") \/ y = z
      BY <1>3, <1>10, <2>2, <2>4 DEF PageConsumed
    <2>7. Placed(s, z)
      BY <1>0, <2>1, <2>5 DEF Placed, At, Waiting, Flusher, Applying
    <2>8. RootOK(s, z, entry[r], docs[r], r)
      <3>1. Coming(s, z, r) = Coming(s, w, r) /\ Begun(s, z, entry[r], r)
        BY <2>1, <2>5 DEF Coming, Begun
      <3>2. z.pc \notin Flusher /\ w.pc \notin Flusher /\ z.pc # "idle"
        BY <2>1, <2>5 DEF Flusher, Applying
      <3>. QED  BY <1>0, <2>5, <2>7, <3>1, <3>2, LoopRoot
    <2>9. z.pc = "walk"
      BY <2>1, <2>5
    <2>10. RootOK(s, Flushing(z, "walk"), entry[r], docs[r], r)
      BY <1>2, <2>5, <2>7, <2>8, <2>9, FlushRoot
    <2>. QED  BY <2>6, <2>8, <2>10
  <1>11. CASE EndPlan
    <2>0. PICK L : L = w.left \ {Plan}
      OBVIOUS
    <2>9. PICK pc : pc = IF L = {} THEN "finish" ELSE "plan"
      OBVIOUS
    <2>1. y = [w EXCEPT !.pc = pc, !.left = L, !.start = 0, !.next = 1]
          /\ L \in SUBSET w.left /\ pc \in {"finish", "plan"}
      BY <1>3, <1>11, <2>0, <2>9 DEF EndPlan
    <2>2. y.pc = pc /\ y.left = L /\ y.pending = w.pending
      BY <1>0, <2>1 DEF Walk
    <2>3. ~Given(s) /\ w.pc = "walk"
      BY <1>0, <1>11 DEF EndPlan
    <2>4. Coming(s, y, r) \in SUBSET Coming(s, w, r) /\ Begun(s, y, entry[r], r)
      BY <2>1, <2>2, <2>3 DEF Coming, Begun
    <2>5. y.pc \notin Flusher /\ w.pc \notin Flusher /\ y.pc # "idle"
      BY <2>1, <2>2, <2>3 DEF Flusher, Applying
    <2>. QED  BY <1>0, <1>4, <2>2, <2>4, <2>5, LoopRoot
  <1>. QED  BY <1>6, <1>7, <1>8, <1>9, <1>10, <1>11

\* A step that ends with fail.
LEMMA RootFail ==
    ASSUME TypeOK, NEW S \in SUBSET Roots, NEW base \in [Roots -> Entry], NEW next \in Walk,
           NEW cost \in Nat, Fail(S, base, next, cost), NEW r \in Roots, NEW s, NEW d,
           r \in S => next.pc \notin {"idle", "bulk"} /\ r \notin next.todo /\ Begun(s, next, FailedEntry, r),
           r \notin S => RootOK(s, next, base[r], d, r)
    PROVE  RootOK(s, w', entry'[r], d, r)
  <1>1. PICK lost \in SUBSET S, any \in BOOLEAN, mark \in BOOLEAN : FailsTo(S, base, next, lost, any, mark)
    BY FailFacts
  <1>2. w' = Failed(next, S, any, mark) /\ entry'[r] = IF r \in S THEN FailedEntry ELSE base[r]
    BY <1>1 DEF FailsTo
  <1>3. CASE r \in S
    <2>1. RootOK(s, w', FailedEntry, d, r)
      BY <1>2, <1>3, FailedRoot
    <2>. QED  BY <1>2, <1>3, <2>1
  <1>4. CASE r \notin S
    <2>1. RootOK(s, w', base[r], d, r)
      BY <1>2, <1>4, FailOthers
    <2>. QED  BY <1>2, <1>4, <2>1
  <1>. QED  BY <1>3, <1>4

\* The walk after a batch.
LEMMA NextBatchFacts ==
    ASSUME TypeOK, WalkInv, w.pc \in {"batch", "ask"} \/ (Given(used.setup) /\ w.pc = "walk" /\ w.page = <<>>)
    PROVE  /\ NextBatch \in Walk /\ NextBatch.pc = "batch" /\ Placed(used.setup, NextBatch)
           /\ NextBatch.next = w.next + 1 /\ NextBatch.page = <<>> /\ NextBatch.pending = w.pending
           /\ NextBatch.todo = {} /\ Given(used.setup) /\ w.pc \notin Flusher
  <1>. DEFINE s == used.setup
  <1>0. w \in Walk /\ Placed(s, w) /\ w.next \in Nat /\ w.next >= 1
    BY WalkFacts DEF TypeOK, WalkInv, WalkOK, Placed
  <1>1. PICK n \in Nat : n = w.next + 1 /\ n >= 1
    BY <1>0
  <1>2. PICK y : y = [w EXCEPT !.pc = "batch", !.next = n]
    OBVIOUS
  <1>3. NextBatch = y
    BY <1>1, <1>2 DEF NextBatch
  <1>4. /\ y \in Walk
        /\ y.pc = "batch" /\ y.start = w.start /\ y.left = w.left /\ y.next = n /\ y.how = w.how
        /\ y.ids = w.ids /\ y.todo = w.todo /\ y.inbox = w.inbox /\ y.no = w.no /\ y.page = w.page
        /\ y.pending = w.pending /\ y.chunk = w.chunk /\ y.ret = w.ret
    BY <1>0, <1>2 DEF Walk
  <1>5. Given(s) /\ w.page = <<>> /\ w.pc \notin Flusher /\ w.todo = {}
    BY <1>0 DEF Placed, At, Flusher, Applying
  <1>6. Placed(s, y)
    BY <1>0, <1>1, <1>4, <1>5 DEF Placed, At, Waiting, Flusher, Applying
  <1>. QED  BY <1>1, <1>3, <1>4, <1>5, <1>6

\* A root the next batch does not begin.
LEMMA NextBatchRoot ==
    ASSUME TypeOK, WalkInv, w.pc \in {"batch", "ask"} \/ (Given(used.setup) /\ w.pc = "walk" /\ w.page = <<>>),
           NEW r \in Roots, RootOK(used.setup, w, entry[r], docs[r], r)
    PROVE  RootOK(used.setup, NextBatch, entry[r], docs[r], r)
  <1>. DEFINE s == used.setup
  <1>1. PICK y : y = NextBatch
    OBVIOUS
  <1>2. /\ y.pc = "batch" /\ Placed(s, y) /\ y.next = w.next + 1 /\ y.page = <<>> /\ y.pending = w.pending
        /\ Given(s) /\ w.pc \notin Flusher
    BY <1>1, NextBatchFacts
  <1>3. Placed(s, w) /\ w.next \in Nat
    BY WalkFacts DEF TypeOK, WalkInv, WalkOK
  <1>4. Of(<<>>, r) = {}
    BY EmptyFacts
  <1>5. Coming(s, y, r) = {}
    BY <1>2, <1>4 DEF Coming
  <1>6. y.pc \notin Flusher /\ y.pc # "idle"
    BY <1>2 DEF Flusher, Applying
  <1>7. Begun(s, y, entry[r], r)
    <2>1. ASSUME entry[r].tracked
          PROVE  \E i \in DOMAIN s.batches : r \in s.batches[i] /\ i < y.next
      <3>1. PICK i \in DOMAIN s.batches : r \in s.batches[i] /\ i <= w.next
        BY <1>2, <2>1 DEF RootOK, Begun
      <3>2. DOMAIN s.batches = 1 .. Len(s.batches) /\ Len(s.batches) \in Nat
        <4>1. IsSetup(s)
          BY StateSets
        <4>2. s.batches \in Seq(SUBSET s.roots)
          BY <4>1, SetFacts
        <4>. QED  BY <4>2, LenProperties
      <3>. QED  BY <1>2, <1>3, <3>1, <3>2
    <2>2. DOMAIN s.batches = 1 .. Len(s.batches) /\ Len(s.batches) \in Nat
      <3>1. IsSetup(s)
        BY StateSets
      <3>2. s.batches \in Seq(SUBSET s.roots)
        BY <3>1, SetFacts
      <3>. QED  BY <3>2, LenProperties
    <2>. QED  BY <1>2, <1>3, <2>1, <2>2 DEF Begun
  <1>. QED  BY <1>1, <1>2, <1>3, <1>5, <1>6, <1>7, LoopRoot

\* The batch loop.
LEMMA RootBatch ==
    ASSUME TypeOK, TypeNext, WalkInv, WalkInv', RootInv, DrawnInv, NEW r \in Roots,
           BeginBatch \/ BatchFails \/ AskPlans \/ BatchDone \/ EndBatches
    PROVE  RootOK(used.setup, w', entry'[r], docs'[r], r)
  <1>. DEFINE s == used.setup
  <1>0. w \in Walk /\ Placed(s, w) /\ RootOK(s, w, entry[r], docs[r], r) /\ Targeted = Given(s)
        /\ Batches = s.batches /\ w.next \in Nat
    BY StateSets, WalkFacts DEF TypeOK, WalkInv, WalkOK, RootInv, Roots, Batches
  <1>1. docs' = docs
    BY DEF BeginBatch, BatchFails, AskPlans, BatchDone, EndBatches
  <1>2. IsSetup(s) /\ entry[r] \in EntryIn(s) /\ docs[r] \in DocsIn(s)
    BY RootTypes
  <1>3. PICK y \in Walk : y = w'
    BY DEF TypeNext
  <1>4. Placed(s, y)
    BY <1>3 DEF WalkInv, WalkOK, TypeNext
  <1>5. entry \in [Roots -> Entry]
    BY DEF TypeOK
  <1>6. CASE BatchDone
    <2>1. Given(s) /\ w.pc = "walk" /\ w.page = <<>> /\ w' = NextBatch /\ entry' = entry
      BY <1>0, <1>6 DEF BatchDone
    <2>2. RootOK(s, NextBatch, entry[r], docs[r], r)
      BY <1>0, <2>1, NextBatchRoot
    <2>. QED  BY <1>1, <2>1, <2>2
  <1>7. CASE EndBatches
    <2>1. w' = [w EXCEPT !.pc = "finish"] /\ w.pc = "batch" /\ entry' = entry
      BY <1>7 DEF EndBatches
    <2>2. y.pc = "finish" /\ y.next = w.next /\ y.page = w.page /\ y.pending = w.pending
      BY <1>0, <1>3, <2>1 DEF Walk
    <2>3. y.pc \notin Flusher /\ w.pc \notin Flusher /\ y.pc # "idle" /\ Given(s)
      BY <1>0, <2>1, <2>2 DEF Placed, At, Flusher, Applying
    <2>4. Coming(s, y, r) = Coming(s, w, r)
      BY <2>1, <2>2, <2>3 DEF Coming
    <2>5. Begun(s, y, entry[r], r)
      BY <1>0, <2>2, <2>3 DEF RootOK, Begun, At
    <2>6. RootOK(s, y, entry[r], docs[r], r)
      BY <1>0, <1>4, <2>2, <2>3, <2>4, <2>5, LoopRoot
    <2>. QED  BY <1>1, <1>3, <2>1, <2>6
  <1>8. CASE BatchFails
    <2>1. Fail(Batch, entry, NextBatch, 1) /\ w.pc \in {"batch", "ask"} /\ w.next <= Len(Batches)
      BY <1>8 DEF BatchFails
    <2>2. Batch \in SUBSET Roots /\ w.next \in DOMAIN s.batches /\ Batch = s.batches[w.next]
      BY <1>0, <2>1, BatchIds
    <2>3. PICK x \in Walk : x = NextBatch
      BY <2>1, NextBatchFacts
    <2>4. x.pc = "batch" /\ x.next = w.next + 1 /\ x.todo = {}
      BY <2>1, <2>3, NextBatchFacts
    <2>5. r \notin Batch => RootOK(s, x, entry[r], docs[r], r)
      BY <1>0, <2>1, <2>3, NextBatchRoot
    <2>6. r \in Batch => Begun(s, x, FailedEntry, r)
      BY <1>0, <2>2, <2>4 DEF Begun
    <2>7. RootOK(s, w', entry'[r], docs[r], r)
      BY <1>5, <2>1, <2>2, <2>3, <2>4, <2>5, <2>6, RootFail
    <2>. QED  BY <1>1, <2>7
  <1>9. CASE AskPlans
    <2>1. PICK errs \in SUBSET Batch :
             Fail(errs, entry, [w EXCEPT !.pc = "walk", !.page = BatchItems(Batch \ errs)], Cardinality(errs))
      BY <1>9 DEF AskPlans, BatchItems
    <2>2. w.pc = "ask" /\ Given(s) /\ w.next <= Len(Batches)
      BY <1>0, <1>9 DEF Placed, At, Flusher, Applying, AskPlans
    <2>3. Batch \in SUBSET Roots /\ w.next \in DOMAIN s.batches /\ Batch = s.batches[w.next]
      BY <1>0, <2>2, BatchIds
    <2>4. errs \in SUBSET Roots /\ Batch \ errs \in SUBSET Roots /\ Cardinality(errs) \in Nat
      BY <2>3, StateSets
    <2>5. PICK q : q = BatchItems(Batch \ errs)
      OBVIOUS
    <2>6. q \in Seq(Item) /\ \A it \in Range(q) : it.id \in Batch
      BY <2>4, <2>5, BatchFacts
    <2>7. PICK x : x = [w EXCEPT !.pc = "walk", !.page = q]
      OBVIOUS
    <2>8. /\ x \in Walk
          /\ x.pc = "walk" /\ x.start = w.start /\ x.left = w.left /\ x.next = w.next /\ x.how = w.how
          /\ x.ids = w.ids /\ x.todo = w.todo /\ x.inbox = w.inbox /\ x.no = w.no /\ x.page = q
          /\ x.pending = w.pending /\ x.chunk = w.chunk /\ x.ret = w.ret
      BY <1>0, <2>6, <2>7 DEF Walk
    <2>9. Placed(s, x)
      BY <1>0, <2>2, <2>8 DEF Placed, At, Waiting, Flusher, Applying
    <2>10. Fail(errs, entry, x, Cardinality(errs))
      BY <2>1, <2>5, <2>7
    <2>11. Coming(s, x, r) \in SUBSET Coming(s, w, r)
      <3>1. Of(q, r) \in SUBSET s.selected
        BY <1>0, <2>6, ItemFacts, StateSets
      <3>2. Of(q, r) # {} => r \in Batch
        BY <2>6, IdFacts
      <3>. QED  BY <2>2, <2>3, <2>8, <3>1, <3>2 DEF Coming
    <2>12. x.pc \notin Flusher /\ w.pc \notin Flusher /\ x.pc # "idle"
      BY <2>2, <2>8 DEF Flusher, Applying
    <2>13. Begun(s, x, entry[r], r)
      BY <1>0, <2>2, <2>8, <2>12 DEF RootOK, Begun, At
    <2>14. RootOK(s, x, entry[r], docs[r], r)
      BY <1>0, <2>8, <2>9, <2>11, <2>12, <2>13, LoopRoot
    <2>15. r \in errs => Begun(s, x, FailedEntry, r)
      BY <1>0, <2>3, <2>8, <2>12 DEF Begun, At
    <2>16. x.todo = {} /\ x.pc \notin {"idle", "bulk"}
      BY <1>0, <2>2, <2>8, <2>12 DEF Placed
    <2>17. RootOK(s, w', entry'[r], docs[r], r)
      BY <1>5, <2>4, <2>8, <2>10, <2>14, <2>15, <2>16, RootFail
    <2>. QED  BY <1>1, <2>17
  <1>10. CASE BeginBatch
    <2>1. w' = [w EXCEPT !.pc = "ask"] /\ w.pc = "batch" /\ w.next <= Len(Batches)
      BY <1>10 DEF BeginBatch
    <2>2. y.pc = "ask" /\ y.next = w.next /\ y.page = w.page /\ y.pending = w.pending
      BY <1>0, <1>3, <2>1 DEF Walk
    <2>3. y.pc \notin Flusher /\ w.pc \notin Flusher /\ y.pc # "idle" /\ Given(s)
      BY <1>0, <2>1, <2>2 DEF Placed, At, Flusher, Applying
    <2>4. Batch \in SUBSET Roots /\ w.next \in DOMAIN s.batches /\ Batch = s.batches[w.next]
      BY <1>0, <2>1, BatchIds
    <2>5. CASE r \notin Batch
      <3>1. entry'[r] = entry[r]
        BY <1>0, <1>10, <2>5, BeginBatchFacts
      <3>2. Coming(s, y, r) = {}
        BY <2>2, <2>3, <2>4, <2>5 DEF Coming
      <3>3. Begun(s, y, entry[r], r)
        BY <1>0, <2>1, <2>2, <2>3 DEF RootOK, Begun, At
      <3>4. RootOK(s, y, entry[r], docs[r], r)
        BY <1>0, <1>4, <2>2, <2>3, <3>2, <3>3, LoopRoot
      <3>. QED  BY <1>1, <1>3, <3>1, <3>4
    <2>6. CASE r \in Batch
      <3>1. PICK n \in Nat, e \in EntryIn(s) :
                 /\ e = entry'[r] /\ n = seq + Nth(Batch, r) /\ n > seq /\ n <= seq'
                 /\ Open(e) /\ e.tracked /\ e.occ = n /\ e.nils = {} /\ e.lastCounted = 0
                 /\ e.lastDoc = 0 /\ e.remaining = Cardinality(Selected) /\ ~e.partial /\ ~e.settled
        BY <1>0, <1>10, <2>6, BeginBatchFacts
      <3>2. ~entry[r].tracked
        <4>1. SUFFICES ASSUME entry[r].tracked
                       PROVE  FALSE
          OBVIOUS
        <4>2. PICK i \in DOMAIN s.batches : r \in s.batches[i] /\ i < w.next
          BY <1>0, <2>1, <2>3, <4>1 DEF RootOK, Begun, At
        <4>3. i # w.next
          <5>1. DOMAIN s.batches = 1 .. Len(s.batches) /\ Len(s.batches) \in Nat
            <6>1. s.batches \in Seq(SUBSET s.roots)
              BY <1>2, SetFacts
            <6>. QED  BY <6>1, LenProperties
          <5>. QED  BY <1>0, <4>2, <5>1
        <4>4. s.batches[i] \cap s.batches[w.next] = {}
          BY <1>2, <2>4, <4>3 DEF IsSetup
        <4>. QED  BY <2>4, <2>6, <4>2, <4>4
      <3>3. Of(w.pending, r) = {}
        BY <1>0, <3>2 DEF RootOK, Handled, Open
      <3>4. Queue(y, r) = {} /\ Coming(s, y, r) = s.selected
        BY <2>2, <2>3, <2>4, <2>6, <3>3 DEF Queue, Coming, Waiting
      <3>5. \A v \in s.versions : docs[r][v].ver < e.occ
        <4>1. \A v \in s.versions : docs[r][v].ver <= seq
          BY DEF DrawnInv, Drawn
        <4>2. \A v \in s.versions : docs[r][v].ver \in Nat
          BY RootTypes
        <4>3. seq \in Nat
          BY DEF TypeOK
        <4>. QED  BY <3>1, <4>1, <4>2, <4>3
      <3>6. Selected = s.selected
        BY DEF Selected
      <3>7. Books(s, e, docs[r], {}, s.selected, Removing(y, r))
        BY <1>2, <3>1, <3>5, <3>6, BooksFresh
      <3>8. Handled(s, y, e, docs[r], r)
        BY <1>4, <2>2, <2>3, <3>3, HandledLoop
      <3>9. Begun(s, y, e, r)
        BY <1>0, <2>2, <2>3, <2>4, <2>6 DEF Begun, At
      <3>10. RootOK(s, y, e, docs[r], r)
        BY <3>4, <3>7, <3>8, <3>9 DEF RootOK
      <3>. QED  BY <1>1, <1>3, <3>1, <3>10
    <2>. QED  BY <2>5, <2>6
  <1>. QED  BY <1>6, <1>7, <1>8, <1>9, <1>10

\* The item at the head of the page is one of the answers to come.
LEMMA ItemComing ==
    ASSUME TypeOK, WalkInv, NEW q \in Roots, AtItem(q)
    PROVE  /\ w.pc = "walk" /\ w.page # <<>> /\ Head(w.page).id = q /\ Head(w.page).v \in Selected
           /\ Head(w.page).v \in Coming(used.setup, w, q)
           /\ \A r \in Roots : Coming(used.setup, ItemDone, r) \in SUBSET Coming(used.setup, w, r)
           /\ \A u \in Coming(used.setup, ItemDone, q) :
                 /\ ~Given(used.setup) => Head(w.page).v <= u
                 /\ Given(used.setup) =>
                       Head(w.page).v # u /\ (Head(w.page).body.found => Head(w.page).v < u)
  <1>. DEFINE s == used.setup
  <1>1. w.pc = "walk" /\ w.page # <<>> /\ Head(w.page).id = q
    BY DEF AtItem
  <1>2. PICK x \in Walk : x = ItemDone
    BY <1>1, ItemWalk
  <1>3. x.pc = "walk" /\ x.page = Tail(w.page) /\ x.left = w.left
    BY <1>1, <1>2, ItemWalk
  <1>4. PICK it \in Item : it = Head(w.page)
    BY <1>1, HeadFacts
  <1>5. it \in Range(w.page) /\ it.v \in Selected /\ Range(w.page) = {it} \cup Range(Tail(w.page))
        /\ Tail(w.page) \in Seq(Item)
    BY <1>1, <1>4, HeadFacts
  <1>6. Placed(s, w) /\ Paged(s, w) /\ w \in Walk /\ w.page \in Seq(Item)
    BY WalkFacts DEF WalkInv, WalkOK, TypeOK
  <1>7. CASE Given(s)
    <2>1. \A r : Coming(s, w, r) = Of(w.page, r) /\ Coming(s, x, r) = Of(Tail(w.page), r)
      BY <1>1, <1>3, <1>7 DEF Coming
    <2>2. it.v \in Of(w.page, q)
      BY <1>1, <1>4, <1>5 DEF Of
    <2>3. \A r : Of(Tail(w.page), r) \in SUBSET Of(w.page, r)
      BY <1>5 DEF Of
    <2>4. Ordered(w.page)
      BY <1>6, <1>7 DEF Paged
    <2>5. \A i \in DOMAIN Tail(w.page) : Tail(w.page)[i].id = Head(w.page).id =>
             Tail(w.page)[i].v # Head(w.page).v /\ (Head(w.page).body.found => Head(w.page).v < Tail(w.page)[i].v)
      BY <1>1, <1>6, <2>4, OrderedTail
    <2>6. \A k \in Range(Tail(w.page)) : k.id = q => k.v # it.v /\ (it.body.found => it.v < k.v)
      BY <1>1, <1>4, <2>5 DEF Range
    <2>7. \A u \in Of(Tail(w.page), q) : u # it.v /\ (it.body.found => it.v < u)
      BY <2>6 DEF Of
    <2>. QED  BY <1>1, <1>2, <1>4, <1>5, <1>7, <2>1, <2>2, <2>3, <2>7
  <1>8. CASE ~Given(s)
    <2>1. \A r : Coming(s, w, r) = w.left /\ Coming(s, x, r) = w.left
      BY <1>3, <1>8 DEF Coming
    <2>2. it.v = LeastOf(w.left)
      BY <1>5, <1>6, <1>8 DEF Paged
    <2>3. w.left # {} /\ w.left \in SUBSET Nat /\ IsFiniteSet(w.left)
      <3>1. w.left # {}
        BY <1>1, <1>6, <1>8 DEF Placed, At, Flusher, Applying
      <3>2. w.left \in SUBSET Selected
        BY <1>6, WalkFacts
      <3>. QED  BY <3>1, <3>2, StateSets
    <2>4. LeastOf(w.left) \in w.left /\ \A u \in w.left : LeastOf(w.left) <= u
      BY <2>3, ExtremeFacts
    <2>. QED  BY <1>1, <1>2, <1>4, <1>5, <1>8, <2>1, <2>2, <2>4
  <1>. QED  BY <1>7, <1>8

\* A root that is not the item's, or that the item changes nothing of.
LEMMA ItemRoot ==
    ASSUME TypeOK, WalkInv, NEW q \in Roots, AtItem(q), NEW r \in Roots,
           RootOK(used.setup, w, entry[r], docs[r], r)
    PROVE  RootOK(used.setup, ItemDone, entry[r], docs[r], r)
  <1>. DEFINE s == used.setup
  <1>1. w.pc = "walk" /\ w.page # <<>> /\ Coming(s, ItemDone, r) \in SUBSET Coming(s, w, r)
    BY ItemComing
  <1>2. PICK x \in Walk : x = ItemDone
    BY <1>1, ItemWalk
  <1>3. x.pc = "walk" /\ x.pending = w.pending /\ x.next = w.next /\ Placed(s, x)
    BY <1>1, <1>2, ItemWalk DEF WalkOK
  <1>4. w.pc \notin Flusher /\ x.pc \notin Flusher /\ x.pc # "idle" /\ Placed(s, w)
    BY <1>1, <1>3 DEF Flusher, Applying, WalkInv, WalkOK
  <1>5. Begun(s, x, entry[r], r)
    BY <1>1, <1>3, <1>4 DEF RootOK, Begun, At
  <1>. QED  BY <1>1, <1>2, <1>3, <1>4, <1>5, LoopRoot

\* The nil of an item counts as an outcome still owed.
LEMMA NilOwed ==
    ASSUME TypeOK, WalkInv, RootInv, NEW q \in Roots, CountNil(q)
    PROVE  /\ entry[q].remaining >= 1 /\ WithNil(entry[q], Head(w.page).v) \in EntryIn(used.setup)
           /\ Open(WithNil(entry[q], Head(w.page).v))
           /\ Books(used.setup, WithNil(entry[q], Head(w.page).v), docs[q], Queue(w, q),
                    Coming(used.setup, ItemDone, q), Removing(w, q))
  <1>. DEFINE s == used.setup
  <1>1. AtItem(q) /\ ~Head(w.page).body.found /\ Unsettled(q) /\ Head(w.page).v \notin entry[q].nils
        /\ ~Contradicts(Head(w.page), entry[q])
    BY Zenon DEF CountNil
  <1>2. PICK v : v = Head(w.page).v
    OBVIOUS
  <1>3. v \in s.selected /\ v \in Coming(s, w, q)
    BY <1>1, <1>2, ItemComing DEF Selected
  <1>4. Open(entry[q]) /\ v \notin entry[q].nils /\ v # entry[q].lastDoc
    BY <1>1, <1>2 DEF Unsettled, Open, Contradicts
  <1>5. /\ IsSetup(s) /\ entry[q] \in EntryIn(s) /\ docs[q] \in DocsIn(s)
        /\ Queue(w, q) \in SUBSET s.selected /\ Coming(s, w, q) \in SUBSET s.selected
    BY RootTypes
  <1>6. Books(s, entry[q], docs[q], Queue(w, q), Coming(s, w, q), Removing(w, q))
    BY DEF RootInv, RootOK
  <1>8. PICK C2 : C2 = Coming(s, ItemDone, q)
    OBVIOUS
  <1>9. C2 \in SUBSET Coming(s, w, q) /\ (Given(s) => v \notin C2)
    BY <1>1, <1>2, <1>8, ItemComing
  <1>10. entry[q].remaining >= 1 /\ WithNil(entry[q], v) \in EntryIn(s) /\ Open(WithNil(entry[q], v))
         /\ Books(s, WithNil(entry[q], v), docs[q], Queue(w, q), C2, Removing(w, q))
    BY <1>3, <1>4, <1>5, <1>6, <1>9, BooksNil
  <1>. QED  BY <1>2, <1>8, <1>10

\* A document is queued.
LEMMA RootAdd ==
    ASSUME TypeOK, TypeNext, WalkInv, RootInv, NEW q \in Roots, NEW r \in Roots, AddDoc(q)
    PROVE  RootOK(used.setup, w', entry'[r], docs'[r], r)
  <1>. DEFINE s == used.setup
  <1>1. AtItem(q) /\ Head(w.page).body.found /\ Unsettled(q) /\ Head(w.page).v \notin entry[q].nils
        /\ docs' = docs /\ entry' = [entry EXCEPT ![q].lastDoc = Head(w.page).v]
    BY DEF AddDoc
  <1>2. w.pc = "walk" /\ w.page # <<>>
    BY <1>1, ItemComing
  <1>3. PICK it \in Item : it = Head(w.page)
    BY <1>2, HeadFacts
  <1>4. it \in Range(w.page) /\ it.id = q /\ it.v \in s.selected
    BY <1>1, <1>2, <1>3, HeadFacts DEF AtItem, Selected
  <1>5. New(it.body) /\ it.body.found
    BY <1>1, <1>3, <1>4 DEF WalkInv, WalkOK, AllNew
  <1>6. PICK x \in Walk : x = ItemDone
    BY <1>2, ItemWalk
  <1>7. WalkOK(s, x) /\ x.pc = "walk" /\ x.pending = w.pending /\ x.page = Tail(w.page) /\ x.left = w.left
        /\ x.next = w.next
    BY <1>2, <1>6, ItemWalk
  <1>8. PICK z : z = Queued(x, it)
    OBVIOUS
  <1>9. w' = Flushing(z, "walk") \/ w' = z
    BY <1>3, <1>6, <1>8 DEF AddDoc, Queued
  <1>20. WalkOK(s, x) /\ x.pc = "walk"
    BY <1>7
  <1>19. WalkOK(s, z) /\ z \in Walk /\ z.pc = x.pc /\ z.page = x.page /\ z.left = x.left /\ z.next = x.next
    BY <1>5, <1>8, <1>20, QueueWalk
  <1>21. Range(z.pending) = Range(x.pending) \cup {it}
    <2>1. x.pending \in Seq(Item)
      BY WalkFacts
    <2>2. z.pending = Append(x.pending, it)
      BY <1>8 DEF Queued, Walk
    <2>. QED  BY <2>1, <2>2, AppendFacts
  <1>10. /\ WalkOK(s, z) /\ z \in Walk /\ z.pc = "walk" /\ z.page = Tail(w.page) /\ z.left = w.left
         /\ z.next = w.next /\ Range(z.pending) = Range(w.pending) \cup {it}
    BY <1>7, <1>19, <1>21
  <1>11. Placed(s, z) /\ Placed(s, w) /\ z.pc \notin Flusher /\ w.pc \notin Flusher /\ z.pc # "idle"
    BY <1>2, <1>10 DEF WalkOK, Flusher, Applying, WalkInv
  <1>12. Coming(s, z, r) = Coming(s, x, r)
    BY <1>7, <1>10 DEF Coming
  <1>13. Coming(s, z, r) \in SUBSET Coming(s, w, r)
    BY <1>1, <1>6, <1>12, ItemComing
  <1>14. RootOK(s, w, entry[r], docs[r], r)
    BY DEF RootInv
  <1>15. IsSetup(s) /\ entry[r] \in EntryIn(s) /\ docs[r] \in DocsIn(s)
         /\ Queue(w, r) \in SUBSET s.selected /\ Coming(s, w, r) \in SUBSET s.selected
    BY RootTypes
  <1>16. RootOK(s, z, entry'[r], docs[r], r)
    <2>1. CASE r # q
      <3>1. entry'[r] = entry[r]
        BY <1>1, <2>1 DEF TypeOK
      <3>2. Of(z.pending, r) = Of(w.pending, r)
        BY <1>4, <1>10, <2>1 DEF Of
      <3>3. Begun(s, z, entry[r], r)
        BY <1>2, <1>10, <1>11, <1>14 DEF RootOK, Begun, At
      <3>4. RootOK(s, z, entry[r], docs[r], r)
        BY <1>11, <1>13, <1>14, <3>2, <3>3, LoopRoot
      <3>. QED  BY <3>1, <3>4
    <2>2. CASE r = q
      <3>1. PICK e \in EntryIn(s) : e = entry[r]
        BY <1>15
      <3>2. PICK v : v = it.v
        OBVIOUS
      <3>3. PICK e2 : e2 = WithDoc(e, v)
        OBVIOUS
      <3>4. entry'[r] = e2
        BY <1>1, <1>3, <2>2, <3>1, <3>2, <3>3 DEF TypeOK, WithDoc
      <3>5. v \in s.selected /\ v \in Coming(s, w, r) /\ v \notin e.nils /\ Open(e)
        BY <1>1, <1>3, <1>4, <2>2, <3>1, <3>2, ItemComing DEF Unsettled, Open
      <3>6. \A u \in Coming(s, z, r) : v <= u /\ (Given(s) => v # u)
        <4>1. ASSUME NEW u \in Coming(s, z, r)
              PROVE  v <= u /\ (Given(s) => v # u)
          <5>1. u \in Coming(s, ItemDone, q)
            BY <1>6, <1>12, <2>2, <4>1
          <5>2. /\ ~Given(s) => v <= u
                /\ Given(s) => v # u /\ v < u
            BY <1>1, <1>3, <3>2, <5>1, ItemComing
          <5>3. v \in Nat /\ u \in Nat
            BY <1>13, <1>15, <3>5, <4>1, StateSets DEF Selected
          <5>. QED  BY <5>2, <5>3
        <4>. QED  BY <4>1
      <3>7. Queue(w, r) = Of(w.pending, r) /\ Queue(z, r) = Of(z.pending, r)
        BY <1>2, <1>10 DEF Queue, Waiting
      <3>8. Of(z.pending, r) = Of(w.pending, r) \cup {v}
        BY <1>4, <1>10, <2>2, <3>2 DEF Of
      <3>9. Books(s, e, docs[r], Queue(w, r), Coming(s, w, r), Removing(w, r))
        BY <1>14, <3>1 DEF RootOK
      <3>10. Queue(z, r) = Queue(w, r) \cup {v}
        BY <3>7, <3>8
      <3>15. /\ WithDoc(e, v) \in EntryIn(s) /\ Open(WithDoc(e, v))
             /\ Books(s, WithDoc(e, v), docs[r], Queue(w, r) \cup {v}, Coming(s, z, r), Removing(w, r))
        BY <1>13, <1>15, <3>5, <3>6, <3>9, BooksQueued
      <3>11. e2 \in EntryIn(s) /\ Open(e2) /\ Books(s, e2, docs[r], Queue(z, r), Coming(s, z, r), Removing(w, r))
        BY <3>3, <3>10, <3>15
      <3>12. Removing(w, r) = Removing(z, r)
        BY <1>11 DEF Removing, Placed
      <3>13. Handled(s, z, e2, docs[r], r)
        BY <1>11, <3>11, HandledLoop
      <3>14. Begun(s, z, e2, r)
        BY <1>2, <1>10, <1>11, <1>14, <3>1, <3>5 DEF RootOK, Begun, At, Open
      <3>. QED  BY <3>4, <3>11, <3>12, <3>13, <3>14 DEF RootOK
    <2>. QED  BY <2>1, <2>2
  <1>17. entry'[r] \in EntryIn(s)
    BY NextDocs
  <1>18. RootOK(s, Flushing(z, "walk"), entry'[r], docs[r], r)
    BY <1>10, <1>11, <1>15, <1>16, <1>17, FlushRoot
  <1>. QED  BY <1>1, <1>9, <1>16, <1>18

\* A root the flusher takes up for a nil.
LEMMA NilledRoot ==
    ASSUME NEW s, IsSetup(s), NEW x \in Walk, NEW y, NEW q, NEW r, NEW how \in {"nil", "leave", "remove"},
           x.pc = "walk", x.ids = {}, y.pc = "nils", y.how = how, y.ret = "walk", y.ids = {q}, y.todo = {q},
           y.left = x.left, y.next = x.next, y.page = x.page, y.pending = x.pending,
           NEW e \in EntryIn(s), NEW d \in DocsIn(s), RootOK(s, x, e, d, r),
           r = q => /\ Open(e) /\ e.remaining = 0 /\ ~e.partial /\ Of(x.pending, r) = {}
                    /\ how = "remove" => e.lastDoc = 0
    PROVE  RootOK(s, y, e, d, r)
  <1>1. Queue(y, r) = Queue(x, r) /\ Coming(s, y, r) = Coming(s, x, r)
    BY DEF Queue, Coming, Waiting
  <1>2. ~Removing(x, r)
    BY DEF Removing
  <1>3. Handled(s, y, e, d, r)
    BY DEF RootOK, Handled, Applying
  <1>4. Begun(s, y, e, r)
    BY DEF RootOK, Begun, At, Flusher, Applying
  <1>. QED  BY <1>1, <1>2, <1>3, <1>4, RootKept

\* A nil counts.
LEMMA RootNil ==
    ASSUME TypeOK, TypeNext, WalkInv, RootInv, NEW q \in Roots, NEW r \in Roots, CountNil(q)
    PROVE  RootOK(used.setup, w', entry'[r], docs'[r], r)
  <1>. DEFINE s == used.setup
              o == [entry[q] EXCEPT !.nils = @ \cup {Head(w.page).v}, !.remaining = @ - 1]
              base == [entry EXCEPT ![q] = o]
  <1>1. AtItem(q) /\ ~Head(w.page).body.found /\ Unsettled(q) /\ Head(w.page).v \notin entry[q].nils
        /\ ~Contradicts(Head(w.page), entry[q]) /\ docs' = docs
    BY Zenon DEF CountNil
  <1>2. IF o.remaining = 0 /\ o.partial
        THEN Fail({q}, base, ItemDone, 0)
        ELSE /\ entry' = base
             /\ w' = IF o.remaining > 0 \/ q \in IdsIn(w.pending) THEN ItemDone
                     ELSE [ItemDone EXCEPT !.pc = "nils", !.how = Settling(o), !.ret = "walk",
                                           !.ids = {q}, !.todo = {q}]
    BY Zenon DEF CountNil
  <1>0. PICK v : v = Head(w.page).v
    OBVIOUS
  <1>3. o = WithNil(entry[q], v)
    BY <1>0 DEF WithNil
  <1>4. w.pc = "walk" /\ w.page # <<>> /\ v \in s.selected /\ v \in Coming(s, w, q)
        /\ Coming(s, ItemDone, q) \in SUBSET Coming(s, w, q)
        /\ (Given(s) => v \notin Coming(s, ItemDone, q))
    BY <1>0, <1>1, ItemComing DEF Selected
  <1>5. Open(entry[q]) /\ v \notin entry[q].nils /\ v # entry[q].lastDoc
    BY <1>0, <1>1 DEF Unsettled, Open, Contradicts
  <1>6. /\ IsSetup(s) /\ entry[q] \in EntryIn(s) /\ docs[q] \in DocsIn(s)
        /\ Queue(w, q) \in SUBSET s.selected /\ Coming(s, w, q) \in SUBSET s.selected
    BY RootTypes
  <1>7. Books(s, entry[q], docs[q], Queue(w, q), Coming(s, w, q), Removing(w, q))
    BY DEF RootInv, RootOK
  <1>8. PICK C2 : C2 = Coming(s, ItemDone, q)
    OBVIOUS
  <1>. HIDE DEF o
  <1>9. /\ entry[q].remaining >= 1 /\ WithNil(entry[q], v) \in EntryIn(s) /\ Open(WithNil(entry[q], v))
        /\ Books(s, WithNil(entry[q], v), docs[q], Queue(w, q), C2, Removing(w, q))
    BY <1>0, <1>8, NilOwed
  <1>10. o \in EntryIn(s) /\ Open(o) /\ o \in Entry
    BY <1>3, <1>9, EntrySets
  <1>11. entry \in [Roots -> Entry] /\ base \in [Roots -> Entry] /\ base[q] = o /\ (r # q => base[r] = entry[r])
    BY <1>10 DEF TypeOK
  <1>12. PICK x \in Walk : x = ItemDone
    BY <1>4, ItemWalk
  <1>13. x.pc = "walk" /\ x.pending = w.pending /\ x.next = w.next /\ Placed(s, x) /\ x.ids = w.ids /\ x.todo = w.todo
         /\ WalkOK(s, x)
    BY <1>4, <1>12, ItemWalk DEF WalkOK
  <1>14. x.ids = {} /\ x.todo = {} /\ w.ids = {} /\ w.pc \notin Flusher /\ x.pc \notin Flusher
    BY <1>4, <1>13 DEF Placed, Flusher, Applying
  <1>15. RootOK(s, x, entry[r], docs[r], r) /\ Begun(s, x, entry[q], q)
    <2>1. RootOK(s, w, entry[r], docs[r], r) /\ RootOK(s, w, entry[q], docs[q], q)
      BY DEF RootInv
    <2>2. RootOK(s, x, entry[r], docs[r], r) /\ RootOK(s, x, entry[q], docs[q], q)
      BY <1>1, <1>12, <2>1, ItemRoot
    <2>. QED  BY <2>2 DEF RootOK
  <1>16. RootOK(s, x, o, docs[q], q)
    <2>1. Queue(x, q) = Queue(w, q) /\ Removing(x, q) = Removing(w, q)
      BY <1>4, <1>13, <1>14 DEF Queue, Waiting, Removing
    <2>2. Books(s, o, docs[q], Queue(x, q), Coming(s, x, q), Removing(x, q))
      BY <1>3, <1>8, <1>9, <1>12, <2>1
    <2>3. Handled(s, x, o, docs[q], q)
      <3>1. x.pc # "idle"
        BY <1>13
      <3>. QED  BY <1>10, <1>13, <1>14, <3>1, HandledLoop
    <2>4. Begun(s, x, o, q)
      BY <1>5, <1>15 DEF Begun, Open
    <2>. QED  BY <2>2, <2>3, <2>4 DEF RootOK
  <1>17. RootOK(s, x, base[r], docs[r], r)
    BY <1>11, <1>15, <1>16
  <1>18. docs[r] \in DocsIn(s)
    BY RootTypes
  <1>. HIDE DEF base
  <1>19. CASE o.remaining = 0 /\ o.partial
    <2>1. Fail({q}, base, x, 0)
      BY <1>2, <1>12, <1>19
    <2>2. entry[q].tracked
      BY <1>5 DEF Open
    <2>3. Begun(s, x, FailedEntry, q)
      BY <1>15, <2>2, BegunFailed
    <2>4. {q} \in SUBSET Roots /\ 0 \in Nat
      OBVIOUS
    <2>5. r \in {q} => x.pc \notin {"idle", "bulk"} /\ r \notin x.todo /\ Begun(s, x, FailedEntry, r)
      BY <1>13, <1>14, <2>3
    <2>6. RootOK(s, w', entry'[r], docs[r], r)
      BY <1>11, <1>17, <2>1, <2>4, <2>5, RootFail
    <2>. QED  BY <1>1, <2>6
  <1>20. CASE ~(o.remaining = 0 /\ o.partial) /\ (o.remaining > 0 \/ q \in IdsIn(w.pending))
    BY <1>1, <1>2, <1>12, <1>17, <1>20
  <1>21. CASE ~(o.remaining = 0 /\ o.partial) /\ ~(o.remaining > 0 \/ q \in IdsIn(w.pending))
    <2>1. PICK how : how = Settling(o)
      OBVIOUS
    <2>2. how \in {"nil", "leave", "remove"} /\ (how = "remove" => o.lastDoc = 0)
      BY <2>1 DEF Settling
    <2>3. entry' = base /\ w' = Nilled(x, how, q)
      BY <1>2, <1>12, <1>21, <2>1 DEF Nilled
    <2>4. PICK y \in Walk : y = w'
      BY DEF TypeNext
    <2>5. /\ y.pc = "nils" /\ y.how = how /\ y.ret = "walk" /\ y.ids = {q} /\ y.todo = {q}
          /\ y.left = x.left /\ y.next = x.next /\ y.page = x.page /\ y.pending = x.pending
      BY <1>13, <2>2, <2>3, <2>4, NilWalk
    <2>6. o.remaining = 0 /\ ~o.partial
      <3>1. o.remaining \in Nat
        BY <1>6, <1>10, EntryFacts
      <3>. QED  BY <1>21, <3>1
    <2>7. Of(x.pending, q) = {}
      BY <1>13, <1>21, IdFacts
    <2>8. base[r] \in EntryIn(s)
      BY <1>11, EntrySets
    <2>9. RootOK(s, y, base[r], docs[r], r)
      <3>1. CASE r = q
        <4>1. RootOK(s, y, o, docs[q], q)
          BY <1>6, <1>10, <1>13, <1>14, <1>16, <2>2, <2>5, <2>6, <2>7, NilledRoot
        <4>. QED  BY <1>11, <3>1, <4>1
      <3>2. CASE r # q
        BY <1>6, <1>13, <1>14, <1>17, <1>18, <2>2, <2>5, <2>8, <3>2, NilledRoot
      <3>. QED  BY <3>1, <3>2
    <2>. QED  BY <1>1, <2>3, <2>4, <2>9
  <1>. QED  BY <1>19, <1>20, <1>21

\* The items of a page.
LEMMA RootItems ==
    ASSUME TypeOK, TypeNext, WalkInv, RootInv, DrawnInv, NEW q \in Roots, NEW r \in Roots,
           ItemStep(q) \/ BeginItemFails(q)
    PROVE  RootOK(used.setup, w', entry'[r], docs'[r], r)
  <1>. DEFINE s == used.setup
  <1>1. CASE AddDoc(q)
    BY <1>1, RootAdd
  <1>2. CASE CountNil(q)
    BY <1>2, RootNil
  <1>3. AtItem(q)
    BY Zenon DEF ItemStep, BeginItem, AddDoc, SkipItem, Contradiction, CountNil, BeginItemFails
  <1>4. w.pc = "walk" /\ w.page # <<>> /\ Head(w.page).v \in Coming(s, w, q)
    BY <1>3, ItemComing
  <1>5. PICK x \in Walk : x = ItemDone
    BY <1>4, ItemWalk
  <1>6. x.pc = "walk" /\ Placed(s, x) /\ x.todo = w.todo /\ x.next = w.next
    BY <1>4, <1>5, ItemWalk DEF WalkOK
  <1>7. RootOK(s, w, entry[r], docs[r], r) /\ RootOK(s, w, entry[q], docs[q], q)
    BY DEF RootInv
  <1>8. RootOK(s, x, entry[r], docs[r], r) /\ RootOK(s, x, entry[q], docs[q], q)
    BY <1>3, <1>5, <1>7, ItemRoot
  <1>9. x.todo = {} /\ w.ids = {} /\ w.pc \notin Flusher /\ Placed(s, w)
    BY <1>4, <1>6 DEF WalkInv, WalkOK, Placed, Flusher, Applying
  <1>10. entry \in [Roots -> Entry] /\ {q} \in SUBSET Roots /\ 0 \in Nat /\ 1 \in Nat
    BY DEF TypeOK
  <1>11. ~entry[q].tracked => ~Given(s)
    BY <1>4, <1>7 DEF RootOK, Books
  <1>12. CASE SkipItem(q)
    <2>1. w' = x /\ entry' = entry /\ docs' = docs
      BY <1>5, <1>12 DEF SkipItem
    <2>. QED  BY <1>8, <2>1
  <1>13. ASSUME NEW cost \in Nat, Fail({q}, entry, x, cost), docs' = docs, entry[q].tracked \/ ~Given(s)
         PROVE  RootOK(s, w', entry'[r], docs'[r], r)
    <2>1. Begun(s, x, FailedEntry, q)
      BY <1>8, <1>13, BegunFailed DEF RootOK, Begun
    <2>2. r \in {q} => x.pc \notin {"idle", "bulk"} /\ r \notin x.todo /\ Begun(s, x, FailedEntry, r)
      BY <1>6, <1>9, <2>1
    <2>3. RootOK(s, w', entry'[r], docs[r], r)
      BY <1>8, <1>10, <1>13, <2>2, RootFail
    <2>. QED  BY <1>13, <2>3
  <1>14. CASE Contradiction(q)
    <2>1. Fail({q}, entry, x, 0) /\ docs' = docs /\ entry[q].tracked
      BY <1>5, <1>14 DEF Contradiction
    <2>. QED  BY <1>10, <1>13, <2>1
  <1>15. CASE BeginItemFails(q)
    <2>1. Fail({q}, entry, x, 1) /\ docs' = docs /\ ~entry[q].tracked
      BY <1>5, <1>15 DEF BeginItemFails
    <2>. QED  BY <1>10, <1>11, <1>13, <2>1
  <1>16. CASE BeginItem(q)
    <2>1. w' = w /\ docs' = docs /\ ~entry[q].tracked
      BY <1>16 DEF BeginItem
    <2>2. CASE r # q
      <3>1. entry'[r] = entry[r]
        BY <1>10, <1>16, <2>2 DEF BeginItem
      <3>. QED  BY <1>7, <2>1, <3>1
    <2>3. CASE r = q
      <3>1. /\ w.start \in Nat /\ w.left \in SUBSET Selected /\ rows[q].mark \in Nat /\ seq \in Nat
        <4>1. w \in Walk /\ rows \in [Roots -> Row] /\ seq \in Nat
          BY TypeFacts DEF TypeNow
        <4>2. rows[q].mark \in Nat
          BY <4>1 DEF Row
        <4>. QED  BY <4>1, <4>2, WalkFacts
      <3>2. PICK e \in EntryIn(s) : e = entry'[r]
        BY NextDocs
      <3>3. Cardinality(w.left) \in Nat
        BY <3>1, StateSets
      <3>7. /\ Open(e) /\ e.tracked /\ e.occ = seq + 1 /\ e.remaining = Cardinality(w.left)
            /\ (e.partial <=> w.left # Selected) /\ e.nils = {} /\ e.lastCounted = 0 /\ e.lastDoc = 0
        BY <1>16, <2>3, <3>2, BeginItemFacts
      <3>8. Of(w.pending, r) = {}
        BY <1>7, <2>1, <2>3 DEF RootOK, Handled, Open
      <3>9. ~Given(s) /\ Queue(w, r) = {} /\ Coming(s, w, r) = w.left /\ Selected = s.selected
        BY <1>4, <1>11, <2>1, <3>8 DEF Queue, Coming, Waiting, Selected
      <3>10. \A u \in s.versions : docs[r][u].ver < e.occ
        <4>1. \A u \in s.versions : docs[r][u].ver <= seq
          BY DEF DrawnInv, Drawn
        <4>2. \A u \in s.versions : docs[r][u].ver \in Nat
          BY RootTypes
        <4>. QED  BY <3>1, <3>7, <4>1, <4>2
      <3>11. IsSetup(s) /\ docs[r] \in DocsIn(s)
        BY RootTypes
      <3>12. Books(s, e, docs[r], {}, w.left, Removing(w, r))
        BY <3>1, <3>7, <3>9, <3>10, <3>11, BooksFresh
      <3>13. Handled(s, w, e, docs[r], r)
        BY <1>4, <1>9, <3>7, HandledLoop
      <3>14. Begun(s, w, e, r)
        BY <3>9 DEF Begun
      <3>15. RootOK(s, w, e, docs[r], r)
        BY <3>9, <3>12, <3>13, <3>14 DEF RootOK
      <3>. QED  BY <2>1, <3>2, <3>15
    <2>. QED  BY <2>2, <2>3
  <1>. QED  BY <1>1, <1>2, <1>12, <1>14, <1>15, <1>16 DEF ItemStep

\* What counting a chunk makes of the entries and the walk: R has a rejected
\* document, T has nils to apply.
CountsTo(R, base, T, y) ==
    /\ Fail(R, base, y, 0) /\ WalkOK(used.setup, y) /\ SameWalk(w, y) /\ y.pc = "nils" /\ y.todo = T
    /\ \A r \in R : r \in w.ids /\ Open(entry[r]) /\ r \notin T
    /\ \A r \in Roots \ R :
          \/ /\ r \in w.ids /\ Open(entry[r]) /\ base[r] = Counted(entry[r], Landed(r))
             /\ \A v \in Selected : <<r, v>> \notin w.rejected
             /\ r \in T <=> base[r].remaining = 0 /\ ~base[r].partial /\ base[r].nils # {}
          \/ r \notin T /\ base[r] = entry[r] /\ (r \notin w.ids \/ ~Open(entry[r]))

\* Counting a chunk.
LEMMA CountFacts ==
    ASSUME TypeOK, WalkInv, CountDocs
    PROVE  /\ w.pc = "edges" /\ w.todo = {} /\ docs' = docs
           /\ \E R \in SUBSET Roots, base \in [Roots -> Entry], T \in SUBSET Roots, y \in Walk :
                 CountsTo(R, base, T, y)
  <1>. DEFINE s == used.setup
              R == {r \in w.ids : Unsettled(r) /\ \E v \in Selected : <<r, v>> \in w.rejected}
              counted == {r \in w.ids : Unsettled(r)} \ R
              base == [r \in Roots |-> IF r \in counted THEN Counted(entry[r], Landed(r)) ELSE entry[r]]
              T == {r \in counted : base[r].remaining = 0 /\ ~base[r].partial /\ base[r].nils # {}}
  <1>1. Fail(R, base, [w EXCEPT !.pc = "nils", !.todo = T, !.rejected = {}], 0) /\ w.pc = "edges" /\ w.todo = {}
        /\ docs' = docs
    BY Zenon DEF CountDocs
  <1>2. w.ids \in SUBSET Roots /\ w \in Walk /\ entry \in [Roots -> Entry]
    BY WalkFacts DEF TypeOK
  <1>3. R \in SUBSET Roots /\ T \in SUBSET Roots
    BY <1>2
  <1>4. base \in [Roots -> Entry]
    <2>1. ASSUME NEW r \in Roots
          PROVE  Counted(entry[r], Landed(r)) \in Entry
      <3>1. entry[r] \in EntryIn(used.setup) /\ Landed(r) \in SUBSET used.setup.selected
        BY <1>2, EntrySets DEF Landed, Selected
      <3>. QED  BY <3>1, CountedTypes, SetupFacts, EntrySets
    <2>. QED  BY <1>2, <2>1
  <1>5. \A r \in R : r \in w.ids /\ Open(entry[r]) /\ r \notin T
    BY DEF Unsettled, Open
  <1>6. ASSUME NEW r \in Roots \ R
        PROVE  \/ /\ r \in w.ids /\ Open(entry[r]) /\ base[r] = Counted(entry[r], Landed(r))
                  /\ \A v \in Selected : <<r, v>> \notin w.rejected
                  /\ r \in T <=> base[r].remaining = 0 /\ ~base[r].partial /\ base[r].nils # {}
               \/ r \notin T /\ base[r] = entry[r] /\ (r \notin w.ids \/ ~Open(entry[r]))
    <2>1. CASE r \in counted
      <3>1. base[r] = Counted(entry[r], Landed(r))
        BY <2>1
      <3>2. r \in w.ids /\ Open(entry[r])
        BY <2>1 DEF Unsettled, Open
      <3>3. \A v \in Selected : <<r, v>> \notin w.rejected
        BY <1>6, <2>1
      <3>4. r \in T <=> base[r].remaining = 0 /\ ~base[r].partial /\ base[r].nils # {}
        BY <2>1
      <3>. QED  BY <3>1, <3>2, <3>3, <3>4
    <2>2. CASE r \notin counted
      <3>1. base[r] = entry[r] /\ r \notin T
        BY <2>2
      <3>2. r \notin w.ids \/ ~Open(entry[r])
        BY <1>6, <2>2 DEF Unsettled, Open
      <3>. QED  BY <3>1, <3>2
    <2>. QED  BY <2>1, <2>2
  <1>. HIDE DEF R, base, T, counted
  <1>7. PICK y : y = [w EXCEPT !.pc = "nils", !.todo = T, !.rejected = {}]
    OBVIOUS
  <1>8. y \in Walk /\ WalkOK(s, y) /\ SameWalk(w, y) /\ y.pc = "nils" /\ y.todo = T
    BY <1>1, <1>3, <1>7, WalkCount
  <1>9. CountsTo(R, base, T, y)
    BY <1>1, <1>5, <1>6, <1>7, <1>8 DEF CountsTo
  <1>. QED  BY <1>1, <1>3, <1>4, <1>8, <1>9

\* The bulk request.
LEMMA RootBulk ==
    ASSUME TypeOK, TypeNext, WalkInv, RootInv, NEW r \in Roots, BulkUpsert
    PROVE  RootOK(used.setup, w', entry'[r], docs'[r], r)
  <1>. DEFINE s == used.setup
  <1>1. PICK rej \in SUBSET ChunkKeys :
           /\ docs' = Upserted(ChunkKeys \ rej)
           /\ w' = [w EXCEPT !.pc = "edges", !.rejected = rej, !.todo = {k[1] : k \in ChunkKeys \ rej}]
    BY DEF BulkUpsert
  <1>2. w.pc = "bulk" /\ entry' = entry /\ w \in Walk
    BY DEF BulkUpsert, TypeOK
  <1>3. PICK y \in Walk : y = w'
    BY DEF TypeNext
  <1>16. PICK T : T = {k[1] : k \in ChunkKeys \ rej}
    OBVIOUS
  <1>17. y = [w EXCEPT !.pc = "edges", !.rejected = rej, !.todo = T]
    BY <1>1, <1>3, <1>16
  <1>18. SameWalk(w, y) /\ y.pc = "edges" /\ y.rejected = rej /\ y.todo = T
    BY <1>2, <1>17 DEF Walk, SameWalk
  <1>4. SameWalk(w, y) /\ y.pc = "edges" /\ y.rejected = rej /\ y.todo = {k[1] : k \in ChunkKeys \ rej}
    BY <1>16, <1>18
  <1>5. /\ y.how = w.how /\ y.ret = w.ret /\ y.left = w.left /\ y.next = w.next /\ y.page = w.page
        /\ y.pending = w.pending /\ y.chunk = w.chunk /\ y.ids = w.ids
    BY <1>4 DEF SameWalk
  <1>6. w.how = "flush" /\ w.ids = IdsIn(w.chunk) /\ \A it \in Range(w.chunk) : it.body.found
    BY <1>2 DEF WalkInv, WalkOK, Placed, Found, Applying, Waiting
  <1>7. PICK d2 \in DocsIn(s) : d2 = docs'[r]
    BY NextDocs
  <1>8. /\ IsSetup(s) /\ entry[r] \in EntryIn(s) /\ docs[r] \in DocsIn(s) /\ Queue(w, r) \in SUBSET s.selected
        /\ \A v \in s.versions : docs[r][v].ver \in Nat
        /\ entry[r].occ \in Nat /\ Of(w.chunk, r) \in SUBSET s.selected
    BY RootTypes
  <1>9. RootOK(s, w, entry[r], docs[r], r)
    BY DEF RootInv
  <1>10. ASSUME NEW v \in s.versions
         PROVE  IF <<r, v>> \in ChunkKeys \ rej
                THEN \E it \in Range(w.chunk) :
                        it.id = r /\ it.v = v /\ d2[v] = Written(docs[r][v], it.body, entry[r].occ)
                ELSE d2[v] = docs[r][v]
    BY <1>1, <1>7, UpsertFacts DEF Versions
  <1>11. Queue(y, r) = Queue(w, r) /\ Of(w.chunk, r) \in SUBSET Queue(w, r)
         /\ Coming(s, y, r) = Coming(s, w, r) /\ Removing(y, r) = Removing(w, r)
    BY <1>2, <1>4, <1>5 DEF Queue, Waiting, Coming, Removing
  <1>12. Books(s, entry[r], d2, Queue(w, r), Coming(s, w, r), Removing(w, r))
    <2>1. \A v \in s.versions :
              \/ d2[v] = docs[r][v]
              \/ \E b : /\ d2[v] = Written(docs[r][v], b, entry[r].occ)
                        /\ IF b.found THEN v \in Queue(w, r) ELSE v \in entry[r].nils \/ Removing(w, r)
      <3>1. ASSUME NEW v \in s.versions, <<r, v>> \in ChunkKeys \ rej
            PROVE  \E b : /\ d2[v] = Written(docs[r][v], b, entry[r].occ)
                          /\ IF b.found THEN v \in Queue(w, r) ELSE v \in entry[r].nils \/ Removing(w, r)
        <4>1. PICK it \in Range(w.chunk) : it.id = r /\ it.v = v /\ d2[v] = Written(docs[r][v], it.body, entry[r].occ)
          BY <1>10, <3>1
        <4>2. v \in Queue(w, r)
          BY <1>11, <4>1 DEF Of
        <4>. QED  BY <1>6, <4>1, <4>2
      <3>. QED  BY <1>10, <3>1
    <2>2. Books(s, entry[r], docs[r], Queue(w, r), Coming(s, w, r), Removing(w, r))
      BY <1>9 DEF RootOK
    <2>. QED  BY <1>8, <2>1, <2>2, BooksWritten
  <1>13. Handled(s, y, entry[r], d2, r)
    <2>1. r \in y.todo => r \in w.ids
      BY <1>4, <1>6, ChunkFacts
    <2>2. ASSUME NEW v \in Of(w.chunk, r), <<r, v>> \notin rej
          PROVE  d2[v].ver >= entry[r].occ
      <3>1. <<r, v>> \in ChunkKeys \ rej /\ v \in s.versions
        BY <1>8, <2>2, ChunkFacts, SetFacts
      <3>2. PICK it \in Range(w.chunk) : it.id = r /\ it.v = v /\ d2[v] = Written(docs[r][v], it.body, entry[r].occ)
        BY <1>10, <3>1
      <3>3. docs[r][v].ver \in Nat
        BY <1>8, <3>1
      <3>4. Written(docs[r][v], it.body, entry[r].occ).ver >= entry[r].occ
        BY <1>8, <3>3, WrittenFacts
      <3>. QED  BY <3>2, <3>4
    <2>3. Handled(s, w, entry[r], docs[r], r)
      BY <1>9 DEF RootOK
    <2>. QED  BY <1>2, <1>4, <1>5, <1>6, <2>1, <2>2, <2>3 DEF Handled, Applying
  <1>14. Begun(s, y, entry[r], r)
    BY <1>2, <1>4, <1>5, <1>9 DEF RootOK, Begun, At, Flusher
  <1>15. RootOK(s, y, entry[r], d2, r)
    BY <1>11, <1>12, <1>13, <1>14 DEF RootOK
  <1>. QED  BY <1>2, <1>3, <1>7, <1>15

\* A root the flusher has not to do with.
LEMMA TookRoot ==
    ASSUME TypeOK, NEW q \in Roots, w.pc \in Flusher, NEW r \in Roots, r # q \/ w.pc # "nils",
           RootOK(used.setup, w, entry[r], docs[r], r)
    PROVE  RootOK(used.setup, Took(q), entry[r], docs[r], r)
  <1>. DEFINE s == used.setup
  <1>1. PICK y : y = Took(q)
    OBVIOUS
  <1>2. y = [w EXCEPT !.todo = @ \ {q}] /\ w \in Walk
    BY <1>1 DEF Took, TypeOK
  <1>3. SameWalk(w, y) /\ y.pc = w.pc /\ y.rejected = w.rejected /\ y.todo = w.todo \ {q}
    BY <1>2, TookFacts
  <1>4. r \in y.todo => r \in w.ids /\ Open(entry[r])
    BY <1>3 DEF RootOK, Handled
  <1>5. y.pc \in Applying /\ ~(y.pc = "nils" /\ r \in y.todo) => w.pc \in Applying /\ ~(w.pc = "nils" /\ r \in w.todo)
    BY <1>3
  <1>6. (Waiting(y) <=> Waiting(w)) /\ (y.pc = "bulk" => w.pc = "bulk")
        /\ (y.pc = "edges" => w.pc = "edges" /\ y.rejected = w.rejected) /\ y.pc \in Flusher
    BY <1>3 DEF Waiting
  <1>. QED  BY <1>1, <1>3, <1>4, <1>5, <1>6, FlusherRoot

\* A root the flusher had in hand fails.
LEMMA FlusherFails ==
    ASSUME TypeOK, RootInv, NEW q \in Roots, w.pc \in Flusher, w.pc # "bulk", Open(entry[q]), NEW cost \in Nat,
           \/ Fail({q}, entry, Took(q), cost)
           \/ Fail({q}, entry, w, cost) /\ q \notin w.todo,
           NEW r \in Roots, NEW d, r # q => d = docs[r]
    PROVE  RootOK(used.setup, w', entry'[r], d, r)
  <1>. DEFINE s == used.setup
  <1>1. RootOK(s, w, entry[r], docs[r], r) /\ RootOK(s, w, entry[q], docs[q], q)
    BY DEF RootInv
  <1>2. PICK y : y = Took(q)
    OBVIOUS
  <1>3. y = [w EXCEPT !.todo = @ \ {q}] /\ w \in Walk
    BY <1>2 DEF Took, TypeOK
  <1>4. y \in Walk /\ SameWalk(w, y) /\ y.pc = w.pc /\ y.todo = w.todo \ {q}
    BY <1>3, TookFacts
  <1>5. {q} \in SUBSET Roots /\ entry \in [Roots -> Entry] /\ w.pc \notin {"idle", "bulk"} /\ entry[q].tracked
    BY DEF TypeOK, Open, Flusher, Applying
  <1>6. Begun(s, w, entry[q], q)
    BY <1>1 DEF RootOK
  <1>7. Begun(s, w, FailedEntry, q)
    BY <1>5, <1>6, BegunFailed
  <1>8. Begun(s, y, FailedEntry, q)
    BY <1>4, <1>7 DEF SameWalk, Begun, At
  <1>9. r # q => RootOK(s, y, entry[r], d, r)
    BY <1>1, <1>2, TookRoot
  <1>10. CASE Fail({q}, entry, y, cost)
    <2>1. r \in {q} => y.pc \notin {"idle", "bulk"} /\ r \notin y.todo /\ Begun(s, y, FailedEntry, r)
      BY <1>4, <1>5, <1>8
    <2>2. r \notin {q} => RootOK(s, y, entry[r], d, r)
      BY <1>9
    <2>. QED  BY <1>4, <1>5, <1>10, <2>1, <2>2, RootFail
  <1>11. CASE Fail({q}, entry, w, cost) /\ q \notin w.todo
    <2>1. r \in {q} => w.pc \notin {"idle", "bulk"} /\ r \notin w.todo /\ Begun(s, w, FailedEntry, r)
      BY <1>5, <1>7, <1>11
    <2>2. r \notin {q} => RootOK(s, w, entry[r], d, r)
      BY <1>1
    <2>. QED  BY <1>3, <1>5, <1>11, <2>1, <2>2, RootFail
  <1>. QED  BY <1>2, <1>10, <1>11

\* The drift checks.
LEMMA RootDrift ==
    ASSUME TypeOK, TypeNext, WalkInv, RootInv, NEW r \in Roots, CheckDrift \/ CheckDriftFails \/ Narrow
    PROVE  RootOK(used.setup, w', entry'[r], docs'[r], r)
  <1>. DEFINE s == used.setup
  <1>1. entry' = entry /\ docs' = docs /\ RootOK(s, w, entry[r], docs[r], r) /\ w \in Walk
    BY DEF CheckDrift, CheckDriftFails, Narrow, RootInv, TypeOK
  <1>2. PICK y \in Walk : y = w'
    BY DEF TypeNext
  <1>3. SameWalk(w, y)
    BY <1>2, WalkFlusher
  <1>4. \A q \in Checked : q \in w.ids /\ Open(entry[q])
    BY DEF Checked, Unsettled, Open
  <1>5. /\ w.pc \in {"nils", "narrow"} /\ (w.pc = "nils" => w.todo = {}) /\ y.pc \in {"narrow", "remark"}
        /\ y.todo \in SUBSET (w.todo \cup Checked)
    <2>1. CASE CheckDrift
      <3>1. CASE \E q \in Checked : ChangedSince(q)
        <4>1. PICK pc, T : /\ y = [w EXCEPT !.pc = pc, !.hit = TRUE, !.todo = T]
                           /\ pc \in {"narrow", "remark"} /\ T = Checked
          BY <1>2, <2>1, <3>1 DEF CheckDrift
        <4>2. y.pc = pc /\ y.todo = T
          BY <1>1, <4>1 DEF Walk
        <4>. QED  BY <2>1, <4>1, <4>2 DEF CheckDrift
      <3>2. CASE ~\E q \in Checked : ChangedSince(q)
        <4>1. y = [w EXCEPT !.pc = "remark", !.hit = FALSE, !.todo = {}]
          BY <1>2, <2>1, <3>2 DEF CheckDrift
        <4>2. y.pc = "remark" /\ y.todo = {}
          BY <1>1, <4>1 DEF Walk
        <4>. QED  BY <2>1, <4>2 DEF CheckDrift
      <3>. QED  BY <3>1, <3>2
    <2>2. CASE CheckDriftFails
      <3>1. PICK pc, T : /\ y = [w EXCEPT !.pc = pc, !.hit = FALSE, !.todo = T]
                         /\ pc \in {"narrow", "remark"} /\ T = Checked
        BY <1>2, <2>2 DEF CheckDriftFails
      <3>2. y.pc = pc /\ y.todo = T
        BY <1>1, <3>1 DEF Walk
      <3>. QED  BY <2>2, <3>1, <3>2 DEF CheckDriftFails
    <2>3. CASE Narrow
      <3>. DEFINE found(errs) == {q \in w.todo \ errs : ChangedSince(q)}
                  Kept(errs) == IF w.hit /\ found(errs) = {} THEN w.todo ELSE errs \cup found(errs)
      <3>3. PICK errs \in SUBSET w.todo : y = [w EXCEPT !.pc = "remark", !.todo = Kept(errs)]
        BY <1>2, <2>3 DEF Narrow
      <3>4. Kept(errs) \in SUBSET w.todo
        OBVIOUS
      <3>. HIDE DEF Kept
      <3>1. PICK T \in SUBSET w.todo : y = [w EXCEPT !.pc = "remark", !.todo = T]
        BY <3>3, <3>4
      <3>2. y.pc = "remark" /\ y.todo = T
        BY <1>1, <3>1 DEF Walk
      <3>. QED  BY <2>3, <3>1, <3>2 DEF Narrow
    <2>. QED  BY <2>1, <2>2, <2>3
  <1>6. r \in y.todo => r \in w.ids /\ Open(entry[r])
    BY <1>1, <1>4, <1>5 DEF RootOK, Handled
  <1>7. /\ w.pc \in Flusher /\ y.pc \in Flusher /\ (Waiting(y) <=> Waiting(w)) /\ y.pc \notin {"bulk", "edges"}
        /\ w.pc \in Applying /\ ~(w.pc = "nils" /\ r \in w.todo)
    BY <1>5 DEF Flusher, Applying, Waiting
  <1>8. RootOK(s, y, entry[r], docs[r], r)
    BY <1>1, <1>3, <1>6, <1>7, FlusherRoot
  <1>. QED  BY <1>1, <1>2, <1>8

\* The edge sets, and what settles a root.
LEMMA RootSettle ==
    ASSUME TypeOK, TypeNext, WalkInv, RootInv, NEW q \in Roots, NEW r \in Roots,
           \/ StoreEdges(q) \/ StoreEdgesFails(q) \/ DropNilsFails(q) \/ LeaveGone(q) \/ Remark(q)
           \/ Complete(q) \/ FailPartial(q) \/ RemoveRow(q)
    PROVE  RootOK(used.setup, w', entry'[r], docs'[r], r)
  <1>. DEFINE s == used.setup
  <1>1. RootOK(s, w, entry[r], docs[r], r) /\ RootOK(s, w, entry[q], docs[q], q) /\ Placed(s, w)
    BY DEF RootInv, WalkInv, WalkOK
  <1>2. r # q => docs'[r] = docs[r]
    <2>1. CASE DropNilsFails(q)
      <3>1. PICK vs \in SUBSET Dropped(q) : docs' = Deleted(q, vs)
        BY <2>1 DEF DropNilsFails
      <3>. QED  BY <3>1 DEF Deleted, TypeOK
    <2>. QED  BY <2>1 DEF StoreEdges, StoreEdgesFails, LeaveGone, Remark, Complete, FailPartial, RemoveRow
  <1>3. q \in w.todo => Open(entry[q])
    BY <1>1 DEF RootOK, Handled
  <1>4. ASSUME Settle(q), w.pc \in Applying, w.todo = {}, q \in w.ids, Open(entry[q]), entry[q].remaining = 0,
               w' = w, docs' = docs
        PROVE  RootOK(s, w', entry'[r], docs'[r], r)
    <2>1. CASE r = q
      BY <1>1, <1>4, <2>1, SettledRoot
    <2>2. CASE r # q
      <3>1. entry'[r] = entry[r]
        BY <1>4, <2>2, SettleFacts
      <3>. QED  BY <1>1, <1>4, <3>1
    <2>. QED  BY <2>1, <2>2
  <1>5. CASE StoreEdges(q)
    <2>1. w' = Took(q) /\ entry' = entry /\ docs' = docs /\ w.pc = "edges"
      BY <1>5 DEF StoreEdges
    <2>2. w.pc \in Flusher /\ w.pc # "nils"
      BY <2>1 DEF Flusher
    <2>. QED  BY <1>1, <2>1, <2>2, TookRoot
  <1>6. CASE StoreEdgesFails(q)
    <2>1. Fail({q}, entry, Took(q), 1) /\ w.pc = "edges" /\ q \in w.todo /\ 1 \in Nat
      BY <1>6 DEF StoreEdgesFails
    <2>2. w.pc \in Flusher /\ w.pc # "bulk"
      BY <2>1 DEF Flusher
    <2>. QED  BY <1>2, <1>3, <2>1, <2>2, FlusherFails
  <1>7. CASE DropNilsFails(q)
    <2>1. Fail({q}, entry, Took(q), 1) /\ w.pc = "nils" /\ q \in w.todo /\ 1 \in Nat
      BY <1>7 DEF DropNilsFails
    <2>2. w.pc \in Flusher /\ w.pc # "bulk"
      BY <2>1 DEF Flusher, Applying
    <2>. QED  BY <1>2, <1>3, <2>1, <2>2, FlusherFails
  <1>8. CASE LeaveGone(q)
    <2>1. w.pc = "nils" /\ w.todo = {} /\ w.how = "leave" /\ q \in w.ids /\ Open(entry[q]) /\ docs' = docs
      BY <1>8 DEF LeaveGone, Unsettled, Open
    <2>2. entry[q].remaining = 0 /\ w.pc \in Applying /\ w.pc \in Flusher /\ w.pc # "bulk" /\ 1 \in Nat
      BY <1>1, <2>1 DEF RootOK, Handled, Applying, Flusher
    <2>3. (Settle(q) /\ w' = w) \/ (Fail({q}, entry, w, 1) /\ q \notin w.todo)
      BY <1>8, <2>1 DEF LeaveGone
    <2>4. CASE Settle(q) /\ w' = w
      BY <1>4, <2>1, <2>2, <2>4
    <2>5. CASE Fail({q}, entry, w, 1) /\ q \notin w.todo
      BY <1>2, <2>1, <2>2, <2>5, FlusherFails
    <2>. QED  BY <2>3, <2>4, <2>5
  <1>9. CASE Remark(q)
    <2>1. w.pc = "remark" /\ q \in w.todo /\ docs' = docs /\ 1 \in Nat
      BY <1>9 DEF Remark
    <2>2. w.pc \in Flusher /\ w.pc \notin {"bulk", "nils"}
      BY <2>1 DEF Flusher, Applying
    <2>3. CASE w' = Took(q) /\ entry' = entry
      BY <1>1, <2>1, <2>2, <2>3, TookRoot
    <2>4. CASE Fail({q}, entry, Took(q), 1)
      BY <1>2, <1>3, <2>1, <2>2, <2>4, FlusherFails
    <2>. QED  BY <1>9, <2>3, <2>4 DEF Remark
  <1>10. CASE Complete(q) \/ FailPartial(q) \/ RemoveRow(q)
    <2>1. w.pc = "remark" /\ w.todo = {} /\ q \in w.ids /\ Open(entry[q]) /\ entry[q].remaining = 0 /\ docs' = docs
      BY <1>10 DEF Complete, FailPartial, RemoveRow, Completable, Unsettled, Open
    <2>2. w.pc \in Applying /\ w.pc \in Flusher /\ w.pc # "bulk"
      BY <2>1 DEF Applying, Flusher
    <2>3. (Settle(q) /\ w' = w) \/ \E cost \in Nat : Fail({q}, entry, w, cost)
      BY <1>10 DEF Complete, FailPartial, RemoveRow
    <2>4. CASE Settle(q) /\ w' = w
      BY <1>4, <2>1, <2>2, <2>4
    <2>5. ASSUME NEW cost \in Nat, Fail({q}, entry, w, cost)
          PROVE  RootOK(s, w', entry'[r], docs'[r], r)
      <3>1. Fail({q}, entry, w, cost) /\ q \notin w.todo
        BY <2>1, <2>5
      <3>. QED  BY <1>2, <2>1, <2>2, <3>1, FlusherFails
    <2>. QED  BY <2>3, <2>4, <2>5
  <1>. QED  BY <1>5, <1>6, <1>7, <1>8, <1>9, <1>10

\* The nils of a root are applied.
LEMMA RootNils ==
    ASSUME TypeOK, TypeNext, WalkInv, RootInv, NEW q \in Roots, NEW r \in Roots, DropNils(q)
    PROVE  RootOK(used.setup, w', entry'[r], docs'[r], r)
  <1>. DEFINE s == used.setup
  <1>1. w.pc = "nils" /\ q \in w.todo /\ w' = Took(q) /\ entry' = entry /\ docs' = Deleted(q, Dropped(q))
    BY DEF DropNils
  <1>2. RootOK(s, w, entry[r], docs[r], r) /\ w.pc \in Flusher
    BY <1>1 DEF RootInv, Flusher, Applying
  <1>3. CASE r # q
    <2>1. docs'[r] = docs[r]
      BY <1>1, <1>3 DEF Deleted, TypeOK
    <2>. QED  BY <1>1, <1>2, <1>3, <2>1, TookRoot
  <1>4. CASE r = q
    <2>1. PICK y : y = Took(q)
      OBVIOUS
    <2>2. y = [w EXCEPT !.todo = @ \ {q}] /\ w \in Walk
      BY <2>1 DEF Took, TypeOK
    <2>3. SameWalk(w, y) /\ y.pc = w.pc /\ y.todo = w.todo \ {q}
      BY <2>2, TookFacts
    <2>4. /\ y.how = w.how /\ y.ret = w.ret /\ y.left = w.left /\ y.next = w.next /\ y.page = w.page
          /\ y.pending = w.pending /\ y.chunk = w.chunk /\ y.ids = w.ids
      BY <2>3 DEF SameWalk
    <2>5. PICK d2 \in DocsIn(s) : d2 = docs'[r]
      BY NextDocs
    <2>6. /\ IsSetup(s) /\ entry[r] \in EntryIn(s) /\ docs[r] \in DocsIn(s) /\ Queue(w, r) \in SUBSET s.selected
          /\ \A v \in s.versions : docs[r][v].ver \in Nat
          /\ entry[r].occ \in Nat /\ entry[r].nils \in SUBSET s.versions
      BY RootTypes
    <2>7. Dropped(q) \in SUBSET s.versions /\ entry[r].nils \in SUBSET Dropped(q)
          /\ \A v \in Dropped(q) : v \in entry[r].nils \/ w.how = "remove"
      BY <1>4, <2>6 DEF Dropped, Versions
    <2>8. \A v \in s.versions :
             d2[v] = IF v \in Dropped(q) THEN Written(docs[r][v], NoBody, entry[r].occ) ELSE docs[r][v]
      BY <1>1, <1>4, <2>5, <2>7, DeletedFacts DEF Versions
    <2>9. Open(entry[r]) /\ r \in w.ids
      BY <1>1, <1>2, <1>4 DEF RootOK, Handled
    <2>10. Queue(y, r) = Queue(w, r) /\ Coming(s, y, r) = Coming(s, w, r) /\ Removing(y, r) = Removing(w, r)
      BY <1>1, <2>3, <2>4 DEF Queue, Waiting, Coming, Removing
    <2>11. Books(s, entry[r], d2, Queue(w, r), Coming(s, w, r), Removing(w, r))
      <3>1. ~NoBody.found
        BY DEF NoBody
      <3>2. \A v \in s.versions :
                \/ d2[v] = docs[r][v]
                \/ \E b : /\ d2[v] = Written(docs[r][v], b, entry[r].occ)
                          /\ IF b.found THEN v \in Queue(w, r) ELSE v \in entry[r].nils \/ Removing(w, r)
        BY <2>7, <2>8, <2>9, <3>1 DEF Removing
      <3>3. Books(s, entry[r], docs[r], Queue(w, r), Coming(s, w, r), Removing(w, r))
        BY <1>2 DEF RootOK
      <3>. QED  BY <2>6, <3>2, <3>3, BooksWritten
    <2>12. \A v \in entry[r].nils : d2[v].ver >= entry[r].occ
      <3>1. ASSUME NEW v \in entry[r].nils
            PROVE  d2[v].ver >= entry[r].occ
        <4>1. v \in s.versions /\ v \in Dropped(q) /\ docs[r][v].ver \in Nat
          BY <2>6, <2>7
        <4>2. Written(docs[r][v], NoBody, entry[r].occ).ver >= entry[r].occ
          BY <2>6, <4>1, WrittenFacts
        <4>. QED  BY <2>8, <4>1, <4>2
      <3>. QED  BY <3>1
    <2>13. Handled(s, y, entry[r], d2, r)
      BY <1>1, <1>2, <2>3, <2>4, <2>12 DEF RootOK, Handled
    <2>14. Begun(s, y, entry[r], r)
      BY <1>2, <2>3, <2>4 DEF RootOK, Begun, At
    <2>15. RootOK(s, y, entry[r], d2, r)
      BY <2>10, <2>11, <2>13, <2>14 DEF RootOK
    <2>. QED  BY <1>1, <2>1, <2>5, <2>15
  <1>. QED  BY <1>3, <1>4

\* A chunk is counted.
LEMMA RootCount ==
    ASSUME TypeOK, TypeNext, WalkInv, RootInv, NEW r \in Roots, CountDocs
    PROVE  RootOK(used.setup, w', entry'[r], docs'[r], r)
  <1>. DEFINE s == used.setup
  <1>1. w.pc = "edges" /\ w.todo = {} /\ docs' = docs
    BY CountFacts
  <1>2. PICK R \in SUBSET Roots, base \in [Roots -> Entry], T \in SUBSET Roots, y \in Walk :
           CountsTo(R, base, T, y)
    BY CountFacts
  <1>3. /\ Fail(R, base, y, 0) /\ Placed(s, y) /\ y.pc = "nils" /\ y.todo = T
        /\ y.how = w.how /\ y.ret = w.ret /\ y.left = w.left /\ y.next = w.next /\ y.page = w.page
        /\ y.pending = w.pending /\ y.chunk = w.chunk /\ y.ids = w.ids
    BY <1>2 DEF CountsTo, SameWalk, WalkOK
  <1>4. w.how = "flush" /\ w.pending = <<>>
    BY <1>1 DEF WalkInv, WalkOK, Placed, Flusher, Applying
  <1>5. Of(w.pending, r) = {}
    BY <1>4, EmptyFacts
  <1>6. RootOK(s, w, entry[r], docs[r], r)
    BY DEF RootInv
  <1>7. /\ IsSetup(s) /\ entry[r] \in EntryIn(s) /\ docs[r] \in DocsIn(s)
        /\ Queue(w, r) \in SUBSET s.selected /\ Coming(s, w, r) \in SUBSET s.selected
        /\ Of(w.chunk, r) \in SUBSET s.selected
    BY RootTypes
  <1>8. Queue(y, r) = {} /\ Coming(s, y, r) = Coming(s, w, r) /\ ~Removing(w, r) /\ ~Removing(y, r)
        /\ Queue(w, r) = Of(w.chunk, r)
    BY <1>1, <1>3, <1>4, <1>5 DEF Queue, Waiting, Coming, Removing
  <1>9. ASSUME NEW e, e.tracked => entry[r].tracked
        PROVE  Begun(s, y, e, r)
    BY <1>1, <1>3, <1>6, <1>9 DEF RootOK, Begun, At, Flusher, Applying
  <1>10. r \in R => y.pc \notin {"idle", "bulk"} /\ r \notin y.todo /\ Begun(s, y, FailedEntry, r)
    <2>1. ASSUME r \in R
          PROVE  r \notin y.todo /\ entry[r].tracked
      BY <1>2, <1>3, <2>1 DEF CountsTo, Open
    <2>. QED  BY <1>3, <1>9, <2>1
  <1>11. ASSUME r \notin R
         PROVE  RootOK(s, y, base[r], docs[r], r)
    <2>1. CASE r \notin T /\ base[r] = entry[r] /\ (r \notin w.ids \/ ~Open(entry[r]))
      <3>1. Handled(s, y, entry[r], docs[r], r)
        BY <1>3, <1>5, <2>1 DEF Handled
      <3>2. Begun(s, y, entry[r], r)
        BY <1>9
      <3>3. RootOK(s, y, entry[r], docs[r], r)
        BY <1>6, <1>7, <1>8, <3>1, <3>2, RootKept
      <3>. QED  BY <2>1, <3>3
    <2>2. CASE /\ r \in w.ids /\ Open(entry[r]) /\ base[r] = Counted(entry[r], Landed(r))
               /\ \A v \in Selected : <<r, v>> \notin w.rejected
               /\ r \in T <=> base[r].remaining = 0 /\ ~base[r].partial /\ base[r].nils # {}
      <3>1. PICK e \in EntryIn(s) : e = entry[r]
        BY <1>7
      <3>2. PICK L : L = Landed(r)
        OBVIOUS
      <3>3. L \in SUBSET Of(w.chunk, r) /\ \A v \in L : <<r, v>> \notin w.rejected
        BY <3>2, ChunkFacts DEF Landed
      <3>4. L \in SUBSET s.selected /\ L \subseteq Queue(w, r)
        BY <1>7, <1>8, <3>3
      <3>5. \A v \in L : docs[r][v].ver >= e.occ
        BY <1>1, <1>6, <2>2, <3>1, <3>3 DEF RootOK, Handled
      <3>6. Books(s, e, docs[r], Queue(w, r), Coming(s, w, r), Removing(w, r))
        BY <1>6, <3>1 DEF RootOK
      <3>7. PICK e2 : e2 = Counted(e, L)
        OBVIOUS
      <3>13. Open(e)
        BY <2>2, <3>1
      <3>14. Counted(e, L) \in EntryIn(s) /\ Open(Counted(e, L))
             /\ Books(s, Counted(e, L), docs[r], {}, Coming(s, w, r), Removing(w, r))
        BY <1>7, <3>4, <3>5, <3>6, <3>13, BooksCounted
      <3>8. Open(e2) /\ Books(s, e2, docs[r], {}, Coming(s, w, r), Removing(w, r))
        BY <3>7, <3>14
      <3>9. Books(s, e2, docs[r], Queue(y, r), Coming(s, y, r), Removing(y, r))
        <4>1. Removing(y, r) = Removing(w, r)
          BY <1>3 DEF Removing
        <4>. QED  BY <1>8, <3>8, <4>1
      <3>10. base[r] = e2
        BY <2>2, <3>1, <3>2, <3>7
      <3>11. Handled(s, y, e2, docs[r], r)
        BY <1>3, <1>4, <1>5, <2>2, <3>8, <3>10 DEF Handled
      <3>12. Begun(s, y, e2, r)
        BY <1>9, <2>2 DEF Open
      <3>. QED  BY <3>9, <3>10, <3>11, <3>12 DEF RootOK
    <2>. QED  BY <1>2, <1>11, <2>1, <2>2 DEF CountsTo
  <1>12. RootOK(s, w', entry'[r], docs[r], r)
    <2>1. 0 \in Nat
      OBVIOUS
    <2>. QED  BY <1>3, <1>10, <1>11, <2>1, RootFail
  <1>. QED  BY <1>1, <1>12

\* The flusher returns.
LEMMA RootReturn ==
    ASSUME TypeOK, TypeNext, WalkInv, WalkInv', RootInv, NEW r \in Roots, FlusherReturns
    PROVE  RootOK(used.setup, w', entry'[r], docs'[r], r)
  <1>. DEFINE s == used.setup
  <1>0. w \in Walk /\ RootOK(s, w, entry[r], docs[r], r) /\ entry' = entry /\ docs' = docs
    BY DEF TypeOK, RootInv, FlusherReturns
  <1>1. PICK p : p = w.ret
    OBVIOUS
  <1>2. p \in {"plan", "walk", "finish"} /\ w.pc \in Applying /\ w.todo = {}
    BY <1>0, <1>1, WalkFacts DEF FlusherReturns, Applying
  <1>3. PICK y \in Walk : y = w'
    BY DEF TypeNext
  <1>4. y = [w EXCEPT !.pc = p, !.how = "flush", !.ret = "walk", !.ids = {}, !.chunk = <<>>, !.hit = FALSE]
    BY <1>1, <1>3 DEF FlusherReturns
  <1>5. /\ y.pc = p /\ y.how = "flush" /\ y.ids = {} /\ y.left = w.left /\ y.next = w.next
        /\ y.page = w.page /\ y.pending = w.pending
    BY <1>0, <1>4 DEF Walk
  <1>6. Placed(s, y)
    BY <1>3 DEF WalkInv, WalkOK, TypeNext
  <1>7. y.pc \notin Flusher /\ w.pc \in Flusher /\ ~Waiting(y) /\ ~Waiting(w) /\ y.pc # "idle" /\ w.pc # "ask" /\ y.pc # "ask"
    BY <1>2, <1>5 DEF Flusher, Applying, Waiting
  <1>8. Queue(y, r) = Queue(w, r) /\ Coming(s, y, r) = Coming(s, w, r)
    BY <1>5, <1>7 DEF Queue, Coming
  <1>9. ~(Open(entry[r]) /\ Removing(w, r))
    <2>1. SUFFICES ASSUME Open(entry[r]), w.how = "remove", r \in w.ids
                   PROVE  FALSE
      BY DEF Removing
    <2>2. entry[r].remaining = 0
      BY <1>0, <2>1 DEF RootOK, Handled
    <2>3. w.pc = "remark" /\ w.todo = {}
      BY <2>1 DEF FlusherReturns
    <2>4. Completable(r)
      BY <2>1, <2>2, <2>3 DEF Completable, Unsettled, Open
    <2>. QED  BY <2>1, <2>4 DEF FlusherReturns
  <1>10. Of(y.pending, r) # {} => Open(entry[r])
    BY <1>0, <1>5 DEF RootOK, Handled
  <1>11. Handled(s, y, entry[r], docs[r], r)
    BY <1>6, <1>7, <1>10, HandledLoop
  <1>12. Begun(s, y, entry[r], r)
    BY <1>0, <1>1, <1>5, <1>7 DEF RootOK, Begun, At
  <1>13. IsSetup(s) /\ entry[r] \in EntryIn(s) /\ docs[r] \in DocsIn(s)
    BY RootTypes
  <1>14. RootOK(s, y, entry[r], docs[r], r)
    BY <1>0, <1>8, <1>9, <1>11, <1>12, <1>13, RootKept
  <1>. QED  BY <1>0, <1>3, <1>14

\* Later documents of a root are as good for the flusher.
LEMMA HandledLater ==
    ASSUME NEW s, NEW x, NEW e, NEW d, NEW d2, NEW r, Handled(s, x, e, d, r), e.occ \in Nat,
           Of(x.chunk, r) \in SUBSET s.versions, e.nils \in SUBSET s.versions,
           \A v \in s.versions : d[v].ver \in Nat /\ d2[v].ver \in Nat /\ d2[v].ver >= d[v].ver
    PROVE  Handled(s, x, e, d2, r)
  <1>1. \A v \in s.versions : d[v].ver >= e.occ => d2[v].ver >= e.occ
    OBVIOUS
  <1>. HIDE DEF Open
  <1>2. ASSUME r \in x.ids, Open(e), x.pc = "edges", NEW v \in Of(x.chunk, r), <<r, v>> \notin x.rejected
        PROVE  d2[v].ver >= e.occ
    <2>1. d[v].ver >= e.occ /\ v \in s.versions
      BY <1>2 DEF Handled
    <2>. QED  BY <1>1, <2>1
  <1>3. ASSUME r \in x.ids, Open(e), x.pc \in Applying, ~(x.pc = "nils" /\ r \in x.todo),
               e.remaining = 0, ~e.partial, NEW v \in e.nils
        PROVE  d2[v].ver >= e.occ
    <2>1. d[v].ver >= e.occ /\ v \in s.versions
      BY <1>3 DEF Handled
    <2>. QED  BY <1>1, <2>1
  <1>4. /\ x.pc = "idle" => e = NoEntry
        /\ Of(x.pending, r) # {} => Open(e)
        /\ r \in x.todo => r \in x.ids /\ Open(e)
        /\ x.pc = "bulk" /\ r \in x.ids => Open(e)
        /\ r \in x.ids /\ Open(e) /\ x.how # "flush" => e.remaining = 0 /\ ~e.partial /\ Of(x.pending, r) = {}
        /\ r \in x.ids /\ Open(e) /\ x.how = "remove" => e.lastDoc = 0
    BY DEF Handled
  <1>. QED  BY <1>2, <1>3, <1>4, Zenon DEF Handled

\* A live build writes at a number of its own.
LEMMA LiveDocs ==
    ASSUME TypeOK, TypeNext, DrawnInv, NEW q \in Roots, NEW r \in Roots, LiveEnd(q)
    PROVE  /\ r # q => docs'[r] = docs[r]
           /\ \A v \in used.setup.versions :
                 \/ docs'[r][v] = docs[r][v]
                 \/ /\ docs'[r][v].ver >= docs[r][v].ver /\ docs'[r][v].ver # entry[r].occ
                    /\ docs'[r][v].ver # docs[r][v].ver
                    /\ docs'[r][v] = [ver |-> live[r].idx, body |-> live[r].out[v]]
                    /\ live[r].idx > 1
  <1>0. TypeNow /\ Versions = used.setup.versions
    BY TypeFacts DEF Versions
  <1>1. docs' = [docs EXCEPT ![q] = [v \in Versions |-> Written(@[v], live[q].out[v], live[q].idx)]]
    BY DEF LiveEnd
  <1>2. docs \in [Roots -> [Versions -> Doc]] /\ live[q].idx \in Nat
    BY <1>0 DEF TypeNow, Live
  <1>3. r # q => docs'[r] = docs[r]
    BY <1>1, <1>2
  <1>4. ASSUME r = q, NEW v \in Versions
        PROVE  \/ docs'[r][v] = docs[r][v]
               \/ /\ docs'[r][v].ver >= docs[r][v].ver /\ docs'[r][v].ver # entry[r].occ
                  /\ docs'[r][v].ver # docs[r][v].ver
                  /\ docs'[r][v] = [ver |-> live[r].idx, body |-> live[r].out[v]]
                  /\ live[r].idx > 1
    <2>1. docs'[q][v] = Written(docs[q][v], live[q].out[v], live[q].idx)
      BY <1>1, <1>2
    <2>2. docs[q][v].ver \in Nat
      BY <1>2 DEF Doc
    <2>3. NoLive = NoLiveIn(used.setup)
      BY DEF NoLive, NoLiveIn, Versions
    <2>4. live[q] # NoLiveIn(used.setup)
      BY <2>3 DEF LiveEnd
    <2>5. Drawn(used.setup, entry[q], docs[q], live[q], seq)
      BY DEF DrawnInv
    <2>6. live[q].idx > 1 /\ live[q].idx # entry[q].occ /\ docs[q][v].ver # live[q].idx
      BY <1>0, <2>4, <2>5 DEF Drawn
    <2>7. \/ docs'[q][v] = docs[q][v]
          \/ docs'[q][v] = [ver |-> live[q].idx, body |-> live[q].out[v]]
      BY <1>2, <2>1, <2>2, WrittenFacts
    <2>8. docs'[q][v].ver >= docs[q][v].ver
      BY <1>2, <2>1, <2>2, WrittenFacts
    <2>9. CASE docs'[q][v] = [ver |-> live[q].idx, body |-> live[q].out[v]]
      <3>1. docs'[q][v].ver = live[q].idx
        BY <2>9
      <3>. QED  BY <1>4, <2>6, <2>8, <2>9, <3>1
    <2>. QED  BY <1>4, <2>7, <2>9
  <1>. QED  BY <1>0, <1>3, <1>4

\* Changes, registrations, live builds and beats.
LEMMA RootOther ==
    ASSUME TypeOK, TypeNext, RootInv, DrawnInv, NEW r \in Roots, w' = w, entry' = entry,
           docs' = docs \/ \E q \in Roots : LiveEnd(q)
    PROVE  RootOK(used.setup, w', entry'[r], docs'[r], r)
  <1>1. RootOK(used.setup, w, entry[r], docs[r], r)
    BY DEF RootInv
  <1>2. CASE docs' = docs
    BY <1>1, <1>2
  <1>3. ASSUME NEW q \in Roots, LiveEnd(q)
        PROVE  RootOK(used.setup, w', entry'[r], docs'[r], r)
    <2>1. /\ IsSetup(used.setup) /\ entry[r] \in EntryIn(used.setup) /\ docs[r] \in DocsIn(used.setup)
          /\ docs'[r] \in DocsIn(used.setup) /\ entry[r].occ \in Nat
          /\ Of(w.chunk, r) \in SUBSET used.setup.selected /\ entry[r].nils \in SUBSET used.setup.versions
      BY RootTypes, NextDocs
    <2>2. Of(w.chunk, r) \in SUBSET used.setup.versions
      BY <2>1, SetFacts
    <2>3. PICK d2 \in DocsIn(used.setup) : d2 = docs'[r]
      BY <2>1
    <2>4. \A v \in used.setup.versions : docs[r][v].ver \in Nat /\ d2[v].ver \in Nat
      BY <2>1, <2>3 DEF DocsIn
    <2>5. \A v \in used.setup.versions :
             d2[v] = docs[r][v] \/ (d2[v].ver >= docs[r][v].ver /\ d2[v].ver # entry[r].occ)
      BY <1>3, <2>3, LiveDocs
    <2>6. \A v \in used.setup.versions : d2[v].ver >= docs[r][v].ver
      BY <2>4, <2>5
    <2>7. Handled(used.setup, w, entry[r], d2, r)
      BY <1>1, <2>1, <2>2, <2>4, <2>6, HandledLater DEF RootOK
    <2>8. RootOK(used.setup, w, entry[r], d2, r)
      BY <1>1, <2>1, <2>5, <2>7, RootKept DEF RootOK
    <2>. QED  BY <2>3, <2>8
  <1>. QED  BY <1>2, <1>3

\* Every step keeps the root's books.
LEMMA RootStep ==
    ASSUME TypeOK, TypeNext, WalkInv, WalkInv', RootInv, DrawnInv, Next
    PROVE  RootInv'
  <1>0. SUFFICES ASSUME NEW r \in Roots
                 PROVE  RootOK(used.setup, w', entry'[r], docs'[r], r)
    <2>1. Roots' = Roots /\ used'.setup = used.setup
      BY DEF TypeNext, Roots
    <2>. QED  BY <1>0, <2>1 DEF RootInv
  <1>1. CASE WalkStep
    <2>1. CASE LoopStep
      BY <2>1, RootAttempts, RootLoop, RootBatch DEF LoopStep
    <2>2. CASE FlushStep
      BY <2>2, RootBulk, RootCount, RootDrift, RootReturn DEF FlushStep
    <2>3. ASSUME NEW q \in Roots, ItemStep(q)
          PROVE  RootOK(used.setup, w', entry'[r], docs'[r], r)
      BY <2>3, RootItems
    <2>4. ASSUME NEW q \in Roots, SettleStep(q)
          PROVE  RootOK(used.setup, w', entry'[r], docs'[r], r)
      BY <2>4, RootSettle, RootNils DEF SettleStep
    <2>. QED  BY <1>1, <2>1, <2>2, <2>3, <2>4 DEF WalkStep
  <1>2. CASE Failure
    <2>1. CASE Abort \/ Crash \/ BulkFails
      BY <2>1, RootAttempts
    <2>2. CASE BatchFails \/ CheckDriftFails
      BY <2>2, RootBatch, RootDrift
    <2>3. ASSUME NEW q \in Roots, BeginItemFails(q)
          PROVE  RootOK(used.setup, w', entry'[r], docs'[r], r)
      BY <2>3, RootItems
    <2>4. ASSUME NEW q \in Roots, StoreEdgesFails(q) \/ DropNilsFails(q)
          PROVE  RootOK(used.setup, w', entry'[r], docs'[r], r)
      BY <2>4, RootSettle
    <2>. QED  BY <1>2, <2>1, <2>2, <2>3, <2>4 DEF Failure
  <1>3. CASE \/ Beat \/ Rest
             \/ \E q \in Roots : ChangeRoot(q) \/ LiveBegin(q) \/ LiveEnd(q)
             \/ \E c \in Kids : ChangeKid(c)
             \/ \E y \in Things : Register(y)
    <2>1. w' = w /\ entry' = entry
      BY <1>3 DEF Beat, Rest, vars, ChangeRoot, LiveBegin, LiveEnd, ChangeKid, Register
    <2>2. docs' = docs \/ \E q \in Roots : LiveEnd(q)
      BY <1>3 DEF Beat, Rest, vars, ChangeRoot, LiveBegin, ChangeKid, Register
    <2>. QED  BY <2>1, <2>2, RootOther
  <1>. QED  BY <1>1, <1>2, <1>3 DEF Next

-----------------------------------------------------------------------------
(* The numbers drawn *)

\* What a step does to a root's Build Sequence: it keeps it, gives it up, or
\* draws a new one.
OccTo(e, e2, n, n2) ==
    /\ n2 >= n
    /\ \/ e2.occ = e.occ /\ (Open(e2) => Open(e))
       \/ e2.occ = 0 /\ ~Open(e2)
       \/ n < e2.occ /\ e2.occ <= n2

\* The entries after fail, whatever its caller leaves of the walk.
LEMMA FailEntry ==
    ASSUME TypeOK, NEW S \in SUBSET Roots, NEW base, NEW next, NEW cost, Fail(S, base, next, cost)
    PROVE  /\ seq' \in Nat /\ seq' >= seq
           /\ \A r \in Roots : entry'[r] = IF r \in S THEN FailedEntry ELSE base[r]
  <1>1. PICK lost \in SUBSET S : /\ seq' = seq + Cardinality(S \ lost)
                                 /\ entry' = [r \in Roots |-> IF r \in S THEN FailedEntry ELSE base[r]]
    BY DEF Fail
  <1>2. S \ lost \in SUBSET Roots
    OBVIOUS
  <1>3. Cardinality(S \ lost) \in Nat
    BY <1>2, MarkFacts
  <1>. QED  BY <1>1, <1>3 DEF TypeOK

\* The numbers after fail.
LEMMA FailOcc ==
    ASSUME TypeOK, NEW S \in SUBSET Roots, NEW base, NEW next, NEW cost, Fail(S, base, next, cost),
           NEW r \in Roots, base[r].occ = entry[r].occ, Open(base[r]) => Open(entry[r])
    PROVE  OccTo(entry[r], entry'[r], seq, seq')
  <1>1. FailedEntry.occ = 0 /\ ~Open(FailedEntry)
    BY EntryTypes
  <1>2. seq' >= seq /\ entry'[r] = IF r \in S THEN FailedEntry ELSE base[r]
    BY FailEntry
  <1>. QED  BY <1>1, <1>2 DEF OccTo

\* The items' steps.
LEMMA OccItem ==
    ASSUME TypeOK, WalkInv, RootInv, NEW q \in Roots, NEW r \in Roots, ItemStep(q) \/ BeginItemFails(q)
    PROVE  OccTo(entry[r], entry'[r], seq, seq')
  <1>0. seq \in Nat /\ entry \in [Roots -> Entry] /\ entry[q] \in Entry /\ {q} \in SUBSET Roots
    BY DEF TypeOK
  <1>1. CASE BeginItem(q)
    <2>1. seq' = seq + 1
      BY <1>1 DEF BeginItem
    <2>2. CASE r = q
      <3>1. entry'[r].occ = seq + 1
        BY <1>1, <2>2, BeginItemFacts
      <3>. QED  BY <1>0, <2>1, <3>1 DEF OccTo
    <2>3. CASE r # q
      <3>1. entry'[r] = entry[r]
        BY <1>1, <2>3, BeginItemFacts
      <3>. QED  BY <1>0, <2>1, <3>1 DEF OccTo
    <2>. QED  BY <2>2, <2>3
  <1>2. CASE AddDoc(q)
    <2>1. entry' = [entry EXCEPT ![q].lastDoc = Head(w.page).v] /\ seq' = seq
      BY <1>2 DEF AddDoc
    <2>2. PICK v : v = Head(w.page).v
      OBVIOUS
    <2>3. entry' = [entry EXCEPT ![q] = [entry[q] EXCEPT !.lastDoc = v]]
      BY <1>0, <2>1, <2>2
    <2>4. PICK f : f = [entry[q] EXCEPT !.lastDoc = v]
      OBVIOUS
    <2>5. f.occ = entry[q].occ /\ Open(f) = Open(entry[q])
      BY <1>0, <2>4 DEF Entry, Open
    <2>6. entry'[r] = IF r = q THEN f ELSE entry[r]
      BY <1>0, <2>3, <2>4
    <2>. QED  BY <1>0, <2>1, <2>5, <2>6 DEF OccTo
  <1>3. CASE SkipItem(q)
    BY <1>0, <1>3 DEF SkipItem, OccTo
  <1>4. CASE Contradiction(q) \/ BeginItemFails(q)
    <2>1. \E cost : Fail({q}, entry, ItemDone, cost)
      BY <1>4 DEF Contradiction, BeginItemFails
    <2>. QED  BY <1>0, <2>1, FailOcc
  <1>5. CASE CountNil(q)
    <2>1. PICK f : f = WithNil(entry[q], Head(w.page).v)
      OBVIOUS
    <2>2. f.occ = entry[q].occ /\ Open(f) = Open(entry[q])
      <3>1. PICK N, m : f = [entry[q] EXCEPT !.nils = N, !.remaining = m]
        BY <2>1 DEF WithNil
      <3>. QED  BY <1>0, <3>1 DEF Entry, Open
    <2>3. PICK base : base = [entry EXCEPT ![q] = f]
      OBVIOUS
    <2>4. base[r] = IF r = q THEN f ELSE entry[r]
      BY <1>0, <2>3
    <2>5. base[r].occ = entry[r].occ /\ (Open(base[r]) => Open(entry[r]))
      BY <2>2, <2>4
    <2>6. Fail({q}, base, ItemDone, 0) \/ (entry' = base /\ seq' = seq)
      BY <1>5, <2>1, <2>3, Zenon DEF CountNil, WithNil
    <2>7. CASE Fail({q}, base, ItemDone, 0)
      BY <1>0, <2>5, <2>7, FailOcc
    <2>8. CASE entry' = base /\ seq' = seq
      BY <1>0, <2>5, <2>8 DEF OccTo
    <2>. QED  BY <2>6, <2>7, <2>8
  <1>. QED  BY <1>1, <1>2, <1>3, <1>4, <1>5 DEF ItemStep

\* A settled root keeps its number or gives it up.
LEMMA SettledOcc ==
    ASSUME TypeOK, NEW q \in Roots, NEW r \in Roots, Settle(q), seq' \in Nat, seq' >= seq
    PROVE  OccTo(entry[r], entry'[r], seq, seq')
  <1>1. CASE r # q
    BY <1>1, SettleFacts DEF OccTo
  <1>2. CASE r = q
    <2>1. NoEntry.occ = 0 /\ ~Open(NoEntry)
      BY EntryTypes
    <2>2. \/ entry'[r] = NoEntry
          \/ entry'[r].settled /\ entry'[r].occ = entry[r].occ
      BY <1>2, SettleFacts
    <2>. QED  BY <2>1, <2>2 DEF OccTo, Open
  <1>. QED  BY <1>1, <1>2

\* The flusher's steps.
LEMMA OccSettle ==
    ASSUME TypeOK, NEW q \in Roots, NEW r \in Roots,
           SettleStep(q) \/ StoreEdgesFails(q) \/ DropNilsFails(q)
    PROVE  OccTo(entry[r], entry'[r], seq, seq')
  <1>0. seq \in Nat /\ {q} \in SUBSET Roots
    BY DEF TypeOK
  <1>1. ASSUME NEW next, NEW cost, Fail({q}, entry, next, cost)
        PROVE  OccTo(entry[r], entry'[r], seq, seq')
    BY <1>0, <1>1, FailOcc
  <1>2. CASE entry' = entry /\ seq' \in {seq, seq + 1}
    BY <1>0, <1>2 DEF OccTo
  <1>3. CASE Settle(q) /\ seq' \in {seq, seq + 1}
    BY <1>0, <1>3, SettledOcc
  <1>4. CASE StoreEdges(q) \/ DropNils(q)
    BY <1>2, <1>4 DEF StoreEdges, DropNils
  <1>5. CASE LeaveGone(q)
    BY <1>1, <1>3, <1>5 DEF LeaveGone
  <1>6. CASE Remark(q)
    BY <1>1, <1>2, <1>6 DEF Remark
  <1>7. CASE Complete(q)
    BY <1>3, <1>7 DEF Complete
  <1>8. CASE FailPartial(q)
    BY <1>1, <1>8 DEF FailPartial
  <1>9. CASE RemoveRow(q)
    BY <1>1, <1>3, <1>9 DEF RemoveRow
  <1>10. CASE StoreEdgesFails(q)
    BY <1>1, <1>10 DEF StoreEdgesFails
  <1>11. CASE DropNilsFails(q)
    BY <1>1, <1>11 DEF DropNilsFails
  <1>. QED  BY <1>4, <1>5, <1>6, <1>7, <1>8, <1>9, <1>10, <1>11 DEF SettleStep

\* The loops' steps, and those that end an attempt.
LEMMA OccLoop ==
    ASSUME TypeOK, WalkInv, NEW r \in Roots, LoopStep \/ Abort \/ Crash \/ BulkFails \/ BatchFails
    PROVE  OccTo(entry[r], entry'[r], seq, seq')
  <1>0. seq \in Nat
    BY DEF TypeOK
  <1>1. CASE entry' = entry /\ seq' \in {seq, seq + 1}
    BY <1>0, <1>1 DEF OccTo
  <1>2. CASE Forget /\ seq' \in Nat /\ seq' >= seq
    <2>1. entry'[r] = NoEntry
      BY <1>2 DEF Forget
    <2>2. NoEntry.occ = 0 /\ ~Open(NoEntry)
      BY EntryTypes
    <2>. QED  BY <1>2, <2>1, <2>2 DEF OccTo
  <1>3. CASE \/ StartAttempt \/ Execute \/ FlushBeforePlan \/ FetchPage \/ TakePage \/ PageConsumed
             \/ EndPlan \/ BatchDone \/ EndBatches
    BY <1>1, <1>3 DEF StartAttempt, Execute, FlushBeforePlan, FetchPage, TakePage, PageConsumed,
                      EndPlan, BatchDone, EndBatches
  <1>4. CASE Finish
    <2>. DEFINE S == {q \in Roots : Unsettled(q)}
    <2>1. CASE w.pending # <<>>
      BY <1>1, <1>4, <2>1 DEF Finish
    <2>2. CASE w.pending = <<>>
      <3>1. PICK lost \in SUBSET S : seq' = seq + Cardinality(S \ lost) /\ Forget
        BY <1>4, <2>2 DEF Finish
      <3>2. S \ lost \in SUBSET Roots
        OBVIOUS
      <3>. HIDE DEF S
      <3>3. Cardinality(S \ lost) \in Nat
        BY <3>2, MarkFacts
      <3>. QED  BY <1>0, <1>2, <3>1, <3>3
    <2>. QED  BY <2>1, <2>2
  <1>5. CASE Crash
    BY <1>0, <1>2, <1>5 DEF Crash
  <1>6. CASE Abort \/ BulkFails
    <2>1. Salvage(1)
      BY <1>6 DEF Abort, BulkFails
    <2>. QED  BY <1>2, <2>1, SalvageFacts
  <1>7. CASE BeginBatch
    <2>1. seq' \in Nat /\ seq' >= seq
      BY <1>7, BeginBatchFacts DEF WalkInv, WalkOK
    <2>2. CASE r \in Batch
      <3>0. Placed(used.setup, w)
        BY DEF WalkInv, WalkOK
      <3>1. PICK n \in Nat, e \in EntryIn(used.setup) :
              /\ e = entry'[r] /\ n = seq + Nth(Batch, r) /\ n > seq /\ n <= seq'
              /\ Open(e) /\ e.tracked /\ e.occ = n /\ e.nils = {} /\ e.lastCounted = 0
              /\ e.lastDoc = 0 /\ e.remaining = Cardinality(Selected) /\ ~e.partial /\ ~e.settled
        BY <1>7, <2>2, <3>0, BeginBatchFacts
      <3>. QED  BY <2>1, <3>1 DEF OccTo
    <2>3. CASE r \notin Batch
      <3>1. entry'[r] = entry[r]
        BY <1>7, <2>3, BeginBatchFacts DEF WalkInv, WalkOK
      <3>. QED  BY <2>1, <3>1 DEF OccTo
    <2>. QED  BY <2>2, <2>3
  <1>8. CASE BatchFails
    <2>1. Batch \in SUBSET Roots
      BY <1>8, BatchIds DEF BatchFails, WalkInv, WalkOK
    <2>2. Fail(Batch, entry, NextBatch, 1)
      BY <1>8 DEF BatchFails
    <2>. QED  BY <2>1, <2>2, FailOcc
  <1>9. CASE AskPlans
    <2>1. Batch \in SUBSET Roots
      <3>1. w.next <= Len(Batches)
        BY <1>9 DEF WalkInv, WalkOK, Placed, At, Flusher, Applying, AskPlans, Batches, Given
      <3>. QED  BY <3>1, BatchIds DEF WalkInv, WalkOK
    <2>2. PICK errs \in SUBSET Batch :
            Fail(errs, entry, [w EXCEPT !.pc = "walk", !.page = BatchItems(Batch \ errs)], Cardinality(errs))
      BY <1>9 DEF AskPlans, BatchItems
    <2>3. errs \in SUBSET Roots
      BY <2>1
    <2>. QED  BY <2>2, <2>3, FailOcc
  <1>. QED  BY <1>3, <1>4, <1>5, <1>6, <1>7, <1>8, <1>9 DEF LoopStep

\* What every step does to the numbers of the roots.
LEMMA OccStep ==
    ASSUME TypeOK, TypeNext, WalkInv, RootInv, Next, NEW r \in Roots
    PROVE  OccTo(entry[r], entry'[r], seq, seq')
  <1>0. seq \in Nat
    BY DEF TypeOK
  <1>1. CASE entry' = entry /\ seq' \in Nat /\ seq' >= seq
    BY <1>1 DEF OccTo
  <1>2. CASE WalkStep
    <2>1. CASE LoopStep
      BY <2>1, OccLoop
    <2>2. CASE BulkUpsert \/ CheckDrift \/ Narrow \/ FlusherReturns
      <3>1. entry' = entry
        BY <2>2, Zenon DEF BulkUpsert, CheckDrift, Narrow, FlusherReturns
      <3>2. seq' = seq
        BY <2>2, Zenon DEF BulkUpsert, CheckDrift, Narrow, FlusherReturns
      <3>. QED  BY <1>0, <1>1, <3>1, <3>2
    <2>3. CASE CountDocs
      <3>1. PICK R \in SUBSET Roots, base \in [Roots -> Entry], T \in SUBSET Roots, y \in Walk : CountsTo(R, base, T, y)
        BY <2>3, CountFacts
      <3>2. Fail(R, base, y, 0)
        BY <3>1 DEF CountsTo
      <3>3. r \notin R => base[r].occ = entry[r].occ /\ (Open(base[r]) => Open(entry[r]))
        <4>1. \/ r \in R
              \/ Open(entry[r]) /\ base[r] = Counted(entry[r], Landed(r))
              \/ base[r] = entry[r]
          BY <3>1 DEF CountsTo
        <4>2. entry[r] \in Entry
          BY DEF TypeOK
        <4>3. PICK f : f = Counted(entry[r], Landed(r))
          OBVIOUS
        <4>4. f.occ = entry[r].occ
          <5>1. f = entry[r] \/ \E m, l : f = [entry[r] EXCEPT !.remaining = m, !.lastCounted = l]
            BY <4>3 DEF Counted
          <5>. QED  BY <4>2, <5>1 DEF Entry
        <4>. QED  BY <4>1, <4>3, <4>4
      <3>4. seq' >= seq /\ entry'[r] = IF r \in R THEN FailedEntry ELSE base[r]
        BY <3>2, FailEntry
      <3>5. FailedEntry.occ = 0 /\ ~Open(FailedEntry)
        BY EntryTypes
      <3>. QED  BY <3>3, <3>4, <3>5 DEF OccTo
    <2>4. ASSUME NEW q \in Roots, ItemStep(q) \/ SettleStep(q)
          PROVE  OccTo(entry[r], entry'[r], seq, seq')
      BY <2>4, OccItem, OccSettle
    <2>. QED  BY <1>2, <2>1, <2>2, <2>3, <2>4 DEF WalkStep, FlushStep
  <1>3. CASE Failure
    <2>1. CASE Abort \/ Crash \/ BulkFails \/ BatchFails
      BY <2>1, OccLoop
    <2>2. CASE CheckDriftFails
      BY <1>0, <1>1, <2>2 DEF CheckDriftFails
    <2>3. ASSUME NEW q \in Roots, BeginItemFails(q) \/ StoreEdgesFails(q) \/ DropNilsFails(q)
          PROVE  OccTo(entry[r], entry'[r], seq, seq')
      BY <2>3, OccItem, OccSettle
    <2>. QED  BY <1>3, <2>1, <2>2, <2>3 DEF Failure
  <1>4. CASE \/ Beat \/ Rest
             \/ \E q \in Roots : ChangeRoot(q) \/ LiveBegin(q) \/ LiveEnd(q)
             \/ \E c \in Kids : ChangeKid(c)
    BY <1>0, <1>1, <1>4 DEF Beat, Rest, vars, ChangeRoot, LiveBegin, LiveEnd, ChangeKid
  <1>5. ASSUME NEW y \in Things, Register(y)
        PROVE  OccTo(entry[r], entry'[r], seq, seq')
    <2>. DEFINE parents == {q \in Roots : \E v \in Versions : y \in edges[q][v].kids}
    <2>1. entry' = entry /\ seq' = seq + 1 + Cardinality(parents)
      BY <1>5 DEF Register
    <2>2. parents \in SUBSET Roots
      OBVIOUS
    <2>. HIDE DEF parents
    <2>3. Cardinality(parents) \in Nat
      BY <2>2, MarkFacts
    <2>. QED  BY <1>0, <1>1, <2>1, <2>3
  <1>. QED  BY <1>2, <1>3, <1>4, <1>5 DEF Next

\* What a step does to a document: it keeps it, a live build ends, or the
\* flusher writes it at the number of an open root, as its plan said.
DocTo(r, v) ==
    \/ docs'[r][v] = docs[r][v]
    \/ /\ live'[r] = NoLive /\ live[r].idx > 1
       /\ docs'[r][v] = [ver |-> live[r].idx, body |-> live[r].out[v]]
       /\ docs'[r][v].ver > docs[r][v].ver
    \/ /\ live' = live /\ Open(entry[r]) /\ docs[r][v].ver <= entry[r].occ /\ docs'[r][v].ver = entry[r].occ
       /\ \/ w.pc = "bulk" /\ \E it \in Range(w.chunk) : it.id = r /\ it.v = v /\ docs'[r][v].body = it.body
          \/ w.pc = "nils" /\ ~docs'[r][v].body.found /\ (v \in entry[r].nils \/ Removing(w, r))

\* One write at the number of an open root.
LEMMA DocWritten ==
    ASSUME TypeOK, NEW r \in Roots, NEW v \in Versions, Open(entry[r]), live' = live,
           NEW b, docs'[r][v] = Written(docs[r][v], b, entry[r].occ),
           \/ w.pc = "bulk" /\ \E it \in Range(w.chunk) : it.id = r /\ it.v = v /\ b = it.body
           \/ w.pc = "nils" /\ ~b.found /\ (v \in entry[r].nils \/ Removing(w, r))
    PROVE  DocTo(r, v)
  <1>1. docs[r][v].ver \in Nat /\ entry[r].occ \in Nat
    BY RootTypes DEF Versions
  <1>2. CASE docs[r][v].ver <= entry[r].occ
    <2>1. docs'[r][v] = [ver |-> entry[r].occ, body |-> b]
      BY <1>2 DEF Written
    <2>2. docs'[r][v].ver = entry[r].occ /\ docs'[r][v].body = b
      BY <2>1
    <2>. QED  BY <1>2, <2>2 DEF DocTo
  <1>3. CASE ~(docs[r][v].ver <= entry[r].occ)
    BY <1>3 DEF Written, DocTo
  <1>. QED  BY <1>2, <1>3

\* What every step does to the documents.
LEMMA DocStep ==
    ASSUME TypeOK, TypeNext, WalkInv, RootInv, DrawnInv, Next, NEW r \in Roots, NEW v \in Versions
    PROVE  DocTo(r, v)
  <1>0. RootOK(used.setup, w, entry[r], docs[r], r) /\ Placed(used.setup, w) /\ Versions = used.setup.versions
    BY DEF RootInv, WalkInv, WalkOK, Versions
  <1>1. CASE docs' = docs
    BY <1>1 DEF DocTo
  <1>2. ASSUME NEW keys \in SUBSET ChunkKeys, docs' = Upserted(keys), w.pc = "bulk", live' = live
        PROVE  DocTo(r, v)
    <2>1. CASE <<r, v>> \in keys
      <3>1. PICK it \in Range(w.chunk) : it.id = r /\ it.v = v /\ docs'[r][v] = Written(docs[r][v], it.body, entry[r].occ)
        BY <1>2, <2>1, UpsertFacts
      <3>2. r \in w.ids
        BY <1>0, <1>2, <3>1, IdFacts DEF Placed, Waiting
      <3>3. Open(entry[r])
        BY <1>0, <1>2, <3>2 DEF RootOK, Handled
      <3>. QED  BY <1>2, <3>1, <3>3, DocWritten
    <2>2. CASE <<r, v>> \notin keys
      <3>1. docs'[r][v] = docs[r][v]
        BY <1>2, <2>2, UpsertFacts
      <3>. QED  BY <3>1 DEF DocTo
    <2>. QED  BY <2>1, <2>2
  <1>3. ASSUME NEW q \in Roots, NEW vs \in SUBSET Dropped(q), docs' = Deleted(q, vs), w.pc = "nils",
               q \in w.todo, live' = live
        PROVE  DocTo(r, v)
    <2>0. vs \in SUBSET Versions
      <3>1. entry[q].nils \in SUBSET Versions
        BY <1>0, RootTypes
      <3>. QED  BY <3>1 DEF Dropped
    <2>1. CASE q = r /\ v \in vs
      <3>1. docs'[r][v] = Written(docs[r][v], NoBody, entry[r].occ)
        BY <1>3, <2>0, <2>1, DeletedFacts
      <3>2. Open(entry[r]) /\ r \in w.ids
        BY <1>0, <1>3, <2>1 DEF RootOK, Handled
      <3>3. v \in entry[r].nils \/ Removing(w, r)
        BY <2>1, <3>2 DEF Dropped, Removing
      <3>4. ~NoBody.found
        BY DEF NoBody
      <3>. QED  BY <1>3, <3>1, <3>2, <3>3, <3>4, DocWritten
    <2>2. CASE ~(q = r /\ v \in vs)
      <3>1. docs'[r][v] = docs[r][v]
        BY <1>3, <2>0, <2>2, DeletedFacts
      <3>. QED  BY <3>1 DEF DocTo
    <2>. QED  BY <2>1, <2>2
  <1>4. CASE LoopStep
    BY <1>1, <1>4 DEF LoopStep, StartAttempt, Execute, FlushBeforePlan, FetchPage, TakePage, PageConsumed,
                      EndPlan, BeginBatch, AskPlans, BatchDone, EndBatches, Finish
  <1>5. CASE BulkUpsert
    <2>1. PICK keys \in SUBSET ChunkKeys : docs' = Upserted(keys)
      BY <1>5 DEF BulkUpsert
    <2>. QED  BY <1>2, <1>5, <2>1 DEF BulkUpsert
  <1>6. CASE CountDocs \/ CheckDrift \/ Narrow \/ FlusherReturns \/ CheckDriftFails
    <2>1. docs' = docs
      BY <1>6, Zenon DEF CountDocs, CheckDrift, Narrow, FlusherReturns, CheckDriftFails
    <2>. QED  BY <1>1, <2>1
  <1>7. ASSUME NEW q \in Roots, ItemStep(q) \/ BeginItemFails(q)
        PROVE  DocTo(r, v)
    <2>1. docs' = docs
      BY <1>7, Zenon DEF ItemStep, BeginItem, BeginItemFails, AddDoc, SkipItem, Contradiction, CountNil
    <2>. QED  BY <1>1, <2>1
  <1>8. ASSUME NEW q \in Roots, SettleStep(q) \/ StoreEdgesFails(q) \/ DropNilsFails(q)
        PROVE  DocTo(r, v)
    <2>1. CASE DropNils(q) \/ DropNilsFails(q)
      <3>1. PICK vs \in SUBSET Dropped(q) : docs' = Deleted(q, vs)
        BY <2>1 DEF DropNils, DropNilsFails
      <3>. QED  BY <1>3, <2>1, <3>1 DEF DropNils, DropNilsFails
    <2>2. CASE ~(DropNils(q) \/ DropNilsFails(q))
      <3>1. docs' = docs
        BY <1>8, <2>2, Zenon DEF SettleStep, StoreEdges, StoreEdgesFails, LeaveGone, Remark, Complete,
                                 FailPartial, RemoveRow
      <3>. QED  BY <1>1, <3>1
    <2>. QED  BY <2>1, <2>2
  <1>9. CASE Abort \/ Crash \/ BatchFails
    BY <1>1, <1>9 DEF Abort, Crash, BatchFails
  <1>10. CASE BulkFails
    <2>1. PICK keys \in SUBSET ChunkKeys : docs' = Upserted(keys)
      BY <1>10 DEF BulkFails
    <2>. QED  BY <1>2, <1>10, <2>1 DEF BulkFails
  <1>11. CASE \/ Beat \/ Rest
              \/ \E q \in Roots : ChangeRoot(q) \/ LiveBegin(q)
              \/ \E c \in Kids : ChangeKid(c)
              \/ \E y \in Things : Register(y)
    BY <1>1, <1>11 DEF Beat, Rest, vars, ChangeRoot, LiveBegin, ChangeKid, Register
  <1>12. ASSUME NEW q \in Roots, LiveEnd(q)
         PROVE  DocTo(r, v)
    <2>1. CASE docs'[r][v] = docs[r][v]
      BY <2>1 DEF DocTo
    <2>2. CASE docs'[r][v] # docs[r][v]
      <3>1. r = q
        BY <1>12, <2>2, LiveDocs
      <3>2. /\ docs'[r][v].ver >= docs[r][v].ver /\ docs'[r][v].ver # docs[r][v].ver
            /\ docs'[r][v] = [ver |-> live[r].idx, body |-> live[r].out[v]] /\ live[r].idx > 1
        BY <1>0, <1>12, <2>2, LiveDocs
      <3>3. docs'[r][v].ver \in Nat /\ docs[r][v].ver \in Nat
        <4>1. docs'[r] \in DocsIn(used.setup)
          BY NextDocs
        <4>2. docs'[r][v].ver \in Nat
          BY <1>0, <4>1 DEF DocsIn
        <4>. QED  BY <1>0, <4>2, RootTypes
      <3>4. live'[r] = NoLive
        BY <1>12, <3>1 DEF LiveEnd, TypeOK
      <3>. QED  BY <3>2, <3>3, <3>4 DEF DocTo
    <2>. QED  BY <2>1, <2>2
  <1>. QED  BY <1>4, <1>5, <1>6, <1>7, <1>8, <1>9, <1>10, <1>11, <1>12
            DEF Next, WalkStep, FlushStep, Failure

\* What a step does to a root's live build: it keeps it, ends it, or begins one
\* at the number just drawn.
LiveTo(r) ==
    \/ live'[r] = live[r]
    \/ live'[r] = NoLive /\ \E q \in Roots : LiveEnd(q)
    \/ /\ entry' = entry /\ docs' = docs /\ seq' = seq + 1 /\ live'[r].idx = seq + 1
       /\ \A v \in Versions : live'[r].out[v] = Truth(r, v)

\* Only live builds change what is being built live.
LEMMA LiveStep ==
    ASSUME TypeOK, Next, NEW r \in Roots
    PROVE  LiveTo(r)
  <1>1. CASE live' = live
    BY <1>1 DEF LiveTo
  <1>2. CASE LoopStep
    BY <1>1, <1>2 DEF LoopStep, StartAttempt, Execute, FlushBeforePlan, FetchPage, TakePage, PageConsumed,
                      EndPlan, BeginBatch, AskPlans, BatchDone, EndBatches, Finish
  <1>3. CASE FlushStep \/ CheckDriftFails
    <2>1. live' = live
      BY <1>3, Zenon DEF FlushStep, BulkUpsert, CountDocs, CheckDrift, Narrow, FlusherReturns, CheckDriftFails
    <2>. QED  BY <1>1, <2>1
  <1>4. ASSUME NEW q \in Roots, ItemStep(q) \/ BeginItemFails(q)
        PROVE  LiveTo(r)
    <2>1. live' = live
      BY <1>4, Zenon DEF ItemStep, BeginItem, BeginItemFails, AddDoc, SkipItem, Contradiction, CountNil
    <2>. QED  BY <1>1, <2>1
  <1>5. ASSUME NEW q \in Roots, SettleStep(q) \/ StoreEdgesFails(q) \/ DropNilsFails(q)
        PROVE  LiveTo(r)
    <2>1. live' = live
      BY <1>5, Zenon DEF SettleStep, StoreEdges, StoreEdgesFails, DropNils, DropNilsFails, LeaveGone, Remark,
                         Complete, FailPartial, RemoveRow
    <2>. QED  BY <1>1, <2>1
  <1>6. CASE Abort \/ Crash \/ BatchFails \/ BulkFails
    BY <1>1, <1>6 DEF Abort, Crash, BatchFails, BulkFails
  <1>7. CASE \/ Beat \/ Rest \/ \E q \in Roots : ChangeRoot(q)
             \/ \E c \in Kids : ChangeKid(c)
             \/ \E y \in Things : Register(y)
    BY <1>1, <1>7 DEF Beat, Rest, vars, ChangeRoot, ChangeKid, Register
  <1>8. ASSUME NEW q \in Roots, LiveBegin(q)
        PROVE  LiveTo(r)
    <2>. DEFINE l == [idx |-> seq + 1, mark |-> rows[q].mark, out |-> [v \in Versions |-> Truth(q, v)]]
    <2>1. live' = [live EXCEPT ![q] = l] /\ entry' = entry /\ docs' = docs /\ seq' = seq + 1
      BY <1>8 DEF LiveBegin
    <2>2. l.idx = seq + 1 /\ \A v \in Versions : l.out[v] = Truth(q, v)
      OBVIOUS
    <2>. HIDE DEF l
    <2>3. live'[r] = IF r = q THEN l ELSE live[r]
      BY <2>1 DEF TypeOK
    <2>. QED  BY <2>1, <2>2, <2>3 DEF LiveTo
  <1>9. ASSUME NEW q \in Roots, LiveEnd(q)
        PROVE  LiveTo(r)
    <2>1. live' = [live EXCEPT ![q] = NoLive]
      BY <1>9 DEF LiveEnd
    <2>. QED  BY <1>9, <2>1 DEF LiveTo, TypeOK
  <1>. QED  BY <1>2, <1>3, <1>4, <1>5, <1>6, <1>7, <1>8, <1>9 DEF Next, WalkStep, Failure

\* Every step keeps the numbers apart.
LEMMA DrawnStep ==
    ASSUME TypeOK, TypeNext, WalkInv, RootInv, DrawnInv, Next
    PROVE  DrawnInv'
  <1>0. /\ seq \in Nat /\ seq' \in Nat /\ used'.setup = used.setup /\ Roots' = Roots
        /\ Versions = used.setup.versions /\ NoLive = NoLiveIn(used.setup)
    BY DEF TypeOK, TypeNext, DrawnInv, Roots, Versions, NoLive, NoLiveIn
  <1>1. ASSUME NEW r \in Roots
        PROVE  Drawn(used.setup, entry'[r], docs'[r], live'[r], seq')
    <2>1. PICK s, e, d, l, n, e2, d2, l2, m :
             /\ s = used.setup /\ e = entry[r] /\ d = docs[r] /\ l = live[r] /\ n = seq
             /\ e2 = entry'[r] /\ d2 = docs'[r] /\ l2 = live'[r] /\ m = seq'
      OBVIOUS
    <2>2. /\ e.occ \in Nat /\ e2.occ \in Nat /\ l.idx \in Nat /\ l2.idx \in Nat
          /\ \A v \in s.versions : d[v].ver \in Nat /\ d2[v].ver \in Nat
      <3>1. e2 \in EntryIn(s) /\ d2 \in DocsIn(s) /\ e.occ \in Nat /\ \A v \in s.versions : d[v].ver \in Nat
        BY <2>1, NextDocs, RootTypes
      <3>2. e2.occ \in Nat
        BY <3>1 DEF EntryIn
      <3>3. \A v \in s.versions : d2[v].ver \in Nat
        BY <3>1 DEF DocsIn
      <3>4. live[r] \in Live /\ live'[r] \in Live
        BY DEF TypeOK, TypeNext
      <3>5. l.idx \in Nat /\ l2.idx \in Nat
        BY <2>1, <3>4 DEF Live
      <3>. QED  BY <3>1, <3>2, <3>3, <3>5
    <2>3. Drawn(s, e, d, l, n) /\ NoLive = NoLiveIn(s)
      BY <1>0, <2>1 DEF DrawnInv
    <2>4. OccTo(e, e2, n, m)
      BY <2>1, OccStep
    <2>5. LiveTo(r)
      BY LiveStep
    <2>6. ASSUME NEW v \in s.versions
          PROVE  DocTo(r, v)
      BY <1>0, <2>1, <2>6, DocStep
    <2>7. NoLive.idx = 0 /\ n \in Nat /\ m \in Nat /\ n >= 1
      BY <1>0, <2>1, <2>3 DEF NoLive, Drawn
    <2>8. m >= n /\ e2.occ <= m /\ (Open(e2) => e2.occ > 1)
      BY <2>2, <2>3, <2>4, <2>7 DEF OccTo, Drawn
    <2>9. l2 = NoLive \/ (l2.idx > 1 /\ l2.idx # e2.occ)
      <3>1. CASE l2 = l
        BY <2>2, <2>3, <2>4, <2>7, <3>1 DEF OccTo, Drawn
      <3>2. CASE l2.idx = n + 1 /\ e2 = e
        BY <2>2, <2>3, <2>7, <3>2 DEF Drawn
      <3>. QED  BY <2>1, <2>5, <3>1, <3>2 DEF LiveTo
    <2>10. l2.idx <= m
      <3>1. CASE l2 = l
        BY <2>2, <2>3, <2>7, <2>8, <3>1 DEF Drawn
      <3>2. CASE l2.idx = n + 1 /\ m = n + 1
        BY <3>2, <2>7
      <3>3. CASE l2 = NoLive
        BY <2>7, <3>3
      <3>. QED  BY <2>1, <2>5, <3>1, <3>2, <3>3 DEF LiveTo
    <2>11. ASSUME NEW v \in s.versions
           PROVE  d2[v].ver >= 1 /\ d2[v].ver <= m /\ (l2 = NoLive \/ d2[v].ver # l2.idx)
      <3>0. d[v].ver >= 1 /\ d[v].ver <= n /\ (l = NoLive \/ d[v].ver # l.idx) /\ e.occ <= n /\ l.idx <= n
            /\ (Open(e) => e.occ > 1) /\ (l = NoLive \/ (l.idx > 1 /\ l.idx # e.occ))
        BY <2>3 DEF Drawn
      <3>1. CASE d2[v] = d[v]
        <4>1. CASE l2 = l \/ l2 = NoLive
          BY <2>2, <2>7, <2>8, <3>0, <3>1, <4>1
        <4>2. CASE l2.idx = n + 1
          BY <2>2, <2>7, <2>8, <3>0, <3>1, <4>2
        <4>. QED  BY <2>1, <2>5, <4>1, <4>2 DEF LiveTo
      <3>2. CASE l2 = NoLive /\ d2[v] = [ver |-> l.idx, body |-> live[r].out[v]] /\ d2[v].ver > d[v].ver
        <4>1. d2[v].ver = l.idx
          BY <3>2
        <4>. QED  BY <2>2, <2>7, <2>8, <3>0, <3>2, <4>1
      <3>3. CASE l2 = l /\ Open(e) /\ d2[v].ver = e.occ
        BY <2>2, <2>7, <2>8, <3>0, <3>3
      <3>. QED  BY <2>1, <2>6, <3>1, <3>2, <3>3 DEF DocTo
    <2>12. Drawn(s, e2, d2, l2, m)
      BY <2>3, <2>7, <2>8, <2>9, <2>10, <2>11 DEF Drawn
    <2>. QED  BY <2>1, <2>8, <2>12
  <1>. QED  BY <1>0, <1>1 DEF DrawnInv

-----------------------------------------------------------------------------
(* What is written is new *)

\* The walk's steps, and those of its failures, leave the source alone.
LEMMA SourceKept ==
    ASSUME WalkStep \/ Failure
    PROVE  UNCHANGED source
  <1>1. CASE LoopStep
    BY <1>1, Zenon DEF LoopStep, StartAttempt, Execute, FlushBeforePlan, FetchPage, TakePage, PageConsumed,
                      EndPlan, BeginBatch, AskPlans, BatchDone, EndBatches, Finish
  <1>2. CASE FlushStep \/ CheckDriftFails
    BY <1>2, Zenon DEF FlushStep, BulkUpsert, CountDocs, CheckDrift, Narrow, FlusherReturns, CheckDriftFails
  <1>3. ASSUME NEW q \in Roots, ItemStep(q) \/ BeginItemFails(q)
        PROVE  UNCHANGED source
    BY <1>3, Zenon DEF ItemStep, BeginItem, BeginItemFails, AddDoc, SkipItem, Contradiction, CountNil
  <1>4. ASSUME NEW q \in Roots, SettleStep(q) \/ StoreEdgesFails(q) \/ DropNilsFails(q)
        PROVE  UNCHANGED source
    BY <1>4, Zenon DEF SettleStep, StoreEdges, StoreEdgesFails, DropNils, DropNilsFails, LeaveGone, Remark,
                       Complete, FailPartial, RemoveRow
  <1>5. CASE Abort \/ Crash \/ BatchFails \/ BulkFails
    BY <1>5, Zenon DEF Abort, Crash, BatchFails, BulkFails
  <1>. QED  BY <1>1, <1>2, <1>3, <1>4, <1>5 DEF WalkStep, Failure

\* Nothing at the source goes back.
LEMMA SrcStep ==
    ASSUME TypeOK, Next, NEW y \in Things, src[y] >= 1
    PROVE  src'[y] >= 1
  <1>1. CASE src' = src
    BY <1>1
  <1>2. CASE WalkStep \/ Failure
    BY <1>1, <1>2, SourceKept DEF source
  <1>3. ASSUME NEW z \in Things, src' = [src EXCEPT ![z] = @ + 1]
        PROVE  src'[y] >= 1
    <2>1. src \in [Things -> Nat] /\ src[y] \in Nat
      BY DEF TypeOK
    <2>2. src'[y] = IF y = z THEN src[z] + 1 ELSE src[y]
      BY <1>3, <2>1
    <2>. QED  BY <2>1, <2>2
  <1>4. CASE \/ \E q \in Roots : ChangeRoot(q)
             \/ \E c \in Kids : ChangeKid(c)
    BY <1>3, <1>4 DEF ChangeRoot, ChangeKid, Things
  <1>5. CASE \/ Beat \/ Rest
             \/ \E q \in Roots : LiveBegin(q) \/ LiveEnd(q)
             \/ \E z \in Things : Register(z)
    BY <1>1, <1>5, Zenon DEF Beat, Rest, vars, source, LiveBegin, LiveEnd, Register
  <1>. QED  BY <1>2, <1>4, <1>5 DEF Next

\* Every step writes what was fetched since the setup.
LEMMA FreshStep ==
    ASSUME TypeOK, TypeNext, WalkInv, RootInv, DrawnInv, FreshInv, Next
    PROVE  FreshInv'
  <1>0. used'.setup = used.setup /\ Roots' = Roots /\ Things' = Things /\ Versions = used.setup.versions
    BY DEF TypeNext, Roots, Things, Kids, Versions
  <1>1. \A y \in Things : src'[y] >= 1
    BY SrcStep DEF FreshInv
  <1>2. ASSUME NEW r \in Roots, NEW v \in Versions
        PROVE  New(live'[r].out[v]) /\ (docs'[r][v].ver > 1 => New(docs'[r][v].body))
    <2>1. New(live[r].out[v]) /\ (docs[r][v].ver > 1 => New(docs[r][v].body))
      BY <1>0 DEF FreshInv, Fresh
    <2>2. New(live'[r].out[v])
      <3>1. CASE live'[r] = live[r]
        BY <2>1, <3>1
      <3>2. CASE live'[r] = NoLive
        <4>1. NoLive.out[v] = NoBody /\ ~NoBody.found
          BY DEF NoLive, NoBody
        <4>. QED  BY <3>2, <4>1 DEF New
      <3>3. CASE live'[r].out[v] = Truth(r, v)
        <4>1. src[r] >= 1
          BY DEF FreshInv, Things
        <4>. QED  BY <3>3, <4>1, TruthFacts DEF New
      <3>. QED  BY <3>1, <3>2, <3>3, LiveStep DEF LiveTo
    <2>3. ASSUME docs'[r][v].ver > 1
          PROVE  New(docs'[r][v].body)
      <3>1. CASE docs'[r][v] = docs[r][v]
        BY <2>1, <2>3, <3>1
      <3>2. CASE docs'[r][v] = [ver |-> live[r].idx, body |-> live[r].out[v]]
        BY <2>1, <3>2
      <3>3. CASE w.pc = "bulk" /\ \E it \in Range(w.chunk) : docs'[r][v].body = it.body
        BY <3>3 DEF WalkInv, WalkOK, AllNew
      <3>4. CASE ~docs'[r][v].body.found
        BY <3>4 DEF New
      <3>5. DocTo(r, v)
        BY DocStep
      <3>. QED  BY <3>1, <3>2, <3>3, <3>4, <3>5 DEF DocTo
    <2>. QED  BY <2>2, <2>3
  <1>. QED  BY <1>0, <1>1, <1>2 DEF FreshInv, Fresh

-----------------------------------------------------------------------------
(* The cursor *)

\* The page loop is where it was.
SameLoop(x, y) ==
    /\ y.left = x.left /\ y.start = x.start /\ y.next = x.next /\ y.inbox = x.inbox /\ y.no = x.no
    /\ y.completed = x.completed /\ At(y) = At(x) /\ y.pc # "idle"
    /\ x.markFailed => y.markFailed

\* fail leaves the loop where its caller does.
LEMMA FailLoop ==
    ASSUME TypeOK, NEW S \in SUBSET Roots, NEW base \in [Roots -> Entry], NEW next \in Walk,
           NEW cost \in Nat, Fail(S, base, next, cost), NEW x, SameLoop(x, next)
    PROVE  SameLoop(x, w')
  <1>1. PICK lost \in SUBSET S, any \in BOOLEAN, mark \in BOOLEAN : FailsTo(S, base, next, lost, any, mark)
    BY FailFacts
  <1>2. PICK y : y = w'
    OBVIOUS
  <1>3. y = Failed(next, S, any, mark) /\ (mark <=> next.markFailed \/ lost # {})
    BY <1>1, <1>2 DEF FailsTo
  <1>4. /\ y.pc = next.pc /\ y.ret = next.ret /\ y.left = next.left /\ y.start = next.start
        /\ y.next = next.next /\ y.inbox = next.inbox /\ y.no = next.no
        /\ y.completed = next.completed /\ y.markFailed = mark
    BY <1>3, FailedFacts
  <1>5. At(y) = At(next)
    BY <1>4 DEF At
  <1>6. SameLoop(x, y)
    BY <1>3, <1>4, <1>5 DEF SameLoop
  <1>. QED  BY <1>2, <1>6

\* Handing the queue to the flusher leaves the loop.
LEMMA FlushLoop ==
    ASSUME NEW x \in Walk, x.pc \in {"plan", "walk", "finish"}, NEW y, y = Flushing(x, x.pc)
    PROVE  SameLoop(x, y)
  <1>1. PICK p \in {"plan", "walk", "finish"} : p = x.pc
    OBVIOUS
  <1>2. y = Flushing(x, p)
    BY <1>1
  <1>3. /\ y.left = x.left /\ y.start = x.start /\ y.next = x.next /\ y.inbox = x.inbox
        /\ y.no = x.no /\ y.completed = x.completed /\ y.markFailed = x.markFailed
        /\ x.pending = <<>> => y.pc = p
        /\ x.pending # <<>> => y.pc = "bulk" /\ y.ret = p
    BY <1>2, FlushingFacts
  <1>4. At(y) = At(x) /\ y.pc # "idle"
    BY <1>1, <1>3 DEF At, Flusher, Applying
  <1>. QED  BY <1>3, <1>4 DEF SameLoop

\* The items' steps leave the loop at its page.
LEMMA ItemLoop ==
    ASSUME TypeOK, TypeNext, WalkInv, RootInv, NEW r \in Roots, ItemStep(r) \/ BeginItemFails(r)
    PROVE  SameLoop(w, w')
  <1>. DEFINE s == used.setup
  <1>1. w.pc = "walk" /\ w.page # <<>>
    BY DEF ItemStep, BeginItem, AddDoc, SkipItem, Contradiction, CountNil, BeginItemFails, AtItem
  <1>2. PICK x \in Walk : x = ItemDone
    BY <1>1, ItemWalk
  <1>3. WalkOK(s, x) /\ x.pc = "walk"
    BY <1>1, <1>2, ItemWalk
  <1>4. entry \in [Roots -> Entry] /\ {r} \in SUBSET Roots /\ 0 \in Nat /\ 1 \in Nat
    BY DEF TypeOK
  <1>5. SameLoop(w, x)
    BY <1>1, <1>2, <1>3, ItemWalk DEF SameLoop, At, Flusher, Applying
  <1>6. CASE BeginItem(r)
    BY <1>1, <1>6 DEF BeginItem, SameLoop
  <1>7. CASE SkipItem(r)
    BY <1>2, <1>5, <1>7 DEF SkipItem
  <1>8. CASE Contradiction(r)
    <2>1. Fail({r}, entry, x, 0)
      BY <1>2, <1>8 DEF Contradiction
    <2>. QED  BY <1>4, <1>5, <2>1, FailLoop
  <1>9. CASE BeginItemFails(r)
    <2>1. Fail({r}, entry, x, 1)
      BY <1>2, <1>9 DEF BeginItemFails
    <2>. QED  BY <1>4, <1>5, <2>1, FailLoop
  <1>10. CASE AddDoc(r)
    <2>1. PICK it \in Item : it = Head(w.page)
      BY <1>1, HeadFacts
    <2>2. it.body.found
      BY <1>10, <2>1 DEF AddDoc
    <2>3. it \in Range(w.page)
      BY <1>1, <2>1, HeadFacts
    <2>4. New(it.body)
      BY <2>3 DEF WalkInv, WalkOK, AllNew
    <2>5. PICK y : y = Queued(x, it)
      OBVIOUS
    <2>6. w' = Flushing(y, "walk") \/ w' = y
      BY <1>2, <1>10, <2>1, <2>5 DEF AddDoc, Queued
    <2>7. /\ y \in Walk /\ y.pc = x.pc /\ y.ret = x.ret /\ y.left = x.left /\ y.start = x.start
          /\ y.next = x.next /\ y.inbox = x.inbox /\ y.no = x.no /\ y.completed = x.completed
          /\ y.markFailed = x.markFailed
      BY <1>3, <2>2, <2>4, <2>5, QueueWalk
    <2>8. SameLoop(w, y)
      BY <1>5, <2>7 DEF SameLoop, At
    <2>9. PICK z : z = Flushing(y, "walk")
      OBVIOUS
    <2>10. SameLoop(y, z)
      BY <1>3, <2>7, <2>9, FlushLoop
    <2>11. SameLoop(w, z)
      BY <2>8, <2>10 DEF SameLoop
    <2>. QED  BY <2>6, <2>8, <2>9, <2>11
  <1>11. CASE CountNil(r)
    <2>. DEFINE e == [entry[r] EXCEPT !.nils = @ \cup {Head(w.page).v}, !.remaining = @ - 1]
                base == [entry EXCEPT ![r] = e]
    <2>1. IF e.remaining = 0 /\ e.partial
          THEN Fail({r}, base, ItemDone, 0)
          ELSE /\ entry' = base
               /\ w' = IF e.remaining > 0 \/ r \in IdsIn(w.pending) THEN ItemDone
                       ELSE [ItemDone EXCEPT !.pc = "nils", !.how = Settling(e), !.ret = "walk",
                                             !.ids = {r}, !.todo = {r}]
      BY <1>11, Zenon DEF CountNil
    <2>2. e \in Entry
      <3>1. WithNil(entry[r], Head(w.page).v) \in EntryIn(used.setup)
        BY <1>11, NilOwed
      <3>. QED  BY <3>1, EntrySets DEF WithNil
    <2>3. base \in [Roots -> Entry]
      BY <1>4, <2>2
    <2>. HIDE DEF base, e
    <2>4. CASE e.remaining = 0 /\ e.partial
      <3>1. Fail({r}, base, x, 0)
        BY <1>2, <2>1, <2>4
      <3>. QED  BY <1>4, <1>5, <2>3, <3>1, FailLoop
    <2>5. CASE ~(e.remaining = 0 /\ e.partial)
      <3>1. PICK how : how = Settling(e)
        OBVIOUS
      <3>2. how \in {"nil", "leave", "remove"}
        BY <3>1 DEF Settling
      <3>3. w' = x \/ w' = Nilled(x, how, r)
        BY <1>2, <2>1, <2>5, <3>1 DEF Nilled
      <3>4. PICK y \in Walk : y = w'
        BY DEF TypeNext
      <3>5. CASE y = Nilled(x, how, r)
        <4>1. /\ y.pc = "nils" /\ y.ret = "walk"
              /\ y.left = x.left /\ y.start = x.start /\ y.next = x.next /\ y.inbox = x.inbox
              /\ y.no = x.no /\ y.completed = x.completed /\ y.markFailed = x.markFailed
          BY <1>3, <3>2, <3>5, NilWalk
        <4>2. At(y) = At(x)
          BY <1>3, <4>1 DEF At, Flusher, Applying
        <4>3. SameLoop(w, y)
          BY <1>5, <4>1, <4>2 DEF SameLoop
        <4>. QED  BY <3>4, <4>3
      <3>. QED  BY <1>5, <3>3, <3>4, <3>5
    <2>. QED  BY <2>4, <2>5
  <1>. QED  BY <1>6, <1>7, <1>8, <1>9, <1>10, <1>11 DEF ItemStep

\* The flusher's steps leave the loop where it waits for them.
LEMMA FlusherLoop ==
    ASSUME TypeOK, TypeNext, WalkInv,
           \/ BulkUpsert \/ CountDocs \/ CheckDrift \/ Narrow \/ CheckDriftFails
           \/ \E r \in Roots : SettleStep(r) \/ StoreEdgesFails(r) \/ DropNilsFails(r)
    PROVE  SameLoop(w, w') /\ w.pc \in Flusher
  <1>0. w \in Walk /\ w' \in Walk /\ entry \in [Roots -> Entry] /\ 0 \in Nat
    BY DEF TypeOK, TypeNext
  <1>1. ASSUME NEW y \in Walk, SameWalk(w, y), w.pc \in Flusher, y.pc \in Flusher
        PROVE  SameLoop(w, y)
    BY <1>1 DEF SameWalk, SameLoop, At, Flusher, Applying
  <1>2. CASE \/ BulkUpsert \/ CheckDrift \/ CheckDriftFails \/ Narrow
             \/ \E r \in Roots : StoreEdges(r) \/ DropNils(r)
    <2>1. SameWalk(w, w') /\ w.pc \in Flusher /\ w'.pc \in Flusher
      BY <1>2, WalkFlusher
    <2>. QED  BY <1>0, <1>1, <2>1
  <1>3. CASE CountDocs
    <2>1. PICK R \in SUBSET Roots, base \in [Roots -> Entry], T \in SUBSET Roots, y \in Walk : CountsTo(R, base, T, y)
      BY <1>3, CountFacts
    <2>2. Fail(R, base, y, 0) /\ SameWalk(w, y) /\ y.pc = "nils" /\ w.pc = "edges"
      BY <1>3, <2>1 DEF CountsTo, CountDocs
    <2>3. w.pc \in Flusher /\ y.pc \in Flusher
      BY <2>2 DEF Flusher, Applying
    <2>4. SameLoop(w, y)
      BY <1>1, <2>2, <2>3
    <2>. QED  BY <1>0, <2>2, <2>3, <2>4, FailLoop
  <1>4. ASSUME NEW r \in Roots,
               \/ StoreEdgesFails(r) \/ DropNilsFails(r) \/ LeaveGone(r) \/ Remark(r)
               \/ Complete(r) \/ FailPartial(r) \/ RemoveRow(r)
        PROVE  SameLoop(w, w') /\ w.pc \in Flusher
    <2>1. w.pc \in Flusher
      BY <1>4 DEF StoreEdgesFails, DropNilsFails, LeaveGone, Remark, Complete, FailPartial, RemoveRow,
                  Completable, Flusher, Applying
    <2>2. PICK y : y = Took(r)
      OBVIOUS
    <2>3. y = [w EXCEPT !.todo = @ \ {r}]
      BY <2>2 DEF Took
    <2>4. y \in Walk /\ SameWalk(w, y) /\ y.pc = w.pc
      BY <1>0, <2>3, TookFacts
    <2>5. SameLoop(w, y)
      BY <1>1, <2>1, <2>4
    <2>6. SameLoop(w, w)
      BY <2>1 DEF SameLoop, Flusher, Applying
    <2>7. \/ w' = w \/ w' = y
          \/ \E cost \in Nat : Fail({r}, entry, w, cost) \/ Fail({r}, entry, y, cost)
      BY <1>4, <2>2 DEF StoreEdgesFails, DropNilsFails, LeaveGone, Remark, Complete, FailPartial, RemoveRow
    <2>8. ASSUME NEW cost \in Nat, Fail({r}, entry, w, cost) \/ Fail({r}, entry, y, cost)
          PROVE  SameLoop(w, w')
      <3>1. {r} \in SUBSET Roots
        OBVIOUS
      <3>. QED  BY <1>0, <2>4, <2>5, <2>6, <2>8, <3>1, FailLoop
    <2>. QED  BY <2>1, <2>5, <2>6, <2>7, <2>8
  <1>. QED  BY <1>2, <1>3, <1>4 DEF SettleStep

\* The cursor's invariant reads the loop's place only.
LEMMA CursorKept ==
    ASSUME NEW s, NEW x, NEW y, NEW j, Cursor(s, x, j), SameLoop(x, y)
    PROVE  Cursor(s, y, j)
  BY DEF Cursor, SameLoop

\* An attempt that ended.
LEMMA CursorIdle ==
    ASSUME NEW s, IsSetup(s), NEW x, NEW j, NEW k, Cursor(s, x, j), k.latest = j.latest, k.recorded = j.recorded,
           k.outcome = "running" => k.attempts < s.attempts
    PROVE  Cursor(s, IdleWalk, k)
  <1>1. IdleWalk.left = {} /\ IdleWalk.completed = 0
    BY DEF IdleWalk
  <1>2. s.pages \in [s.selected -> Seq(Seq(s.roots))]
    BY SetFacts
  <1>3. \A v \in s.selected : Len(s.pages[v]) \in Nat
    BY <1>2
  <1>. QED  BY <1>1, <1>3 DEF Cursor

\* The one plan of a walk that can be resumed.
LEMMA OnePlanFacts ==
    ASSUME TypeOK, OnePlan(used.setup)
    PROVE  /\ ~Targeted /\ Resumable /\ ~KeepSettled /\ Cardinality(Selected) = 1
           /\ \E p \in Selected : Selected = {p}
           /\ \A v \in Selected : Len(Pages[v]) \in Nat /\ Pages[v] = used.setup.pages[v]
  <1>1. IsSetup(used.setup) /\ Selected = used.setup.selected /\ Targeted = Given(used.setup)
    BY StateSets
  <1>2. ~Targeted /\ Cardinality(Selected) = 1
    BY <1>1 DEF OnePlan
  <1>3. IsFiniteSet(Selected) /\ used.setup.pages \in [used.setup.selected -> Seq(Seq(used.setup.roots))]
    BY <1>1, SetFacts
  <1>4. \E p : Selected = {p}
    BY <1>2, <1>3, FS_Singleton
  <1>. QED  BY <1>1, <1>2, <1>3, <1>4 DEF Resumable, KeepSettled, Pages

\* What the loop's steps leave of the flusher and of what failed.
SameHands(x, y) ==
    /\ y.pending = x.pending /\ y.ids = x.ids /\ y.todo = x.todo /\ y.how = x.how /\ y.chunk = x.chunk
    /\ y.markFailed = x.markFailed

\* The start of an attempt.
LEMMA StartWalk ==
    ASSUME TypeOK, StartAttempt
    PROVE  /\ w'.pc = FirstLoop /\ w'.left = Selected /\ w'.next = FirstPage /\ FirstPage \in Nat
           /\ SameHands(IdleWalk, w') /\ w'.start = 0 /\ w'.inbox = <<>> /\ w'.no = 0 /\ w'.page = <<>>
           /\ w'.completed = 0 /\ ~w'.markFailed /\ w'.ids = {} /\ w'.pending = <<>>
           /\ job'.latest = job.recorded /\ job'.recorded = job.recorded /\ job.recorded \in Nat
  <1>1. PICK x \in Walk : x = IdleWalk
    <2>1. IdleWalk \in Walk
      BY DEF IdleWalk, Walk
    <2>. QED  BY <2>1
  <1>2. job \in Job /\ job.recorded \in Nat
    BY DEF TypeOK, Job
  <1>3. PICK f \in Nat : f = FirstPage
    BY <1>2 DEF FirstPage
  <1>4. PICK l : l = FirstLoop
    OBVIOUS
  <1>5. w' = [x EXCEPT !.pc = l, !.left = Selected, !.next = f]
    BY <1>1, <1>3, <1>4 DEF StartAttempt
  <1>6. /\ x.how = "flush" /\ x.ids = {} /\ x.todo = {} /\ x.start = 0 /\ x.inbox = <<>> /\ x.no = 0
        /\ x.page = <<>> /\ x.pending = <<>> /\ x.chunk = <<>> /\ x.completed = 0 /\ ~x.markFailed
    BY <1>1 DEF IdleWalk
  <1>7. /\ w'.pc = l /\ w'.left = Selected /\ w'.next = f /\ w'.how = x.how /\ w'.completed = x.completed
        /\ w'.ids = x.ids /\ w'.todo = x.todo /\ w'.start = x.start /\ w'.inbox = x.inbox /\ w'.no = x.no
        /\ w'.page = x.page /\ w'.pending = x.pending /\ w'.chunk = x.chunk /\ w'.markFailed = x.markFailed
    BY <1>5 DEF Walk
  <1>8. SameHands(x, w')
    BY <1>7 DEF SameHands
  <1>9. job'.latest = job.recorded /\ job'.recorded = job.recorded
    <2>1. PICK n : n = job.attempts + 1
      OBVIOUS
    <2>2. PICK c : c = job.recorded
      OBVIOUS
    <2>3. job' = [job EXCEPT !.attempts = n, !.latest = c]
      BY <2>1, <2>2 DEF StartAttempt
    <2>. QED  BY <1>2, <2>2, <2>3 DEF Job
  <1>. QED  BY <1>1, <1>2, <1>3, <1>4, <1>6, <1>7, <1>8, <1>9

\* The start of a plan.
LEMMA ExecuteWalk ==
    ASSUME TypeOK, Execute
    PROVE  /\ w.pc = "plan" /\ w'.pc = "walk" /\ w'.start # 0 /\ SameHands(w, w')
           /\ w'.left = w.left /\ w'.next = w.next /\ w'.inbox = w.inbox /\ w'.no = w.no /\ w'.page = w.page
           /\ w'.completed = w.completed
  <1>1. PICK n \in Nat : n = seq + 1 /\ n # 0
    BY DEF TypeOK
  <1>2. w' = [w EXCEPT !.pc = "walk", !.start = n] /\ w.pc = "plan" /\ w \in Walk
    BY <1>1 DEF Execute, TypeOK
  <1>. QED  BY <1>1, <1>2 DEF Walk, SameHands

\* A page is fetched.
LEMMA FetchWalk ==
    ASSUME TypeOK, WalkInv, FetchPage
    PROVE  /\ w.start # 0 /\ w.next \in 1 .. Len(Pages[Plan])
           /\ w'.pc = w.pc /\ w'.ret = w.ret /\ w'.start = w.start /\ SameHands(w, w')
           /\ w'.left = w.left /\ w'.next = w.next + 1 /\ w'.no = w.no /\ w'.page = w.page
           /\ w'.completed = w.completed
           /\ \E p \in Page : /\ w'.inbox = Append(w.inbox, p) /\ p.no = w.next
                              /\ \A r \in Range(Pages[Plan][w.next]) : r \in IdsIn(p.items) \/ Plan \notin has[r]
  <1>0. w \in Walk /\ Placed(used.setup, w)
    BY DEF TypeOK, WalkInv, WalkOK
  <1>1. PICK items \in Seq(Item) :
          /\ w.next \in 1 .. Len(Pages[Plan])
          /\ w' = [w EXCEPT !.next = w.next + 1,
                            !.inbox = Append(w.inbox, [no |-> w.next, items |-> items])]
          /\ w' \in Walk /\ [no |-> w.next, items |-> items] \in Page
          /\ \A it \in Range(items) : it.v = Plan /\ it.body = Truth(it.id, Plan)
          /\ \A r \in Range(Pages[Plan][w.next]) : r \in IdsIn(items) \/ Plan \notin has[r]
    BY <1>0, FetchFacts
  <1>2. PICK p \in Page : p = [no |-> w.next, items |-> items]
    BY <1>1
  <1>3. p.no = w.next /\ p.items = items
    BY <1>2
  <1>4. PICK q : q = Append(w.inbox, p)
    OBVIOUS
  <1>5. PICK n : n = w.next + 1
    OBVIOUS
  <1>6. w' = [w EXCEPT !.next = n, !.inbox = q]
    BY <1>1, <1>2, <1>4, <1>5
  <1>7. /\ w'.pc = w.pc /\ w'.ret = w.ret /\ w'.start = w.start /\ SameHands(w, w')
        /\ w'.left = w.left /\ w'.next = n /\ w'.no = w.no /\ w'.page = w.page
        /\ w'.completed = w.completed /\ w'.inbox = q
    BY <1>0, <1>6 DEF Walk, SameHands
  <1>8. w.start # 0
    BY DEF FetchPage
  <1>. QED  BY <1>1, <1>3, <1>4, <1>5, <1>7, <1>8

\* A page is taken.
LEMMA TakeWalk ==
    ASSUME TypeOK, TakePage
    PROVE  /\ w.pc = "walk" /\ w'.pc = "walk" /\ w.no = 0 /\ w.inbox # <<>> /\ w'.start = w.start /\ SameHands(w, w')
           /\ w'.left = w.left /\ w'.next = w.next /\ w'.completed = w.completed
           /\ w'.inbox = Tail(w.inbox) /\ w'.no = Head(w.inbox).no /\ w'.page = Head(w.inbox).items
  <1>1. PICK q : q = Tail(w.inbox)
    OBVIOUS
  <1>2. PICK p : p = Head(w.inbox)
    OBVIOUS
  <1>3. w' = [w EXCEPT !.no = p.no, !.page = p.items, !.inbox = q] /\ w \in Walk
    BY <1>1, <1>2 DEF TakePage, TypeOK
  <1>4. w.pc = "walk" /\ w.no = 0 /\ w.inbox # <<>>
    BY DEF TakePage
  <1>. QED  BY <1>1, <1>2, <1>3, <1>4 DEF Walk, SameHands

\* A page is consumed, and a paced walk then flushes.
LEMMA ConsumeWalk ==
    ASSUME TypeOK, PageConsumed
    PROVE  \E y \in Walk :
              /\ w' = Flushing(y, "walk") \/ w' = y
              /\ w.pc = "walk" /\ y.pc = "walk" /\ w.no # 0 /\ w.page = <<>> /\ y.no = 0 /\ y.page = <<>>
              /\ y.start = w.start /\ SameHands(w, y) /\ y.left = w.left /\ y.next = w.next /\ y.inbox = w.inbox
              /\ y.completed = w.completed \/ (Resumable /\ y.completed = w.no)
  <1>1. PICK c : c = IF Resumable /\ ~LastPage(w.no) THEN w.no ELSE w.completed
    OBVIOUS
  <1>2. w \in Walk /\ c \in Nat
    BY <1>1, WalkFacts DEF TypeOK
  <1>3. PICK y : y = [w EXCEPT !.no = 0, !.completed = c]
    OBVIOUS
  <1>4. w' = Flushing(y, "walk") \/ w' = y
    BY <1>1, <1>3 DEF PageConsumed
  <1>5. w.pc = "walk" /\ w.no # 0 /\ w.page = <<>>
    BY DEF PageConsumed
  <1>6. /\ y \in Walk /\ y.pc = w.pc /\ y.no = 0 /\ y.page = w.page /\ y.start = w.start /\ SameHands(w, y)
        /\ y.left = w.left /\ y.next = w.next /\ y.inbox = w.inbox /\ y.completed = c
    BY <1>2, <1>3 DEF Walk, SameHands
  <1>. QED  BY <1>1, <1>4, <1>5, <1>6

\* A plan ends.
LEMMA EndWalk ==
    ASSUME TypeOK, EndPlan
    PROVE  /\ w.pc = "walk" /\ w.no = 0 /\ w.inbox = <<>> /\ w'.left = w.left \ {Plan}
           /\ w'.pc = IF w'.left = {} THEN "finish" ELSE "plan"
           /\ w'.start = 0 /\ w'.next = 1 /\ SameHands(w, w') /\ w'.no = w.no /\ w'.inbox = w.inbox
           /\ w'.page = w.page /\ w'.completed = w.completed
  <1>1. PICK L : L = w.left \ {Plan}
    OBVIOUS
  <1>2. PICK pc : pc = IF L = {} THEN "finish" ELSE "plan"
    OBVIOUS
  <1>3. w' = [w EXCEPT !.pc = pc, !.left = L, !.start = 0, !.next = 1] /\ w \in Walk
    BY <1>1, <1>2 DEF EndPlan, TypeOK
  <1>4. w.pc = "walk" /\ w.no = 0 /\ w.inbox = <<>>
    BY DEF EndPlan
  <1>5. /\ w'.pc = pc /\ w'.left = L /\ w'.start = 0 /\ w'.next = 1 /\ SameHands(w, w') /\ w'.no = w.no
        /\ w'.inbox = w.inbox /\ w'.page = w.page /\ w'.completed = w.completed
    BY <1>3 DEF Walk, SameHands
  <1>. QED  BY <1>1, <1>2, <1>4, <1>5

\* The flusher returns.
LEMMA ReturnWalk ==
    ASSUME TypeOK, FlusherReturns
    PROVE  /\ w.pc \in Applying /\ w.todo = {} /\ w'.pc = w.ret /\ At(w') = At(w) /\ w'.ids = {}
           /\ w'.left = w.left /\ w'.start = w.start /\ w'.next = w.next /\ w'.inbox = w.inbox /\ w'.no = w.no
           /\ w'.completed = w.completed /\ w'.page = w.page /\ w'.pending = w.pending
           /\ w'.markFailed = w.markFailed /\ w'.pc # "idle"
  <1>0. w \in Walk /\ w.ret \in {"plan", "walk", "finish"}
    BY WalkFacts DEF TypeOK
  <1>1. PICK p : p = w.ret
    OBVIOUS
  <1>2. w.pc \in Applying /\ w.todo = {}
    BY DEF FlusherReturns, Applying
  <1>3. w' = [w EXCEPT !.pc = p, !.how = "flush", !.ret = "walk", !.ids = {}, !.chunk = <<>>, !.hit = FALSE]
    BY <1>1 DEF FlusherReturns
  <1>4. /\ w'.pc = p /\ w'.ids = {}
        /\ w'.left = w.left /\ w'.start = w.start /\ w'.next = w.next /\ w'.inbox = w.inbox /\ w'.no = w.no
        /\ w'.completed = w.completed /\ w'.page = w.page /\ w'.pending = w.pending
        /\ w'.markFailed = w.markFailed
    BY <1>0, <1>3 DEF Walk
  <1>5. At(w') = At(w) /\ w'.pc # "idle"
    BY <1>0, <1>1, <1>2, <1>4 DEF At, Flusher, Applying
  <1>. QED  BY <1>1, <1>2, <1>4, <1>5

\* The pages of the loop.
LEMMA CursorPages ==
    ASSUME TypeOK, TypeNext, WalkInv, CursorInv,
           Execute \/ FlushBeforePlan \/ FetchPage \/ TakePage \/ PageConsumed \/ EndPlan
    PROVE  Cursor(used.setup, w', job)
  <1>. DEFINE s == used.setup
  <1>0. /\ w \in Walk /\ w' \in Walk /\ job \in Job /\ Cursor(s, w, job) /\ Placed(s, w) /\ Paged(s, w)
        /\ Selected = s.selected /\ Targeted = Given(s)
    BY StateSets DEF TypeOK, TypeNext, CursorInv, WalkInv, WalkOK
  <1>1. /\ w.next \in Nat /\ w.no \in Nat /\ w.completed \in Nat /\ w.inbox \in Seq(Page)
        /\ job.latest \in Nat /\ job.recorded \in Nat
    BY <1>0, WalkFacts DEF Job
  <1>2. \A p \in Page : p.no \in Nat
    BY DEF Page
  <1>3. \A i \in DOMAIN w.inbox : w.inbox[i] \in Page /\ w.inbox[i].no \in Nat
    BY <1>1, <1>2
  <1>4. CASE Execute
    <2>1. /\ w.pc = "plan" /\ w'.pc = "walk" /\ w'.left = w.left /\ w'.next = w.next
          /\ w'.inbox = w.inbox /\ w'.no = w.no /\ w'.completed = w.completed
      BY <1>4, ExecuteWalk
    <2>2. At(w') # "plan"
      BY <2>1 DEF At, Flusher, Applying
    <2>. QED  BY <1>0, <2>1, <2>2 DEF Cursor
  <1>5. CASE FlushBeforePlan
    <2>1. w' = Flushing(w, "plan") /\ w.pc = "plan"
      BY <1>5 DEF FlushBeforePlan
    <2>2. SameLoop(w, w')
      BY <1>0, <2>1, FlushLoop
    <2>. QED  BY <1>0, <2>2, CursorKept
  <1>6. CASE FetchPage
    <2>1. PICK p \in Page : w'.inbox = Append(w.inbox, p) /\ p.no = w.next
      BY <1>6, FetchWalk
    <2>2. /\ w.start # 0 /\ w.next \in 1 .. Len(Pages[Plan]) /\ w'.pc = w.pc /\ w'.ret = w.ret /\ w'.left = w.left
          /\ w'.next = w.next + 1 /\ w'.no = w.no /\ w'.completed = w.completed
      BY <1>6, FetchWalk
    <2>3. At(w) = "walk" /\ w.left # {} /\ Plan \in Selected
      BY <1>0, <2>2, PlanFacts
    <2>4. At(w') = "walk" /\ w'.pc # "idle"
      BY <2>2, <2>3 DEF At, Flusher, Applying
    <2>5. CASE ~OnePlan(s)
      BY <1>0, <2>2, <2>4, <2>5 DEF Cursor
    <2>6. CASE OnePlan(s)
      <3>1. /\ w.left = s.selected /\ job.latest < w.next /\ w.completed < w.next
            /\ w.no # 0 => job.latest < w.no /\ w.completed < w.no /\ w.no < w.next
            /\ \A i \in DOMAIN w.inbox :
                  /\ job.latest < w.inbox[i].no /\ w.completed < w.inbox[i].no
                  /\ w.no < w.inbox[i].no /\ w.inbox[i].no < w.next
            /\ \A i, k \in DOMAIN w.inbox : i < k => w.inbox[i].no < w.inbox[k].no
            /\ w.completed # 0 => job.latest <= w.completed
            /\ \A v \in s.selected : job.latest <= Len(s.pages[v]) /\ w.completed <= Len(s.pages[v])
            /\ job.recorded <= job.latest
        BY <1>0, <2>3, <2>6 DEF Cursor
      <3>2. \A v \in s.selected : v = Plan
        BY <1>0, <2>3, <2>6, OnePlanFacts
      <3>3. Len(s.pages[Plan]) \in Nat /\ Pages[Plan] = s.pages[Plan]
        BY <1>0, <2>3, <2>6, OnePlanFacts
      <3>4. \A v \in s.selected : w.next + 1 <= Len(s.pages[v]) + 1
        BY <1>1, <2>2, <3>2, <3>3
      <3>5. PICK q : q = Append(w.inbox, p)
        OBVIOUS
      <3>6. PICK m \in Nat : m = Len(w.inbox)
        BY <1>1
      <3>7. /\ DOMAIN w.inbox = 1 .. m /\ DOMAIN q = 1 .. m + 1
            /\ \A i \in 1 .. m : q[i] = w.inbox[i]
            /\ q[m + 1] = p
        BY <1>1, <3>5, <3>6, AppendFacts
      <3>8. ASSUME NEW i \in DOMAIN q
            PROVE  /\ job.latest < q[i].no /\ w.completed < q[i].no /\ w.no < q[i].no /\ q[i].no < w.next + 1
                   /\ q[i].no \in Nat
        <4>1. CASE i \in 1 .. m
          BY <1>1, <1>3, <3>1, <3>7, <4>1
        <4>2. CASE i = m + 1
          <5>1. w.no < w.next
            BY <1>0, <1>1, <3>1 DEF Placed
          <5>. QED  BY <1>1, <2>1, <3>1, <3>7, <4>2, <5>1
        <4>. QED  BY <3>6, <3>7, <4>1, <4>2
      <3>9. ASSUME NEW i \in DOMAIN q, NEW k \in DOMAIN q, i < k
            PROVE  q[i].no < q[k].no
        <4>1. CASE k \in 1 .. m
          BY <3>1, <3>6, <3>7, <3>9, <4>1
        <4>2. CASE k = m + 1
          BY <2>1, <3>1, <3>6, <3>7, <3>9, <4>2
        <4>. QED  BY <3>6, <3>7, <4>1, <4>2
      <3>10. PICK y : y = w'
        OBVIOUS
      <3>11. /\ y.inbox = q /\ y.left = s.selected /\ y.next = w.next + 1 /\ y.no = w.no
             /\ y.completed = w.completed /\ At(y) = "walk" /\ y.pc # "idle"
        BY <2>1, <2>2, <2>4, <3>1, <3>5, <3>10
      <3>12. /\ job.latest < w.next + 1 /\ w.completed < w.next + 1
             /\ w.no # 0 => job.latest < w.no /\ w.completed < w.no /\ w.no < w.next + 1
        BY <1>1, <3>1
      <3>13. Cursor(s, y, job)
        BY <2>6, <3>1, <3>4, <3>8, <3>9, <3>11, <3>12 DEF Cursor
      <3>. QED  BY <3>10, <3>13
    <2>. QED  BY <2>5, <2>6
  <1>7. CASE TakePage
    <2>1. /\ w'.pc = "walk" /\ w.no = 0 /\ w.inbox # <<>> /\ w'.left = w.left /\ w'.next = w.next
          /\ w'.completed = w.completed
          /\ w'.inbox = Tail(w.inbox) /\ w'.no = Head(w.inbox).no
      BY <1>7, TakeWalk
    <2>2. At(w') = "walk"
      BY <2>1 DEF At, Flusher, Applying
    <2>3. CASE ~OnePlan(s) \/ w.left = {}
      BY <1>0, <2>1, <2>2, <2>3 DEF Cursor
    <2>4. CASE OnePlan(s) /\ w.left # {}
      <3>1. /\ w.left = s.selected /\ job.latest < w.next /\ w.completed < w.next
            /\ \A i \in DOMAIN w.inbox :
                  /\ job.latest < w.inbox[i].no /\ w.completed < w.inbox[i].no /\ w.inbox[i].no < w.next
            /\ \A i, k \in DOMAIN w.inbox : i < k => w.inbox[i].no < w.inbox[k].no
            /\ w.completed # 0 => job.latest <= w.completed
            /\ \A v \in s.selected : /\ job.latest <= Len(s.pages[v]) /\ w.completed <= Len(s.pages[v])
                                     /\ w.next <= Len(s.pages[v]) + 1
            /\ job.recorded <= job.latest
        BY <1>0, <2>4 DEF Cursor
      <3>2. PICK q : q = Tail(w.inbox)
        OBVIOUS
      <3>3. PICK m \in Nat \ {0} : m = Len(w.inbox)
        BY <1>1, <2>1, TailFacts
      <3>4. /\ DOMAIN w.inbox = 1 .. m /\ DOMAIN q = 1 .. m - 1 /\ Head(w.inbox) = w.inbox[1]
            /\ \A i \in DOMAIN q : q[i] = w.inbox[i + 1]
        BY <1>1, <2>1, <3>2, <3>3, TailFacts
      <3>5. PICK y : y = w'
        OBVIOUS
      <3>6. /\ y.inbox = q /\ y.left = w.left /\ y.next = w.next /\ y.no = w.inbox[1].no
            /\ y.completed = w.completed /\ At(y) = "walk" /\ y.pc # "idle"
        BY <2>1, <2>2, <3>2, <3>4, <3>5
      <3>7. 1 \in DOMAIN w.inbox
        BY <3>3, <3>4
      <3>8. ASSUME NEW i \in DOMAIN q
            PROVE  /\ i + 1 \in DOMAIN w.inbox /\ job.latest < q[i].no /\ w.completed < q[i].no
                   /\ w.inbox[1].no < q[i].no /\ q[i].no < w.next
        <4>1. i + 1 \in DOMAIN w.inbox /\ 1 < i + 1
          BY <3>3, <3>4
        <4>. QED  BY <3>1, <3>4, <3>7, <4>1
      <3>9. ASSUME NEW i \in DOMAIN q, NEW k \in DOMAIN q, i < k
            PROVE  q[i].no < q[k].no
        <4>1. i + 1 \in DOMAIN w.inbox /\ k + 1 \in DOMAIN w.inbox /\ i + 1 < k + 1
          BY <3>3, <3>4, <3>9
        <4>. QED  BY <3>1, <3>4, <4>1
      <3>10. Cursor(s, y, job)
        BY <2>4, <3>1, <3>6, <3>7, <3>8, <3>9 DEF Cursor
      <3>. QED  BY <3>5, <3>10
    <2>. QED  BY <2>3, <2>4
  <1>8. CASE PageConsumed
    <2>1. PICK y \in Walk :
             /\ w' = Flushing(y, "walk") \/ w' = y
             /\ w.pc = "walk" /\ y.pc = "walk" /\ w.no # 0 /\ w.page = <<>> /\ y.no = 0 /\ y.page = <<>>
             /\ y.start = w.start /\ SameHands(w, y) /\ y.left = w.left /\ y.next = w.next /\ y.inbox = w.inbox
             /\ y.completed = w.completed \/ (Resumable /\ y.completed = w.no)
      BY <1>8, ConsumeWalk
    <2>2. At(y) = "walk" /\ At(w) = "walk"
      BY <2>1 DEF At, Flusher, Applying
    <2>3. Cursor(s, y, job)
      <3>1. CASE ~OnePlan(s)
        <4>1. ~Resumable
          BY <1>0, <3>1 DEF Resumable, OnePlan
        <4>. QED  BY <1>0, <2>1, <2>2, <3>1, <4>1 DEF Cursor
      <3>2. CASE OnePlan(s)
        <4>1. w.left # {}
          BY <1>0, <2>2, <3>2 DEF Placed, OnePlan
        <4>2. /\ w.left = s.selected /\ job.latest < w.next /\ w.completed < w.next
              /\ job.latest < w.no /\ w.completed < w.no /\ w.no < w.next
              /\ \A i \in DOMAIN w.inbox :
                    /\ job.latest < w.inbox[i].no /\ w.completed < w.inbox[i].no
                    /\ w.no < w.inbox[i].no /\ w.inbox[i].no < w.next
              /\ \A i, k \in DOMAIN w.inbox : i < k => w.inbox[i].no < w.inbox[k].no
              /\ w.completed # 0 => job.latest <= w.completed
              /\ \A v \in s.selected : /\ job.latest <= Len(s.pages[v]) /\ w.completed <= Len(s.pages[v])
                                       /\ w.next <= Len(s.pages[v]) + 1
              /\ job.recorded <= job.latest
          BY <1>0, <2>1, <3>2, <4>1 DEF Cursor
        <4>3. \A v \in s.selected : Len(s.pages[v]) \in Nat
          BY <1>0, <3>2, OnePlanFacts
        <4>4. \A v \in s.selected : w.no <= Len(s.pages[v])
          BY <1>1, <4>2, <4>3
        <4>5. \A i \in DOMAIN w.inbox : 0 < w.inbox[i].no
          BY <1>1, <1>3, <4>2
        <4>6. PICK c : c = y.completed
          OBVIOUS
        <4>7. /\ c # 0 => job.latest <= c
              /\ c < w.next /\ (\A v \in s.selected : c <= Len(s.pages[v]))
              /\ \A i \in DOMAIN w.inbox : c < w.inbox[i].no
          <5>1. CASE c = w.completed
            BY <4>2, <5>1
          <5>2. CASE c = w.no
            BY <1>1, <1>3, <4>2, <4>4, <5>2
          <5>. QED  BY <2>1, <4>6, <5>1, <5>2
        <4>. QED  BY <2>1, <2>2, <3>2, <4>2, <4>5, <4>6, <4>7 DEF Cursor
      <3>. QED  BY <3>1, <3>2
    <2>4. PICK z : z = Flushing(y, "walk")
      OBVIOUS
    <2>5. SameLoop(y, z)
      BY <2>1, <2>4, FlushLoop
    <2>6. Cursor(s, z, job)
      BY <2>3, <2>5, CursorKept
    <2>. QED  BY <2>1, <2>3, <2>4, <2>6
  <1>9. CASE EndPlan
    <2>1. /\ w.pc = "walk" /\ w'.left = w.left \ {Plan} /\ w'.pc = IF w'.left = {} THEN "finish" ELSE "plan"
          /\ w'.completed = w.completed /\ ~Given(s)
      BY <1>0, <1>9, EndWalk DEF EndPlan
    <2>2. CASE ~OnePlan(s)
      BY <1>0, <2>1, <2>2 DEF Cursor
    <2>3. CASE OnePlan(s)
      <3>1. w.left # {} /\ At(w) = "walk"
        BY <1>0, <2>1 DEF Placed, At, Flusher, Applying
      <3>2. w.left = Selected
        BY <1>0, <2>3, <3>1 DEF Cursor
      <3>3. PICK p \in Selected : Selected = {p}
        BY <2>3, OnePlanFacts
      <3>4. w.start # 0
        BY <1>0, <2>1, <3>1 DEF Placed
      <3>5. Plan \in w.left
        BY <1>0, <3>4, PlanFacts
      <3>6. w'.left = {}
        BY <2>1, <3>2, <3>3, <3>5
      <3>7. w'.pc # "idle"
        BY <2>1
      <3>. QED  BY <1>0, <2>1, <2>3, <3>6, <3>7 DEF Cursor
    <2>. QED  BY <2>2, <2>3
  <1>. QED  BY <1>4, <1>5, <1>6, <1>7, <1>8, <1>9

\* The starts and the ends of attempts, and the beats.
LEMMA CursorAttempts ==
    ASSUME TypeOK, TypeNext, WalkInv, CursorInv,
           StartAttempt \/ Finish \/ Crash \/ Abort \/ BulkFails \/ Beat
    PROVE  Cursor(used.setup, w', job') /\ job'.recorded >= job.recorded /\ job'.latest >= job.recorded
  <1>. DEFINE s == used.setup
  <1>0. /\ w \in Walk /\ job \in Job /\ Cursor(s, w, job) /\ IsSetup(s) /\ Selected = s.selected
        /\ Targeted = Given(s) /\ MaxAttempts = s.attempts
    BY StateSets DEF TypeOK, CursorInv, MaxAttempts
  <1>1. job.latest \in Nat /\ job.recorded \in Nat /\ job.recorded <= job.latest
    BY <1>0 DEF Job, Cursor
  <1>2. CASE StartAttempt
    <2>1. /\ w'.pc = FirstLoop /\ w'.left = Selected /\ w'.next = FirstPage
          /\ w'.inbox = <<>> /\ w'.no = 0 /\ w'.completed = 0
          /\ job'.latest = job.recorded /\ job'.recorded = job.recorded
      BY <1>2, StartWalk
    <2>2. w'.pc # "idle"
      BY <2>1 DEF FirstLoop
    <2>3. CASE ~OnePlan(s)
      BY <1>1, <2>1, <2>2, <2>3 DEF Cursor
    <2>4. CASE OnePlan(s)
      <3>1. FirstPage = job.recorded + 1
        BY <2>4, OnePlanFacts DEF FirstPage
      <3>2. \A v \in s.selected : Len(s.pages[v]) \in Nat
        BY <1>0, <2>4, OnePlanFacts
      <3>3. \A v \in s.selected : job.latest <= Len(s.pages[v])
        BY <1>0, <2>4 DEF Cursor
      <3>4. PICK y, c : y = w' /\ c = job.recorded
        OBVIOUS
      <3>5. PICK j : j = job'
        OBVIOUS
      <3>6. /\ y.left = s.selected /\ y.next = c + 1 /\ y.inbox = <<>> /\ y.no = 0 /\ y.completed = 0 /\ y.pc # "idle"
            /\ j.latest = c /\ j.recorded = c /\ c \in Nat
        BY <1>0, <1>1, <2>1, <2>2, <3>1, <3>4, <3>5
      <3>7. \A v \in s.selected : c <= Len(s.pages[v]) /\ 0 <= Len(s.pages[v]) /\ c + 1 <= Len(s.pages[v]) + 1
        BY <1>1, <3>2, <3>3, <3>4
      <3>8. DOMAIN <<>> = {}
        OBVIOUS
      <3>9. Cursor(s, y, j)
        BY <2>4, <3>6, <3>7, <3>8 DEF Cursor
      <3>. QED  BY <1>1, <2>1, <3>4, <3>5, <3>9
    <2>. QED  BY <1>1, <2>1, <2>3, <2>4
  <1>3. ASSUME w' = IdleWalk, job'.latest = job.latest, job'.recorded = job.recorded,
               job'.outcome = "running" => job'.attempts < MaxAttempts
        PROVE  Cursor(s, w', job') /\ job'.recorded >= job.recorded /\ job'.latest >= job.recorded
    <2>1. Cursor(s, IdleWalk, job')
      BY <1>0, <1>3, CursorIdle
    <2>. QED  BY <1>1, <1>3, <2>1
  <1>4. CASE Crash \/ Abort \/ BulkFails
    <2>1. Forget /\ Retry
      BY <1>4 DEF Crash, Abort, BulkFails, Salvage
    <2>2. w' = IdleWalk
      BY <2>1 DEF Forget
    <2>. QED  BY <1>3, <2>1, <2>2, RetryTypes
  <1>5. CASE Finish
    <2>1. CASE w.pending # <<>>
      <3>1. w' = Flushing(w, "finish") /\ w.pc = "finish" /\ job' = job
        BY <1>5, <2>1 DEF Finish
      <3>2. SameLoop(w, w')
        BY <1>0, <3>1, FlushLoop
      <3>. QED  BY <1>0, <1>1, <3>1, <3>2, CursorKept
    <2>2. CASE w.pending = <<>>
      <3>1. w' = IdleWalk
        BY <1>5, <2>2 DEF Finish, Forget
      <3>2. CASE Retry
        BY <1>3, <3>1, <3>2, RetryTypes
      <3>3. CASE ~Retry
        <4>1. \E o \in {"marked", "done"} : job' = [job EXCEPT !.outcome = o]
          BY <1>5, <2>2, <3>3 DEF Finish
        <4>2. job'.latest = job.latest /\ job'.recorded = job.recorded /\ job'.outcome # "running"
          BY <1>0, <4>1 DEF Job
        <4>. QED  BY <1>3, <3>1, <4>2
      <3>. QED  BY <3>2, <3>3
    <2>. QED  BY <2>1, <2>2
  <1>6. CASE Beat
    <2>1. PICK c : c = job.latest
      OBVIOUS
    <2>2. job' = [job EXCEPT !.recorded = c] /\ w' = w
      BY <1>6, <2>1 DEF Beat
    <2>3. /\ job'.recorded = c /\ job'.latest = job.latest /\ job'.outcome = job.outcome
          /\ job'.attempts = job.attempts
      BY <1>0, <2>2 DEF Job
    <2>. QED  BY <1>0, <1>1, <2>1, <2>2, <2>3 DEF Cursor
  <1>. QED  BY <1>2, <1>4, <1>5, <1>6

\* The flusher returns with a boundary to checkpoint, or without.
LEMMA CursorReturn ==
    ASSUME TypeOK, TypeNext, WalkInv, CursorInv, FlusherReturns
    PROVE  Cursor(used.setup, w', job') /\ job'.recorded >= job.recorded
  <1>. DEFINE s == used.setup
  <1>0. w \in Walk /\ job \in Job /\ Cursor(s, w, job)
    BY DEF TypeOK, CursorInv
  <1>1. job.latest \in Nat /\ job.recorded \in Nat /\ job.recorded <= job.latest /\ w.completed \in Nat
    BY <1>0, WalkFacts DEF Job, Cursor
  <1>2. SameLoop(w, w')
    BY ReturnWalk DEF SameLoop
  <1>3. CASE ~Checkpoints
    <2>1. job' = job
      BY <1>3 DEF FlusherReturns
    <2>. QED  BY <1>0, <1>1, <1>2, <2>1, CursorKept
  <1>4. CASE Checkpoints
    <2>1. w.completed # 0 /\ ~w.markFailed
      BY <1>4 DEF Checkpoints
    <2>2. OnePlan(s) /\ job.latest <= w.completed
      BY <1>0, <2>1 DEF Cursor
    <2>3. PICK c \in {job.recorded, w.completed} : job' = [job EXCEPT !.latest = w.completed, !.recorded = c]
      BY <1>4 DEF FlusherReturns
    <2>4. /\ job'.latest = w.completed /\ job'.recorded = c /\ job'.outcome = job.outcome
          /\ job'.attempts = job.attempts
      BY <1>0, <2>3 DEF Job
    <2>5. PICK k : k = job'
      OBVIOUS
    <2>6. k.recorded <= k.latest /\ k.recorded >= job.recorded
      BY <1>1, <2>2, <2>3, <2>4, <2>5
    <2>7. w.next \in Nat
      BY <1>0, WalkFacts
    <2>8. At(w) = "plan" /\ w.left # {} => w.next <= w.completed + 1
      BY <1>0, <1>1, <2>2, <2>7 DEF Cursor
    <2>9. Cursor(s, w, k)
      BY <1>0, <1>1, <2>2, <2>4, <2>5, <2>6, <2>8 DEF Cursor
    <2>10. Cursor(s, w', k)
      BY <1>2, <2>9, CursorKept
    <2>. QED  BY <2>5, <2>6, <2>10
  <1>. QED  BY <1>3, <1>4

\* The batch loop keeps no cursor.
LEMMA CursorBatch ==
    ASSUME TypeOK, TypeNext, WalkInv, CursorInv, BeginBatch \/ BatchFails \/ AskPlans \/ BatchDone \/ EndBatches
    PROVE  Cursor(used.setup, w', job') /\ job' = job /\ Given(used.setup)
  <1>. DEFINE s == used.setup
  <1>0. w \in Walk /\ Cursor(s, w, job) /\ Placed(s, w) /\ entry \in [Roots -> Entry]
    BY DEF TypeOK, CursorInv, WalkInv, WalkOK
  <1>1. job' = job
    BY DEF BeginBatch, BatchFails, AskPlans, BatchDone, EndBatches
  <1>2. w.pc \in {"batch", "ask"} \/ Targeted
    BY DEF BeginBatch, BatchFails, AskPlans, BatchDone, EndBatches
  <1>3. Given(s)
    BY <1>0, <1>2, StateSets DEF Placed, At, Flusher, Applying
  <1>4. PICK N : N = NextBatch
    OBVIOUS
  <1>5. N \in Walk /\ N.completed = w.completed /\ N.pc = "batch"
    <2>1. w.next \in Nat
      BY <1>0, WalkFacts
    <2>2. PICK n \in Nat : n = w.next + 1
      BY <2>1
    <2>3. N = [w EXCEPT !.pc = "batch", !.next = n]
      BY <1>4, <2>2 DEF NextBatch
    <2>. QED  BY <1>0, <2>3 DEF Walk
  <1>6. w'.completed = w.completed /\ w'.pc # "idle"
    <2>1. CASE BeginBatch
      <3>1. w' = [w EXCEPT !.pc = "ask"]
        BY <2>1 DEF BeginBatch
      <3>. QED  BY <1>0, <3>1 DEF Walk
    <2>2. CASE EndBatches
      <3>1. w' = [w EXCEPT !.pc = "finish"]
        BY <2>2 DEF EndBatches
      <3>. QED  BY <1>0, <3>1 DEF Walk
    <2>3. CASE BatchDone
      BY <1>4, <1>5, <2>3 DEF BatchDone
    <2>4. ASSUME NEW S \in SUBSET Roots, NEW x \in Walk, x.completed = w.completed, x.pc # "idle",
                 NEW cost \in Nat, Fail(S, entry, x, cost)
          PROVE  w'.completed = w.completed /\ w'.pc # "idle"
      <3>1. PICK lost \in SUBSET S, any \in BOOLEAN, mark \in BOOLEAN : FailsTo(S, entry, x, lost, any, mark)
        BY <1>0, <2>4, FailFacts
      <3>2. PICK y : y = w'
        OBVIOUS
      <3>3. y = Failed(x, S, any, mark)
        BY <3>1, <3>2 DEF FailsTo
      <3>4. y.completed = x.completed /\ y.pc = x.pc
        BY <3>3, FailedFacts
      <3>. QED  BY <2>4, <3>2, <3>4
    <2>5. CASE BatchFails
      <3>1. Batch \in SUBSET Roots /\ 1 \in Nat
        BY <1>0, <2>5, BatchIds DEF BatchFails
      <3>2. Fail(Batch, entry, N, 1)
        BY <1>4, <2>5 DEF BatchFails
      <3>. QED  BY <1>5, <2>4, <3>1, <3>2
    <2>6. CASE AskPlans
      <3>1. PICK errs \in SUBSET Batch :
               Fail(errs, entry, [w EXCEPT !.pc = "walk", !.page = BatchItems(Batch \ errs)], Cardinality(errs))
        BY <2>6 DEF AskPlans, BatchItems
      <3>2. Batch \in SUBSET Roots
        <4>1. w.next <= Len(Batches)
          BY <1>0, <2>6 DEF Placed, At, Flusher, Applying, AskPlans, Batches, Given
        <4>. QED  BY <1>0, <4>1, BatchIds
      <3>3. errs \in SUBSET Roots /\ Batch \ errs \in SUBSET Roots /\ Cardinality(errs) \in Nat
        BY <3>2, StateSets
      <3>4. PICK q \in Seq(Item) : q = BatchItems(Batch \ errs)
        BY <3>3, BatchFacts
      <3>5. PICK x : x = [w EXCEPT !.pc = "walk", !.page = q]
        OBVIOUS
      <3>6. x \in Walk /\ x.completed = w.completed /\ x.pc # "idle"
        BY <1>0, <3>5 DEF Walk
      <3>7. Fail(errs, entry, x, Cardinality(errs))
        BY <3>1, <3>4, <3>5
      <3>. QED  BY <2>4, <3>3, <3>6, <3>7
    <2>. QED  BY <2>1, <2>2, <2>3, <2>5, <2>6
  <1>. QED  BY <1>0, <1>1, <1>3, <1>6 DEF Cursor, OnePlan

\* Every step keeps the cursor, and what is recorded never moves back.
LEMMA CursorStep ==
    ASSUME TypeOK, TypeNext, WalkInv, RootInv, CursorInv, Next
    PROVE  CursorInv' /\ job'.recorded >= job.recorded
  <1>0. Cursor(used.setup, w, job) /\ job.recorded \in Nat /\ used'.setup = used.setup
    BY DEF CursorInv, TypeNext, TypeOK, Job
  <1>1. SUFFICES Cursor(used.setup, w', job') /\ job'.recorded >= job.recorded
    BY <1>0, <1>1 DEF CursorInv
  <1>2. CASE job' = job /\ (w' = w \/ SameLoop(w, w'))
    BY <1>0, <1>2, CursorKept
  <1>3. CASE StartAttempt \/ Finish \/ Crash \/ Abort \/ BulkFails \/ Beat
    BY <1>3, CursorAttempts
  <1>4. CASE Execute \/ FlushBeforePlan \/ FetchPage \/ TakePage \/ PageConsumed \/ EndPlan
    <2>1. job' = job
      BY <1>4 DEF Execute, FlushBeforePlan, FetchPage, TakePage, PageConsumed, EndPlan
    <2>. QED  BY <1>0, <1>4, <2>1, CursorPages
  <1>5. CASE BeginBatch \/ BatchFails \/ AskPlans \/ BatchDone \/ EndBatches
    BY <1>0, <1>5, CursorBatch
  <1>6. ASSUME NEW q \in Roots, ItemStep(q) \/ BeginItemFails(q)
        PROVE  Cursor(used.setup, w', job') /\ job'.recorded >= job.recorded
    <2>1. job' = job
      BY <1>6, Zenon DEF ItemStep, BeginItem, BeginItemFails, AddDoc, SkipItem, Contradiction, CountNil
    <2>. QED  BY <1>2, <1>6, <2>1, ItemLoop
  <1>7. CASE \/ BulkUpsert \/ CountDocs \/ CheckDrift \/ Narrow \/ CheckDriftFails
             \/ \E r \in Roots : SettleStep(r) \/ StoreEdgesFails(r) \/ DropNilsFails(r)
    <2>1. job' = job
      BY <1>7, Zenon DEF BulkUpsert, CountDocs, CheckDrift, Narrow, CheckDriftFails, SettleStep, StoreEdges,
                         StoreEdgesFails, DropNils, DropNilsFails, LeaveGone, Remark, Complete, FailPartial, RemoveRow
    <2>. QED  BY <1>2, <1>7, <2>1, FlusherLoop
  <1>8. CASE FlusherReturns
    BY <1>8, CursorReturn
  <1>9. CASE \/ Rest
             \/ \E r \in Roots : ChangeRoot(r) \/ LiveBegin(r) \/ LiveEnd(r)
             \/ \E c \in Kids : ChangeKid(c)
             \/ \E y \in Things : Register(y)
    BY <1>2, <1>9 DEF Rest, vars, ChangeRoot, LiveBegin, LiveEnd, ChangeKid, Register
  <1>. QED  BY <1>3, <1>4, <1>5, <1>6, <1>7, <1>8, <1>9 DEF Next, WalkStep, LoopStep, FlushStep, Failure

-----------------------------------------------------------------------------
(* The types, the recorded cursor and the documents *)

\* What the type invariant needs to be inductive.
CoreInv == TypeOK /\ WalkInv /\ RootInv /\ DrawnInv /\ FreshInv /\ CursorInv

\* It holds of every setup a behaviour can start with.
LEMMA CoreInit ==
    ASSUME Init
    PROVE  CoreInv
  <1>. DEFINE s == used.setup
  <1>1. /\ s \in {Setups[i] : i \in DOMAIN Setups} /\ used.changes = 0 /\ used.errors = 0 /\ used.crashes = 0
        /\ used.lost \in BOOLEAN
    BY DEF Init
  <1>2. IsSetup(s)
    BY <1>1, RebuildAssumption
  <1>3. /\ MaxChanges \in Nat /\ MaxErrors \in Nat /\ MaxCrashes \in Nat /\ MaxAttempts \in Nat \ {0}
        /\ Existences \subseteq SUBSET Versions /\ Cardinality(Selected) \in Nat
    BY <1>2, SetFacts DEF IsSetup, MaxChanges, MaxErrors, MaxCrashes, MaxAttempts, Existences, Versions, Selected
  <1>4. used \in Used
    <2>1. used = [setup |-> s, changes |-> 0, errors |-> 0, crashes |-> 0, lost |-> used.lost]
      BY DEF Init
    <2>2. 0 \in 0 .. MaxChanges /\ 0 \in 0 .. MaxErrors /\ 0 \in 0 .. MaxCrashes
      BY <1>3
    <2>3. PICK b \in BOOLEAN : b = used.lost
      BY <1>1
    <2>. QED  BY <1>1, <2>1, <2>2, <2>3 DEF Used
  <1>5. w \in Walk /\ w = IdleWalk
    BY DEF Init, IdleWalk, Walk
  <1>6. entry \in [Roots -> Entry] /\ \A r \in Roots : entry[r] = NoEntry
    <2>1. 0 \in 0 .. Cardinality(Selected)
      BY <1>3
    <2>2. NoEntry \in Entry
      BY <2>1 DEF NoEntry, Entry
    <2>. QED  BY <2>2 DEF Init
  <1>7. /\ job \in Job /\ job.latest = 0 /\ job.recorded = 0 /\ job.attempts = 0 /\ job.outcome = "running"
    <2>1. 0 \in 0 .. MaxAttempts
      BY <1>3
    <2>. QED  BY <2>1 DEF Init, Job
  <1>8. NoBody \in Body /\ OldBody \in Body /\ ~NoBody.found
    BY DEF NoBody, OldBody, Body
  <1>9. live \in [Roots -> Live] /\ \A r \in Roots : live[r] = NoLive
    <2>1. NoLive \in Live
      BY <1>8 DEF NoLive, Live
    <2>. QED  BY <2>1 DEF Init
  <1>10. /\ docs \in [Roots -> [Versions -> [ver : Nat, body : Body]]]
         /\ \A r \in Roots, v \in Versions : docs[r][v].ver = 1
    BY <1>8 DEF Init
  <1>11. edges \in [Roots -> [Versions -> [stamp : Nat, kids : SUBSET Kids]]]
    BY DEF Init, NoEdges
  <1>12. has \in [Roots -> SUBSET Versions]
    BY <1>3 DEF Init
  <1>13. TypeOK
    BY <1>4, <1>5, <1>6, <1>7, <1>9, <1>10, <1>11, <1>12 DEF Init, TypeOK
  <1>14. WalkInv
    BY <1>5, IdleFacts DEF WalkInv
  <1>15. RootInv
    BY <1>5, <1>6, IdleRoot DEF RootInv
  <1>16. DrawnInv
    <2>1. NoLive = NoLiveIn(s) /\ NoLive.idx = 0 /\ seq = 1 /\ Versions = s.versions
      BY DEF NoLive, NoLiveIn, Versions, Init
    <2>2. NoEntry.occ = 0 /\ ~Open(NoEntry)
      BY DEF NoEntry, Open
    <2>3. ASSUME NEW r \in Roots
          PROVE  Drawn(s, entry[r], docs[r], live[r], seq)
      BY <1>6, <1>9, <1>10, <2>1, <2>2 DEF Drawn
    <2>. QED  BY <2>3 DEF DrawnInv
  <1>17. FreshInv
    <2>1. \A v \in s.versions : NoLive.out[v] = NoBody
      BY DEF NoLive, Versions
    <2>2. \A y \in Things : src[y] >= 1
      BY DEF Init
    <2>3. \A r \in Roots, v \in s.versions : New(live[r].out[v]) /\ ~(docs[r][v].ver > 1)
      BY <1>8, <1>9, <1>10, <2>1 DEF New, Versions
    <2>. QED  BY <2>2, <2>3 DEF FreshInv, Fresh
  <1>18. CursorInv
    <2>1. IdleWalk.left = {} /\ IdleWalk.completed = 0 /\ s.attempts \in Nat \ {0}
      BY <1>2 DEF IdleWalk, IsSetup
    <2>2. s.pages \in [s.selected -> Seq(Seq(s.roots))]
      BY <1>2, SetFacts
    <2>3. \A v \in s.selected : Len(s.pages[v]) \in Nat
      BY <2>2
    <2>. QED  BY <1>5, <1>7, <2>1, <2>3 DEF CursorInv, Cursor
  <1>. QED  BY <1>13, <1>14, <1>15, <1>16, <1>17, <1>18 DEF CoreInv

\* Every step is typed.
LEMMA CoreTypes ==
    ASSUME CoreInv, Next
    PROVE  TypeNext
  <1>1. \A r \in Roots : CountNil(r) => entry[r].remaining >= 1
    BY NilOwed DEF CoreInv
  <1>2. Placed(used.setup, w) /\ Cursor(used.setup, w, job)
    BY DEF CoreInv, WalkInv, WalkOK, CursorInv
  <1>. QED  BY <1>1, <1>2, TypeStep DEF CoreInv

\* Every step keeps the invariant.
LEMMA CoreStep ==
    ASSUME CoreInv, [Next]_vars
    PROVE  CoreInv'
  <1>1. CASE Next
    <2>1. TypeNext
      BY <1>1, CoreTypes
    <2>2. \A r \in Roots : CountNil(r) => entry[r].remaining >= 1
      BY NilOwed DEF CoreInv
    <2>3. \A r \in Roots : src[r] >= 1
      BY DEF CoreInv, FreshInv, Things
    <2>4. WalkInv'
      BY <1>1, <2>1, <2>2, <2>3, WalkStepInv DEF CoreInv
    <2>5. TypeOK' /\ RootInv'
      BY <1>1, <2>1, <2>4, TypeKept, RootStep DEF CoreInv
    <2>6. DrawnInv' /\ FreshInv' /\ CursorInv'
      BY <1>1, <2>1, DrawnStep, FreshStep, CursorStep DEF CoreInv
    <2>. QED  BY <2>4, <2>5, <2>6 DEF CoreInv
  <1>2. CASE UNCHANGED vars
    <2>1. TypeNext
      BY <1>2, TypeFacts DEF CoreInv, TypeNow, TypeNext, vars, source, store
    <2>2. TypeOK' /\ Roots' = Roots /\ Things' = Things
      BY <2>1, TypeKept DEF TypeNext, Roots, Things, Kids
    <2>3. WalkInv' /\ RootInv' /\ DrawnInv' /\ FreshInv' /\ CursorInv'
      BY <1>2, <2>2 DEF vars, source, store, CoreInv, WalkInv, RootInv, DrawnInv, FreshInv, CursorInv
    <2>. QED  BY <2>2, <2>3 DEF CoreInv
  <1>. QED  BY <1>1, <1>2

\* The invariant holds throughout.
LEMMA CoreAlways == Spec => []CoreInv
  <1>1. Init => CoreInv
    BY CoreInit
  <1>2. CoreInv /\ [Next]_vars => CoreInv'
    BY CoreStep
  <1>. QED  BY <1>1, <1>2, PTL DEF Spec

\* Whatever the attempts, failures and live builds, every variable of the
\* rebuild has its type: the retry policy's attempts are never exceeded
\* (src/core/temporal.go), and a root's outstanding outcomes never fall below
\* zero (src/core/rebuild_flusher.go).
THEOREM RebuildTypeOK == Spec => []TypeOK
  BY CoreAlways, PTL DEF CoreInv

\* No beat of any attempt moves the cursor Temporal has recorded back
\* (src/core/temporal.go, heartbeatCursor).
THEOREM RebuildCursorNeverLost == Spec => CursorNeverLost
  <1>1. CoreInv /\ [Next]_vars => [job'.recorded >= job.recorded]_job
    <2>1. SUFFICES ASSUME CoreInv, [Next]_vars
                   PROVE  [job'.recorded >= job.recorded]_job
      OBVIOUS
    <2>2. CASE Next
      <3>1. job'.recorded >= job.recorded
        BY <2>1, <2>2, CoreTypes, CursorStep DEF CoreInv
      <3>. QED  BY <3>1
    <2>3. CASE UNCHANGED vars
      BY <2>3 DEF vars
    <2>. QED  BY <2>1, <2>2, <2>3
  <1>. QED  BY <1>1, CoreAlways, PTL DEF Spec, CursorNeverLost

\* A document written at the number it has is found as before: at its own
\* Build Sequence a root's document is what its plan said.
LEMMA NoFlipStep ==
    ASSUME CoreInv, Next, NEW r \in Roots, NEW v \in Versions, docs'[r][v].ver = docs[r][v].ver
    PROVE  docs'[r][v].body.found = docs[r][v].body.found
  <1>0. TypeNext /\ TypeOK /\ WalkInv /\ RootInv /\ DrawnInv
    BY CoreTypes DEF CoreInv
  <1>1. DocTo(r, v)
    BY <1>0, DocStep
  <1>2. CASE docs'[r][v] = docs[r][v]
    BY <1>2
  <1>3. CASE docs'[r][v].ver > docs[r][v].ver
    <2>1. docs[r][v].ver \in Nat
      BY <1>0, RootTypes DEF Versions
    <2>. QED  BY <1>3, <2>1
  <1>4. CASE /\ Open(entry[r]) /\ docs'[r][v].ver = entry[r].occ
             /\ \/ w.pc = "bulk" /\ \E it \in Range(w.chunk) : it.id = r /\ it.v = v /\ docs'[r][v].body = it.body
                \/ w.pc = "nils" /\ ~docs'[r][v].body.found /\ (v \in entry[r].nils \/ Removing(w, r))
    <2>. DEFINE s == used.setup
                e == entry[r]
    <2>1. RootOK(s, w, e, docs[r], r) /\ Placed(s, w) /\ Found(w)
      BY <1>0 DEF RootInv, WalkInv, WalkOK
    <2>2. /\ Accounted(s, e, docs[r], Queue(w, r), Coming(s, w, r))
          /\ Agrees(s, e, docs[r], Removing(w, r))
      BY <1>4, <2>1 DEF RootOK, Books
    <2>3. IF docs[r][v].body.found THEN v \notin e.nils /\ v <= e.lastDoc ELSE v \in e.nils \/ Removing(w, r)
      BY <1>4, <2>2 DEF Agrees, Versions
    <2>4. docs[r][v].body.found \in BOOLEAN /\ docs'[r][v].body.found \in BOOLEAN
      <3>1. docs[r][v] \in Doc /\ docs'[r][v] \in Doc
        BY <1>0, TypeFacts DEF TypeNow, TypeNext
      <3>. QED  BY <3>1 DEF Doc, Body
    <2>5. CASE w.pc = "bulk" /\ \E it \in Range(w.chunk) : it.id = r /\ it.v = v /\ docs'[r][v].body = it.body
      <3>1. PICK it \in Range(w.chunk) : it.id = r /\ it.v = v /\ docs'[r][v].body = it.body
        BY <2>5
      <3>2. v \in Of(w.chunk, r)
        BY <3>1, IdFacts
      <3>3. v \in Queue(w, r) /\ Waiting(w)
        BY <2>5, <3>2 DEF Queue, Waiting
      <3>4. v \notin e.nils
        BY <2>2, <3>3 DEF Accounted
      <3>5. w.how = "flush"
        BY <2>1, <2>5 DEF Placed, Applying
      <3>6. docs[r][v].body.found
        BY <2>3, <3>4, <3>5 DEF Removing
      <3>7. docs'[r][v].body.found
        BY <2>1, <3>1, <3>3 DEF Found
      <3>. QED  BY <2>4, <3>6, <3>7
    <2>6. CASE w.pc = "nils" /\ ~docs'[r][v].body.found /\ (v \in e.nils \/ Removing(w, r))
      <3>1. ASSUME docs[r][v].body.found
            PROVE  FALSE
        <4>1. v \notin e.nils /\ v <= e.lastDoc /\ Removing(w, r)
          BY <2>3, <2>6, <3>1
        <4>2. e.lastDoc = 0
          BY <1>4, <2>1, <4>1 DEF RootOK, Handled, Removing
        <4>3. v \in Nat \ {0}
          BY <1>0, StateSets, SetFacts
        <4>. QED  BY <4>1, <4>2, <4>3
      <3>. QED  BY <2>4, <2>6, <3>1
    <2>. QED  BY <1>4, <2>5, <2>6
  <1>. QED  BY <1>1, <1>2, <1>3, <1>4 DEF DocTo

\* No build of a root, live or the rebuild's, both writes and deletes one of
\* its documents at one Build Sequence, where Elasticsearch's external_gte would
\* let whichever came last win (src/core/rebuild_flusher.go, rulings R3 and R6).
THEOREM RebuildNoFlip == Spec => NoFlipAtOneSequence
  <1>1. CoreInv /\ [Next]_vars =>
           [\A r \in Roots, v \in Versions :
              docs'[r][v].ver = docs[r][v].ver => docs'[r][v].body.found = docs[r][v].body.found]_docs
    <2>1. SUFFICES ASSUME CoreInv, [Next]_vars
                   PROVE  [\A r \in Roots, v \in Versions :
                             docs'[r][v].ver = docs[r][v].ver => docs'[r][v].body.found = docs[r][v].body.found]_docs
      OBVIOUS
    <2>2. CASE Next
      BY <2>1, <2>2, NoFlipStep
    <2>3. CASE UNCHANGED vars
      BY <2>3 DEF vars
    <2>. QED  BY <2>1, <2>2, <2>3
  <1>. QED  BY <1>1, CoreAlways, PTL DEF Spec, NoFlipAtOneSequence

=============================================================================
