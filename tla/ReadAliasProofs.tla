-------------------------- MODULE ReadAliasProofs --------------------------
(***************************************************************************)
(* Proofs about ReadAlias, for any number of instances, resources and      *)
(* Schema Versions and every plan the runbook allows: where the alias      *)
(* points once a config is rolled out, that it is never lost, and that     *)
(* what it serves is complete.  They are stated of Scan's specification,   *)
(* the one the run checks.                                                 *)
(***************************************************************************)
EXTENDS Scan, FiniteSetTheorems, TLAPS

-----------------------------------------------------------------------------
(* The inductive invariant *)

Final == Plan[Len(Plan)]
Now == Plan[step].read

Answers == Versions \cup {Foreign, None}

InstanceType ==
    inst \in [Instances -> [config : 1 .. Len(Plan), pc : {"down", "read", "move", "serving"}, seen : Answers]]

ToolType ==
    tool \in [kind : {"none", "mapping", "cleanup"}, pc : {"idle", "apply", "read", "move", "delete"},
              config : 0 .. Len(Plan), force : BOOLEAN, seen : Answers, todo : SUBSET Versions]

CheckType ==
    check \in [pc : {"idle", "alias", "index", "coverage", "current", "gap", "stale"}, config : 0 .. Len(Plan),
               seen : Answers, count : Nat, ok : BOOLEAN, passed : 0 .. Len(Plan)]

UsedType ==
    used \in [setup : 1 .. Len(Setups), changes : Nat, aged : Nat, crashes : Nat, tools : Nat, ahead : Nat]

AliasTypeOK ==
    /\ UsedType
    /\ alias \subseteq Versions \cup {Foreign}
    /\ index \in [Versions -> [made : {"no", "mapped", "dynamic"}, doc : [Rows -> Nat]]]
    /\ row \in [Rows -> [content : Nat, stale : {"no", "new", "old"}, sets : SUBSET Versions]]
    /\ step \in 1 .. Len(Plan)
    /\ InstanceType /\ ToolType /\ CheckType

\* The version gen-mapping took the alias to with an older config.
Ahead == Plan[used.ahead].read

\* The alias is where the config that is being rolled out has it, or ahead of
\* that, or is the hand-built one it was.
Placed ==
    \/ alias = {Now}
    \/ used.ahead # 0 /\ alias = {Ahead} /\ Ahead > Now
    \/ Foreign \in Setup.alias /\ alias = Setup.alias

\* Every instance runs the config that is being rolled out.
AllNow == \A i \in Setup.instances : inst[i].config = step

\* At most two configs are running, and the alias is where one of them has it.
Near ==
    /\ \A i \in Setup.instances : inst[i].config \in {step - 1, step}
    /\ \/ alias = {}
       \/ alias = {Now}
       \/ step > 1 /\ alias = {Plan[step - 1].read}
       \/ used.ahead # 0 /\ alias = {Ahead}
       \/ Foreign \in Setup.alias /\ alias = Setup.alias

\* While the alias is ahead, everything that writes writes that version: an
\* instance of a next config that no longer has it moves the alias before it
\* serves.
AheadKnows ==
    used.ahead # 0 =>
        /\ used.ahead < step /\ alias = {Ahead} /\ Ahead \in Final.versions
        /\ \A i \in Setup.instances :
               inst[i].config < step \/ inst[i].pc = "serving" => Ahead \in Config(i).versions

Settled == RolledOut => Placed

\* A tool that is run with another config than the rollout's runs after the
\* rollout, and comes to move the alias only forward, with an older config; a
\* cleanup that did not see the served index keeps it all the same.
ToolKnows ==
    /\ tool.pc = "idle" <=> tool.kind = "none"
    /\ tool.pc # "idle" => tool.config # 0
    /\ tool.kind = "mapping" /\ tool.config # step =>
        /\ AllNow /\ Placed
        /\ ~tool.force
        /\ tool.config > step => Plan[tool.config].read <= Now
        /\ tool.pc = "move" => tool.config < step /\ Plan[tool.config].read > Now
    /\ tool.kind = "cleanup" =>
        /\ AllNow /\ Placed
        /\ tool.config = Len(Plan)
        /\ tool.seen = Now \/ Now \in Final.versions

Covered(v) == \A r \in Setup.rows : row[r].stale = "no" => v \in row[r].sets

\* A cutover-check runs between rollouts, and has passed the next ReadVersion
\* only when every clean row has its edge set; it stays that way until the
\* next config is rolled out.
CheckKnows ==
    /\ check.pc # "idle" =>
        /\ AllNow /\ Placed
        /\ check.config \in {step, step + 1} /\ check.config # 0
        /\ Target # Now =>
            /\ check.pc = "index" => check.seen \in Nat \ {0} /\ (check.seen = Target => Covered(Target))
            /\ check.pc \in {"current", "gap", "stale"} /\ check.ok => Covered(Target)
    /\ check.passed # 0 =>
        /\ AllNow
        /\ check.passed \in {step, step + 1}
        /\ Plan[check.passed].read # Now => Covered(Plan[check.passed].read)

\* A config that was rolled out read the version, and every one since has it:
\* what gen-mapping with an older config may take the alias to.
Lasting(v) ==
    /\ v \in Final.versions
    /\ \E c \in 1 .. step : Plan[c].read = v /\ \A m \in c .. step : v \in Plan[m].versions

\* The versions whose index something reads or may come to have read.
Held(v) == v = Now \/ v \in alias \/ Lasting(v) \/ \E i \in Setup.instances : Config(i).read = v

\* An index of the last config is never deleted, so it is never made by a
\* document: it is there before an instance that writes it starts.
LastMade ==
    \A v \in Final.versions :
        /\ index[v].made # "dynamic"
        /\ \A i \in Setup.instances :
               inst[i].pc # "down" /\ v \in Config(i).versions => index[v].made = "mapped"

\* What is read has its mapping and an edge set of every clean row ...
HeldWhole == \A v \in Versions : Held(v) => index[v].made = "mapped" /\ Covered(v)

\* ... and the document of a clean row that has its edge set is the answer.
SetsAnswered ==
    \A v \in Versions, r \in Setup.rows :
        (v \in Final.versions \/ Held(v)) /\ row[r].stale = "no" /\ v \in row[r].sets =>
            index[v].doc[r] = Answer(v, r)

AliasInv ==
    /\ AliasTypeOK /\ Near /\ Settled /\ AheadKnows /\ ToolKnows /\ CheckKnows
    /\ LastMade /\ HeldWhole /\ SetsAnswered

-----------------------------------------------------------------------------
(* Facts about plans and single steps *)

\* What AliasAssumption says of the plan that was chosen.
LEMMA PlanFacts ==
    ASSUME AliasTypeOK
    PROVE  /\ Len(Plan) \in Nat \ {0}
           /\ \A k \in 1 .. Len(Plan) :
                /\ Plan[k].versions \subseteq Versions /\ Plan[k].read \in Plan[k].versions
                /\ Plan[k].read \in Versions /\ Plan[k].read \in Nat \ {0}
                /\ Plan[k].read \notin Final.versions => \A j \in 1 .. k : Plan[j].read = Plan[k].read
                /\ \A j \in 1 .. k : Plan[j].read > Plan[k].read =>
                       Plan[j].read \in Final.versions /\ \A m \in j .. k : Plan[j].read \in Plan[m].versions
           /\ \A k \in 1 .. Len(Plan) - 1 :
                Plan[k].read \in Plan[k + 1].versions /\ Plan[k + 1].read \in Plan[k].versions
           /\ Setup.instances \subseteq Instances /\ Setup.instances # {}
           /\ Setup.rows \subseteq Rows
           /\ Setup.alias \subseteq {Foreign, Plan[1].read}
           /\ Foreign \in Setup.alias =>
                /\ \A k \in 1 .. Len(Plan) : Plan[k].read \in Final.versions
                /\ Setup.alias = {Foreign} \/ Len(Plan) = 1
  <1>1. IsSetup(Setup)
    BY AliasAssumption DEF AliasTypeOK, UsedType, Setup
  <1>2. IsPlan(Plan)
    BY <1>1 DEF IsSetup, Plan
  <1>3. Len(Plan) \in Nat \ {0}
    BY <1>2 DEF IsPlan
  <1>4. \A k \in 1 .. Len(Plan) :
          /\ Plan[k].versions \subseteq Versions /\ Plan[k].read \in Plan[k].versions
          /\ Plan[k].read \notin Final.versions => \A j \in 1 .. k : Plan[j].read = Plan[k].read
    BY <1>2 DEF IsPlan, Final
  <1>8. ASSUME NEW k \in 1 .. Len(Plan), NEW j \in 1 .. k, Plan[j].read > Plan[k].read
        PROVE  Plan[j].read \in Final.versions /\ \A m \in j .. k : Plan[j].read \in Plan[m].versions
    <2>1. \A m \in (j .. k) \cup {Len(Plan)} : Plan[j].read \in Plan[m].versions
      BY <1>2, <1>8 DEF IsPlan
    <2>. QED  BY <2>1 DEF Final
  <1>5. \A k \in 1 .. Len(Plan) - 1 :
          Plan[k].read \in Plan[k + 1].versions /\ Plan[k + 1].read \in Plan[k].versions
    BY <1>2 DEF IsPlan
  <1>6. \A k \in 1 .. Len(Plan) : Plan[k].read \in Versions /\ Plan[k].read \in Nat \ {0}
    BY <1>4, AliasAssumption
  <1>7. /\ Setup.instances \subseteq Instances /\ Setup.instances # {}
        /\ Setup.rows \subseteq Rows
        /\ Setup.alias \subseteq {Foreign, Plan[1].read}
        /\ Foreign \in Setup.alias =>
             /\ \A k \in 1 .. Len(Plan) : Plan[k].read \in Final.versions
             /\ Setup.alias = {Foreign} \/ Len(Plan) = 1
    BY <1>1 DEF IsSetup, Plan, Final
  <1>. QED  BY <1>3, <1>4, <1>5, <1>6, <1>7, <1>8

\* The setup is chosen once.
LEMMA SetupStays ==
    ASSUME AliasTypeOK, AliasNext
    PROVE  Setup' = Setup /\ Plan' = Plan /\ Final' = Final /\ UsedType'
  <1>1. \/ used' = used
        \/ used' = [used EXCEPT !.changes = @ + 1] \/ used' = [used EXCEPT !.aged = @ + 1]
        \/ used' = [used EXCEPT !.crashes = @ + 1] \/ used' = [used EXCEPT !.tools = @ + 1]
        \/ used' = [used EXCEPT !.ahead = 0] \/ used' = [used EXCEPT !.crashes = @ + 1, !.ahead = 0]
        \/ used' = [used EXCEPT !.ahead = IF tool.config < step THEN tool.config ELSE 0]
    BY DEF AliasNext, VerifyIndicesExist, ReadAliasTarget, MoveAlias, Crash, Upgrade, Build, Change, Age,
           Backfill, Deploy, StartMapping, ApplyMapping, ToolReads, ApplyAlias, StartCleanup, CleanIndex,
           StartCheck, CheckAliasState, CheckTargetIndex, CheckCoverage, CountCurrent, CheckDocGap,
           CheckStaleBacklog, CheckFails, Gate, Spend
  <1>2. UsedType /\ tool.config \in Nat
    BY DEF AliasTypeOK, ToolType
  <1>3. used'.setup = used.setup /\ UsedType'
    <2>1. /\ used.changes + 1 \in Nat /\ used.aged + 1 \in Nat /\ used.crashes + 1 \in Nat
          /\ used.tools + 1 \in Nat /\ (IF tool.config < step THEN tool.config ELSE 0) \in Nat
      BY <1>2 DEF UsedType
    <2>2. ASSUME NEW n \in Nat, NEW m \in Nat,
                 \/ used' = used
                 \/ used' = [used EXCEPT !.changes = n] \/ used' = [used EXCEPT !.aged = n]
                 \/ used' = [used EXCEPT !.crashes = n] \/ used' = [used EXCEPT !.tools = n]
                 \/ used' = [used EXCEPT !.crashes = n, !.ahead = 0] \/ used' = [used EXCEPT !.ahead = m]
          PROVE  used'.setup = used.setup /\ UsedType'
      <3>1. CASE used' = used
        BY <3>1, <1>2 DEF UsedType
      <3>2. CASE used' = [used EXCEPT !.changes = n]
        BY <3>2, <1>2 DEF UsedType
      <3>3. CASE used' = [used EXCEPT !.aged = n]
        BY <3>3, <1>2 DEF UsedType
      <3>4. CASE used' = [used EXCEPT !.crashes = n]
        BY <3>4, <1>2 DEF UsedType
      <3>5. CASE used' = [used EXCEPT !.tools = n]
        BY <3>5, <1>2 DEF UsedType
      <3>6. CASE used' = [used EXCEPT !.crashes = n, !.ahead = 0]
        BY <3>6, <1>2 DEF UsedType
      <3>7. CASE used' = [used EXCEPT !.ahead = m]
        BY <3>7, <1>2 DEF UsedType
      <3>. QED  BY <2>2, <3>1, <3>2, <3>3, <3>4, <3>5, <3>6, <3>7
    <2>3. 0 \in Nat
      OBVIOUS
    <2>. QED  BY <2>1, <2>2, <2>3, <1>1
  <1>. QED  BY <1>3 DEF Setup, Plan, Final

\* Only a step that moves the alias changes what it is ahead by.
LEMMA AheadStays ==
    ASSUME AliasTypeOK,
           StartMapping \/ ApplyMapping \/ ToolReads \/ StartCleanup \/ \E r \in Setup.rows : Change(r) \/ Age(r)
    PROVE  used'.ahead = used.ahead
  <1>1. \/ used' = used
        \/ used' = [used EXCEPT !.changes = @ + 1] \/ used' = [used EXCEPT !.aged = @ + 1]
        \/ used' = [used EXCEPT !.tools = @ + 1]
    BY DEF StartMapping, ApplyMapping, ToolReads, StartCleanup, Change, Age, Spend
  <1>. QED  BY <1>1 DEF AliasTypeOK, UsedType

\* The version the alias is ahead by, where it is.
LEMMA AheadFacts ==
    ASSUME AliasTypeOK, AheadKnows, used.ahead # 0
    PROVE  /\ used.ahead \in 1 .. Len(Plan) /\ used.ahead < step
           /\ Ahead \in Versions /\ Ahead \in Nat \ {0} /\ Ahead # Foreign
  BY PlanFacts DEF AliasTypeOK, UsedType, AheadKnows, Ahead, Foreign

\* What the alias, the instances, the rows and the indices have to say stays
\* true when none of them changes.
LEMMA SameWorld ==
    ASSUME AliasInv, Setup' = Setup, UNCHANGED <<alias, index, row, inst, step>>, used'.ahead = used.ahead
    PROVE  /\ Near' /\ Settled' /\ AheadKnows' /\ LastMade' /\ HeldWhole' /\ SetsAnswered'
           /\ AllNow' = AllNow /\ Placed' = Placed /\ Now' = Now /\ Plan' = Plan /\ Final' = Final
           /\ RolledOut' = RolledOut /\ \A v : Covered(v)' = Covered(v)
  <1>1. Plan' = Plan
    BY DEF Plan
  <1>2. /\ AllNow' = AllNow /\ Placed' = Placed /\ Now' = Now /\ Final' = Final
        /\ RolledOut' = RolledOut /\ (\A v : Covered(v)' = Covered(v)) /\ Ahead' = Ahead
    BY <1>1 DEF AllNow, Placed, Now, Final, RolledOut, Covered, Ahead
  <1>4. \A i : Config(i)' = Config(i)
    BY <1>1 DEF Config
  <1>3. Near' /\ Settled' /\ AheadKnows'
    BY <1>1, <1>2, <1>4 DEF AliasInv, Near, Settled, AheadKnows
  <1>5. \A v : Held(v)' = Held(v)
    BY <1>1, <1>2, <1>4 DEF Held, Lasting
  <1>6. \A v, r : Answer(v, r)' = Answer(v, r)
    BY DEF Answer
  <1>7. LastMade' /\ HeldWhole'
    BY <1>2, <1>4, <1>5 DEF AliasInv, LastMade, HeldWhole
  <1>8. SetsAnswered'
    BY <1>2, <1>5, <1>6 DEF AliasInv, SetsAnswered
  <1>. QED  BY <1>1, <1>2, <1>3, <1>7, <1>8

\* What is read of the alias.
LEMMA AliasAnswers ==
    ASSUME AliasTypeOK
    PROVE  /\ GetAlias \subseteq Answers
           /\ alias # {} => GetAlias = alias
           /\ \A v \in GetAlias : v # None => v \in alias
           /\ Now \in Versions /\ Now \in Nat \ {0} /\ Now \in Plan[step].versions
  BY PlanFacts DEF GetAlias, Answers, AliasTypeOK, Now, None, Foreign

-----------------------------------------------------------------------------
(* cutover-check *)

CheckStep ==
    \/ StartCheck \/ CheckAliasState \/ CheckTargetIndex \/ CheckCoverage \/ CountCurrent \/ CheckDocGap
    \/ CheckStaleBacklog \/ CheckFails

\* Between two indices, forward or back, is what a move from the served index
\* to another version's is.
LEMMA MoveBetween ==
    ASSUME NEW seen \in Nat \ {0}, NEW read \in Nat \ {0}, seen # read
    PROVE  PlanAliasMove(seen, read) \in {"forward", "backward"}
  BY DEF PlanAliasMove, None, Foreign

\* A hand-built index is told from every version's.
LEMMA MoveForeign ==
    ASSUME NEW read \in Nat \ {0}
    PROVE  PlanAliasMove(Foreign, read) = "foreign"
  BY DEF PlanAliasMove, None, Foreign

\* The verdicts of cutover-check are as CheckKnows says they are.
LEMMA CheckStepKeeps ==
    ASSUME AliasInv, CheckStep, Setup' = Setup, AliasTypeOK
    PROVE  CheckType' /\ CheckKnows'
  <1>. USE PlanFacts, AliasAnswers
  <1>1. UNCHANGED <<alias, index, row, inst, step, tool, used>>
    BY DEF CheckStep, StartCheck, CheckAliasState, CheckTargetIndex, CheckCoverage, CountCurrent, CheckDocGap,
           CheckStaleBacklog, CheckFails, Gate
  <1>2. /\ Plan' = Plan /\ AllNow' = AllNow /\ Placed' = Placed /\ Now' = Now
        /\ \A v : Covered(v)' = Covered(v)
    BY <1>1, SameWorld
  <1>3. CheckType /\ CheckKnows /\ step \in 1 .. Len(Plan) /\ step' = step
    BY <1>1 DEF AliasInv, AliasTypeOK
  <1>4. RolledOut => AllNow /\ Placed
    BY DEF AliasInv, Settled, RolledOut, AllNow
  <1>5. CASE StartCheck
    <2>1. PICK c \in {step, step + 1} \cap (1 .. Len(Plan)) :
              check' = [NoCheck EXCEPT !.pc = "alias", !.config = c]
      BY <1>5 DEF StartCheck
    <2>2. check' = [pc |-> "alias", config |-> c, seen |-> None, count |-> 0, ok |-> TRUE, passed |-> 0]
      BY <2>1 DEF NoCheck
    <2>3. CheckType'
      BY <2>2, <1>2 DEF CheckType, Answers
    <2>. QED  BY <2>2, <2>3, <1>2, <1>3, <1>4, <1>5 DEF StartCheck, CheckKnows
  <1>6. CASE check' = NoCheck
    BY <1>6, <1>2 DEF NoCheck, CheckType, CheckKnows, Answers
  <1>7. CASE CheckAliasState /\ check' # NoCheck
    <2>1. PICK seen \in GetAlias : /\ PlanAliasMove(seen, Target) # "foreign"
                                  /\ check' = [check EXCEPT !.pc = "index", !.seen = seen]
      BY <1>7 DEF CheckAliasState, NotReady
    <2>2. check.pc = "alias"
      BY <1>7 DEF CheckAliasState, Gate
    <2>3. Target # Now => seen \in Nat \ {0} /\ (seen = Target => Covered(Target))
      <3>1. SUFFICES ASSUME Target # Now  PROVE seen \in Nat \ {0} /\ (seen = Target => Covered(Target))
        OBVIOUS
      <3>2. Len(Plan) # 1
        BY <3>1, <2>2, <1>3 DEF CheckKnows, CheckType, Target, Now
      <3>3. Target \in Nat \ {0}
        BY <2>2, <1>3 DEF CheckKnows, CheckType, Target
      <3>4. alias # {Foreign}
        BY <2>1, <3>3, MoveForeign DEF GetAlias
      <3>5. CASE alias = {Now}
        BY <3>1, <3>5, <2>1
      <3>6. CASE used.ahead # 0 /\ alias = {Ahead}
        <4>1. seen = Ahead /\ Ahead \in Versions /\ Ahead \in Nat \ {0} /\ Held(Ahead)
          BY <3>6, <2>1, AheadFacts DEF AliasInv, Held
        <4>. QED  BY <4>1 DEF AliasInv, HeldWhole
      <3>. QED  BY <3>2, <3>4, <3>5, <3>6, <2>1, <2>2, <1>3 DEF CheckKnows, Placed
    <2>4. CheckType' /\ Target' = Target
      BY <2>1, <1>2, <1>3 DEF CheckType, Target
    <2>. QED  BY <2>1, <2>2, <2>3, <2>4, <1>2, <1>3 DEF CheckKnows, CheckType
  <1>8. CASE CheckTargetIndex /\ check' # NoCheck
    <2>1. /\ check.pc = "index"
          /\ check' = [check EXCEPT !.pc =
                IF PlanAliasMove(check.seen, Target) \in {"forward", "backward"} THEN "coverage" ELSE "stale"]
      BY <1>8 DEF CheckTargetIndex, Gate, NotReady
    <2>2. Target # Now => check'.pc = "coverage" \/ Covered(Target)
      <3>1. SUFFICES ASSUME Target # Now, ~Covered(Target)  PROVE check'.pc = "coverage"
        OBVIOUS
      <3>2. check.seen # Target /\ check.seen \in Nat \ {0} /\ Target \in Nat \ {0}
        BY <3>1, <2>1, <1>3 DEF CheckKnows, CheckType, Target
      <3>. QED  BY <3>1, <3>2, <2>1, <1>3, MoveBetween DEF CheckType
    <2>3. CheckType' /\ Target' = Target
      BY <2>1, <1>2, <1>3 DEF CheckType, Target
    <2>. QED  BY <2>1, <2>2, <2>3, <1>2, <1>3 DEF CheckKnows, CheckType
  <1>9. CASE CheckCoverage
    <2>1. /\ check.pc = "coverage"
          /\ check' = [check EXCEPT !.pc = "current", !.ok = @ /\ Uncovered(Target) = {}]
      BY <1>9 DEF CheckCoverage, Gate
    <2>2. Uncovered(Target) = {} => Covered(Target)
      BY DEF Uncovered, Covered
    <2>3. CheckType' /\ Target' = Target
      BY <2>1, <1>2, <1>3 DEF CheckType, Target
    <2>. QED  BY <2>1, <2>2, <2>3, <1>2, <1>3 DEF CheckKnows, CheckType
  <1>10. CASE CountCurrent
    <2>1. /\ check.pc = "current"
          /\ check' = IF Exists(check.seen) THEN [check EXCEPT !.pc = "gap", !.count = CountDocs(check.seen)]
                      ELSE [check EXCEPT !.pc = "stale", !.ok = FALSE]
      BY <1>10 DEF CountCurrent, Gate
    <2>2. CountDocs(check.seen) \in Nat
      BY AliasAssumption, FS_Subset, FS_CardinalityType DEF CountDocs
    <2>3. CheckType' /\ Target' = Target
      BY <2>1, <2>2, <1>2, <1>3 DEF CheckType, Target
    <2>. QED  BY <2>1, <2>3, <1>2, <1>3 DEF CheckKnows, CheckType
  <1>11. CASE CheckDocGap
    <2>1. /\ check.pc = "gap"
          /\ \E b \in BOOLEAN : check' = [check EXCEPT !.pc = "stale", !.ok = @ /\ b]
      BY <1>11 DEF CheckDocGap, Gate
    <2>2. CheckType' /\ Target' = Target
      BY <2>1, <1>2, <1>3 DEF CheckType, Target
    <2>. QED  BY <2>1, <2>2, <1>2, <1>3 DEF CheckKnows, CheckType
  <1>12. CASE CheckStaleBacklog /\ check' # NoCheck
    <2>1. check.pc = "stale" /\ check.ok /\ check' = [NoCheck EXCEPT !.passed = check.config]
      BY <1>12 DEF CheckStaleBacklog, Gate
    <2>2. check' = [pc |-> "idle", config |-> 0, seen |-> None, count |-> 0, ok |-> TRUE,
                    passed |-> check.config]
      BY <2>1 DEF NoCheck
    <2>3. CheckType'
      BY <2>2, <1>2, <1>3 DEF CheckType, Answers
    <2>. QED  BY <2>1, <2>2, <2>3, <1>2, <1>3 DEF CheckKnows, CheckType, Target
  <1>. QED  BY <1>5, <1>6, <1>7, <1>8, <1>9, <1>10, <1>11, <1>12 DEF CheckStep, CheckFails, NotReady

-----------------------------------------------------------------------------
(* gen-mapping and cleanup *)

\* A tool that starts, or reads the alias, is as ToolKnows says.
LEMMA ToolStepKeeps ==
    ASSUME AliasInv, StartMapping \/ ToolReads \/ StartCleanup, Setup' = Setup, AliasTypeOK
    PROVE  ToolType' /\ ToolKnows'
  <1>. USE PlanFacts, AliasAnswers
  <1>1. UNCHANGED <<alias, index, row, inst, step, check>>
    BY DEF StartMapping, ToolReads, StartCleanup
  <1>2. Plan' = Plan /\ AllNow' = AllNow /\ Placed' = Placed /\ Now' = Now /\ Final' = Final
    BY <1>1, SameWorld, AheadStays
  <1>3. ToolType /\ ToolKnows /\ step \in 1 .. Len(Plan) /\ step' = step
    BY <1>1 DEF AliasInv, AliasTypeOK
  <1>4. RolledOut => AllNow /\ Placed
    BY DEF AliasInv, Settled, RolledOut, AllNow
  <1>5. CASE StartMapping
    <2>1. PICK c \in 1 .. Len(Plan), force \in BOOLEAN :
              /\ c <= step \/ Plan[c].read <= Plan[step].read
              /\ c # step => RolledOut /\ ~force
              /\ tool' = [NoTool EXCEPT !.kind = "mapping", !.pc = "apply", !.config = c, !.force = force]
      BY <1>5 DEF StartMapping
    <2>2. tool' = [kind |-> "mapping", pc |-> "apply", config |-> c, force |-> force, seen |-> None, todo |-> {}]
      BY <2>1 DEF NoTool
    <2>3. ToolType'
      BY <2>2, <1>2 DEF ToolType, Answers
    <2>. QED  BY <2>1, <2>2, <2>3, <1>2, <1>3, <1>4 DEF ToolKnows, Now
  <1>6. CASE tool' = NoTool
    BY <1>6, <1>2 DEF NoTool, ToolType, ToolKnows, Answers
  <1>7. CASE ToolReads /\ tool' # NoTool
    <2>1. PICK seen \in GetAlias :
              /\ DecideAliasApply(PlanAliasMove(seen, Plan[tool.config].read), tool.force)
              /\ tool' = [tool EXCEPT !.pc = "move", !.seen = seen]
      BY <1>7 DEF ToolReads
    <2>2. tool.kind = "mapping" /\ tool.pc = "read"
      BY <1>7 DEF ToolReads
    <2>3. tool.config \in 1 .. Len(Plan) /\ Plan[tool.config].read \in Nat \ {0}
      BY <2>2, <1>3 DEF ToolKnows, ToolType
    <2>4. tool.config # step => tool.config < step /\ Plan[tool.config].read > Now
      <3>1. SUFFICES ASSUME tool.config # step  PROVE tool.config < step /\ Plan[tool.config].read > Now
        OBVIOUS
      <3>2. Placed /\ ~tool.force /\ (tool.config > step => Plan[tool.config].read <= Now)
        BY <3>1, <2>2, <1>3 DEF ToolKnows
      <3>3. seen = Foreign \/ (seen \in Nat \ {0} /\ seen >= Now)
        <4>1. Len(Plan) # 1
          BY <3>1, <2>3, <1>3
        <4>2. alias = {Now} \/ alias = {Foreign} \/ (used.ahead # 0 /\ alias = {Ahead} /\ Ahead > Now)
          BY <4>1, <3>2 DEF Placed
        <4>3. GetAlias = alias
          BY <4>2
        <4>4. used.ahead # 0 => Ahead \in Nat \ {0}
          BY AheadFacts DEF AliasInv
        <4>. QED  BY <4>2, <4>3, <4>4
      <3>4. PlanAliasMove(seen, Plan[tool.config].read) \in {"create", "forward"}
        BY <3>2, <2>1 DEF DecideAliasApply
      <3>5. seen # Foreign
        BY <3>4, <2>3, MoveForeign
      <3>6. seen < Plan[tool.config].read
        BY <3>3, <3>4, <3>5, <2>3 DEF PlanAliasMove, None, Foreign
      <3>. QED  BY <3>1, <3>2, <3>3, <3>5, <3>6, <2>3, <1>3
    <2>5. ToolType'
      BY <2>1, <1>2, <1>3 DEF ToolType
    <2>. QED  BY <2>1, <2>2, <2>4, <2>5, <1>2, <1>3 DEF ToolKnows, ToolType
  <1>8. CASE StartCleanup
    <2>1. PICK seen \in GetAlias :
              tool' = [NoTool EXCEPT !.kind = "cleanup", !.pc = "delete", !.config = Len(Plan), !.seen = seen,
                                     !.todo = {v \in Versions : Exists(v)}]
      BY <1>8 DEF StartCleanup
    <2>2. tool' = [kind |-> "cleanup", pc |-> "delete", config |-> Len(Plan), force |-> FALSE, seen |-> seen,
                   todo |-> {v \in Versions : Exists(v)}]
      BY <2>1 DEF NoTool
    <2>3. AllNow /\ Placed
      BY <1>8, <1>4 DEF StartCleanup
    <2>4. seen = Now \/ Now \in Final.versions
      <3>1. CASE used.ahead # 0 /\ alias = {Ahead} /\ Ahead > Now
        <4>1. used.ahead \in 1 .. step /\ Ahead # Now
          BY <3>1, AheadFacts, <1>3 DEF AliasInv
        <4>. QED  BY <4>1, <1>3 DEF Now, Ahead
      <3>2. CASE alias = {Now}
        BY <3>2, <2>1
      <3>3. CASE Foreign \in Setup.alias
        BY <3>3, <1>3 DEF Now
      <3>. QED  BY <3>1, <3>2, <3>3, <2>3 DEF Placed
    <2>5. ToolType'
      BY <2>2, <1>2 DEF ToolType
    <2>. QED  BY <2>2, <2>3, <2>4, <2>5, <1>2 DEF ToolKnows
  <1>. QED  BY <1>5, <1>6, <1>7, <1>8

\* Creating indices, or updating their mappings, leaves the documents alone.
LEMMA ApplyMappingKeeps ==
    ASSUME AliasInv, ApplyMapping, Setup' = Setup, AliasTypeOK
    PROVE  /\ index' \in [Versions -> [made : {"no", "mapped", "dynamic"}, doc : [Rows -> Nat]]]
           /\ ToolType' /\ ToolKnows' /\ LastMade' /\ HeldWhole' /\ SetsAnswered'
  <1>. USE PlanFacts
  <1>1. UNCHANGED <<alias, row, inst, step, check, used>> /\ Plan' = Plan
    BY DEF ApplyMapping, Plan
  <1>2. /\ AllNow' = AllNow /\ Placed' = Placed /\ Now' = Now /\ Final' = Final
        /\ (\A v : Covered(v)' = Covered(v)) /\ \A i : Config(i)' = Config(i)
    BY <1>1 DEF AllNow, Placed, Now, Final, Covered, Config, Ahead
  <1>3. \A v : Held(v)' = Held(v)
    BY <1>1, <1>2 DEF Held, Lasting
  <1>4. \A v, r : Answer(v, r)' = Answer(v, r)
    BY <1>1 DEF Answer
  <1>5. PICK S \in SUBSET Plan[tool.config].versions :
            /\ \A v \in S : index[v].made # "dynamic"
            /\ index' = [v \in Versions |-> IF v \in S THEN [index[v] EXCEPT !.made = "mapped"] ELSE index[v]]
            /\ tool' = IF S = Plan[tool.config].versions THEN [tool EXCEPT !.pc = "read"] ELSE NoTool
    BY DEF ApplyMapping
  <1>6. index \in [Versions -> [made : {"no", "mapped", "dynamic"}, doc : [Rows -> Nat]]]
    BY DEF AliasTypeOK
  <1>7. \A v \in Versions : /\ index'[v].doc = index[v].doc
                            /\ index'[v].made = index[v].made \/ index'[v].made = "mapped"
    BY <1>5, <1>6
  <1>8. index' \in [Versions -> [made : {"no", "mapped", "dynamic"}, doc : [Rows -> Nat]]]
    BY <1>5, <1>6
  <1>9. LastMade'
    <2>1. \A v \in Final.versions : v \in Versions
      BY DEF Final
    <2>. QED  BY <2>1, <1>1, <1>2, <1>7 DEF AliasInv, LastMade
  <1>10. HeldWhole'
    BY <1>2, <1>3, <1>7 DEF AliasInv, HeldWhole
  <1>11. SetsAnswered'
    BY <1>1, <1>2, <1>3, <1>4, <1>7 DEF AliasInv, SetsAnswered
  <1>12. ToolType /\ ToolKnows /\ tool.kind = "mapping" /\ tool.pc = "apply"
    BY DEF AliasInv, AliasTypeOK, ApplyMapping
  <1>13. tool' = NoTool \/ tool' = [tool EXCEPT !.pc = "read"]
    BY <1>5
  <1>14. ToolType'
    <2>1. CASE tool' = NoTool
      BY <2>1, <1>1 DEF ToolType, NoTool, Answers
    <2>2. CASE tool' = [tool EXCEPT !.pc = "read"]
      BY <2>2, <1>1, <1>12 DEF ToolType
    <2>. QED  BY <2>1, <2>2, <1>13
  <1>15. ToolKnows'
    <2>1. CASE tool' = NoTool
      BY <2>1, <1>2 DEF NoTool, ToolKnows
    <2>2. CASE tool' = [tool EXCEPT !.pc = "read"]
      BY <2>2, <1>1, <1>2, <1>12 DEF ToolKnows, ToolType
    <2>. QED  BY <2>1, <2>2, <1>13
  <1>. QED  BY <1>8, <1>9, <1>10, <1>11, <1>14, <1>15

\* Nothing else comes to be read, and what is read stays as it was.
LEMMA HeldShrinks ==
    ASSUME AliasInv, Setup' = Setup, UNCHANGED <<index, row>>,
           \A v \in Versions : Held(v)' => Held(v)
    PROVE  HeldWhole' /\ SetsAnswered'
  <1>1. (\A v : Covered(v)' = Covered(v)) /\ (\A v, r : Answer(v, r)' = Answer(v, r)) /\ Final' = Final
    BY DEF Covered, Answer, Final, Plan
  <1>2. HeldWhole'
    BY <1>1 DEF AliasInv, HeldWhole
  <1>3. SetsAnswered'
    BY <1>1 DEF AliasInv, SetsAnswered
  <1>. QED  BY <1>2, <1>3

\* Whatever is decided against the rollout's config is decided for nothing.
LEMMA ToolGone ==
    ASSUME AliasInv, Setup' = Setup, tool' = NoTool
    PROVE  ToolType' /\ ToolKnows'
  BY PlanFacts DEF AliasInv, ToolType, ToolKnows, NoTool, Answers, Plan

\* gen-mapping moves the alias where the config that is being rolled out has
\* it, or ahead, to a version that is written all along.
LEMMA ApplyAliasKeeps ==
    ASSUME AliasInv, ApplyAlias, Setup' = Setup, AliasTypeOK, UsedType'
    PROVE  AliasInv'
  <1>. USE PlanFacts, AliasAnswers
  <1>1. UNCHANGED <<index, row, inst, step, check>> /\ Plan' = Plan /\ tool' = NoTool
        /\ step \in 1 .. Len(Plan) /\ InstanceType
    BY DEF ApplyAlias, Plan, AliasTypeOK
  <1>2. /\ AllNow' = AllNow /\ Now' = Now /\ Final' = Final /\ RolledOut' = RolledOut
        /\ (\A v : Covered(v)' = Covered(v)) /\ (\A i : Config(i)' = Config(i))
        /\ \A v : Lasting(v)' = Lasting(v)
    BY <1>1 DEF AllNow, Now, Final, RolledOut, Covered, Config, Lasting
  <1>3. /\ tool.config \in 1 .. Len(Plan) /\ alias' = {Plan[tool.config].read}
        /\ tool.config = step \/ (AllNow /\ tool.config < step /\ Plan[tool.config].read > Now)
    BY DEF AliasInv, ToolKnows, ApplyAlias, CreateAlias, AliasTypeOK, ToolType
  <1>4. used'.ahead = IF tool.config < step THEN tool.config ELSE 0
    BY DEF ApplyAlias, AliasTypeOK, UsedType
  <1>5. \/ alias' = {Now} /\ used'.ahead = 0
        \/ /\ AllNow /\ used'.ahead \in 1 .. step - 1 /\ Ahead' > Now /\ alias' = {Ahead'}
           /\ Lasting(Ahead') /\ Ahead' \in Plan[step].versions
    <2>1. CASE tool.config = step
      BY <2>1, <1>1, <1>3, <1>4 DEF Now
    <2>2. CASE AllNow /\ tool.config < step /\ Plan[tool.config].read > Now
      <3>1. used'.ahead = tool.config /\ tool.config \in 1 .. step - 1
        BY <2>2, <1>1, <1>3, <1>4
      <3>2. Ahead' = Plan[tool.config].read
        BY <3>1, <1>1 DEF Ahead
      <3>3. tool.config \in 1 .. step /\ Plan[tool.config].read > Plan[step].read
        BY <2>2, <3>1, <1>1 DEF Now
      <3>4. /\ Plan[tool.config].read \in Final.versions
            /\ \A m \in tool.config .. step : Plan[tool.config].read \in Plan[m].versions
        BY <3>3, <1>1
      <3>5. step \in tool.config .. step
        BY <3>3, <1>1
      <3>6. Lasting(Plan[tool.config].read)
        BY <3>3, <3>4 DEF Lasting
      <3>. QED  BY <2>2, <3>1, <3>2, <3>4, <3>5, <3>6, <1>3
    <2>. QED  BY <2>1, <2>2, <1>3
  <1>6. Placed'
    BY <1>1, <1>2, <1>5 DEF Placed
  <1>7. Near' /\ Settled'
    BY <1>1, <1>2, <1>5, <1>6 DEF AliasInv, Near, Settled
  <1>8. AheadKnows'
    <2>1. CASE used'.ahead = 0
      BY <2>1 DEF AheadKnows
    <2>2. CASE used'.ahead # 0
      <3>1. \A i \in Setup.instances : Config(i) = Plan[step]
        BY <2>2, <1>5 DEF AllNow, Config
      <3>. QED  BY <2>2, <3>1, <1>1, <1>2, <1>5 DEF AheadKnows, Lasting
    <2>. QED  BY <2>1, <2>2
  <1>9. ToolType' /\ ToolKnows'
    BY <1>1, ToolGone
  <1>10. CheckKnows'
    BY <1>1, <1>2, <1>6 DEF AliasInv, CheckKnows, Target
  <1>11. HeldWhole' /\ SetsAnswered'
    <2>1. \A v : Held(v)' => Held(v)
      BY <1>1, <1>2, <1>5 DEF Held
    <2>. QED  BY <2>1, <1>1, HeldShrinks
  <1>12. LastMade'
    BY <1>1, <1>2 DEF AliasInv, LastMade
  <1>13. AliasTypeOK'
    BY <1>1, <1>3, <1>9 DEF AliasTypeOK, InstanceType, CheckType
  <1>. QED  BY <1>7, <1>8, <1>9, <1>10, <1>11, <1>12, <1>13 DEF AliasInv

\* cleanup removes no index that is read or that the last config names.
LEMMA CleanedUnheld ==
    ASSUME AliasInv, NEW v \in Versions, CleanIndex(v), alias' # alias \/ index' # index
    PROVE  ~Held(v) /\ v \notin Final.versions /\ DeleteIndex(v)
  <1>. USE PlanFacts, AliasAnswers
  <1>1. AliasTypeOK /\ ToolKnows /\ tool.kind = "cleanup"
    BY DEF AliasInv, CleanIndex
  <1>2. ClassifyIndex(v, Plan[tool.config].versions, tool.seen) = "remove" /\ DeleteIndex(v)
    BY DEF CleanIndex
  <1>3. tool.config = Len(Plan) /\ AllNow /\ Placed /\ (tool.seen = Now \/ Now \in Final.versions)
    BY <1>1 DEF ToolKnows
  <1>4. v \notin Final.versions /\ v # tool.seen
    BY <1>2, <1>3 DEF ClassifyIndex, Final
  <1>5. v # Now
    BY <1>3, <1>4
  <1>6. v \notin alias
    <2>1. CASE alias = {Now}
      BY <2>1, <1>5
    <2>2. CASE Foreign \in Setup.alias /\ alias = Setup.alias
      <3>1. v # Foreign
        BY AliasAssumption DEF Foreign
      <3>2. Plan[1].read \in Final.versions
        BY <2>2, <1>1
      <3>. QED  BY <2>2, <3>1, <3>2, <1>1, <1>4
    <2>3. CASE used.ahead # 0 /\ alias = {Ahead}
      BY <2>3, <1>4 DEF AliasInv, AheadKnows
    <2>. QED  BY <2>1, <2>2, <2>3, <1>3 DEF Placed
  <1>7. \A i \in Setup.instances : Config(i).read # v
    BY <1>3, <1>5 DEF AllNow, Config, Now
  <1>. QED  BY <1>2, <1>4, <1>5, <1>6, <1>7 DEF Held, Lasting

\* cleanup leaves what is read as it is.
LEMMA CleanIndexKeeps ==
    ASSUME AliasInv, NEW v \in Versions, CleanIndex(v), Setup' = Setup, AliasTypeOK
    PROVE  alias' = alias /\ AliasInv'
  <1>. USE PlanFacts, AliasAnswers
  <1>1. UNCHANGED <<row, inst, step, check, used>> /\ Plan' = Plan
    BY DEF CleanIndex, Plan
  <1>2. alias' = alias
    <2>1. SUFFICES ASSUME alias' # alias  PROVE FALSE
      OBVIOUS
    <2>2. v \notin alias /\ alias' = alias \ {v}
      BY <2>1, CleanedUnheld DEF DeleteIndex, Held
    <2>. QED  BY <2>1, <2>2
  <1>3. \/ index' = index
        \/ /\ ~Held(v) /\ v \notin Final.versions
           /\ index' = [index EXCEPT ![v] = [made |-> "no", doc |-> NoDocs]]
    BY CleanedUnheld DEF DeleteIndex
  <1>4. /\ AllNow' = AllNow /\ Placed' = Placed /\ Now' = Now /\ Final' = Final /\ RolledOut' = RolledOut
        /\ (\A w : Covered(w)' = Covered(w)) /\ \A i : Config(i)' = Config(i)
    BY <1>1, <1>2 DEF AllNow, Placed, Now, Final, RolledOut, Covered, Config, Ahead
  <1>5. \A w : Held(w)' = Held(w)
    BY <1>1, <1>2, <1>4 DEF Held, Lasting
  <1>6. \A w, r : Answer(w, r)' = Answer(w, r)
    BY <1>1 DEF Answer
  <1>7. Near' /\ Settled' /\ AheadKnows'
    BY <1>1, <1>2, <1>4 DEF AliasInv, Near, Settled, AheadKnows, Ahead
  <1>8. CheckKnows'
    BY <1>1, <1>4 DEF AliasInv, CheckKnows, Target
  <1>9. index \in [Versions -> [made : {"no", "mapped", "dynamic"}, doc : [Rows -> Nat]]]
    BY DEF AliasTypeOK
  <1>10. index' \in [Versions -> [made : {"no", "mapped", "dynamic"}, doc : [Rows -> Nat]]]
    <2>1. [made |-> "no", doc |-> NoDocs] \in [made : {"no", "mapped", "dynamic"}, doc : [Rows -> Nat]]
      BY DEF NoDocs
    <2>. QED  BY <2>1, <1>3, <1>9
  <1>11. \A w \in Versions : Held(w) \/ w \in Final.versions => index'[w] = index[w]
    BY <1>3, <1>9
  <1>12. LastMade'
    <2>1. \A w \in Final.versions : w \in Versions
      BY DEF Final
    <2>. QED  BY <2>1, <1>1, <1>4, <1>11 DEF AliasInv, LastMade
  <1>13. HeldWhole'
    BY <1>4, <1>5, <1>11 DEF AliasInv, HeldWhole
  <1>14. SetsAnswered'
    BY <1>1, <1>4, <1>5, <1>6, <1>11 DEF AliasInv, SetsAnswered
  <1>15. ToolType' /\ ToolKnows'
    <2>1. CASE tool' = NoTool
      BY <2>1, ToolGone
    <2>2. CASE tool' = [tool EXCEPT !.todo = @ \ {v}]
      <3>1. ToolType /\ ToolKnows
        BY DEF AliasInv, AliasTypeOK
      <3>2. ToolType'
        BY <3>1, <2>2, <1>1 DEF ToolType
      <3>3. tool'.kind = tool.kind /\ tool'.pc = tool.pc /\ tool'.config = tool.config
            /\ tool'.force = tool.force /\ tool'.seen = tool.seen
        BY <3>1, <2>2 DEF ToolType
      <3>. QED  BY <3>1, <3>2, <3>3, <1>1, <1>4 DEF ToolKnows
    <2>. QED  BY <2>1, <2>2 DEF CleanIndex
  <1>16. AliasTypeOK'
    BY <1>1, <1>2, <1>10, <1>15 DEF AliasTypeOK, UsedType, InstanceType, CheckType
  <1>. QED  BY <1>2, <1>7, <1>8, <1>12, <1>13, <1>14, <1>15, <1>16 DEF AliasInv

-----------------------------------------------------------------------------
(* Instances and rollouts *)

InstanceStep(i) == VerifyIndicesExist(i) \/ ReadAliasTarget(i) \/ MoveAlias(i) \/ Crash(i)

\* A step of an instance's startup, or its end, keeps its config; it moves the
\* alias where that config has it, or not at all; and the instance goes on to
\* serve only when it has moved the alias or read it in place.
LEMMA InstanceEffect ==
    ASSUME AliasTypeOK, NEW i \in Setup.instances, InstanceStep(i), Setup' = Setup
    PROVE  /\ UNCHANGED <<index, row, step, tool, check>>
           /\ InstanceType'
           /\ \A j \in Instances : inst'[j].config = inst[j].config /\ (j # i => inst'[j].pc = inst[j].pc)
           /\ (alias' = alias /\ used'.ahead = used.ahead) \/ (alias' = {Config(i).read} /\ used'.ahead = 0)
           /\ inst'[i].pc # "down" /\ inst[i].pc = "down" => \A v \in Config(i).versions : Exists(v)
           /\ inst'[i].pc = "serving" =>
                \/ alias' = {Config(i).read}
                \/ alias' = alias /\ (Config(i).read \in alias \/ Foreign \in alias)
  <1>. USE PlanFacts, AliasAnswers
  <1>1. i \in Instances /\ InstanceType /\ Plan' = Plan /\ UsedType
    BY DEF AliasTypeOK, Plan
  <1>2. Config(i).read \in Nat \ {0}
    BY <1>1 DEF Config, InstanceType
  <1>3. CASE VerifyIndicesExist(i)
    BY <1>1, <1>3 DEF VerifyIndicesExist, InstanceType
  <1>4. CASE ReadAliasTarget(i)
    <2>1. PICK seen \in GetAlias :
            inst' = [inst EXCEPT ![i].seen = seen,
                                 ![i].pc = IF PlanAliasMove(seen, Config(i).read) \in {"in-sync", "foreign"}
                                           THEN "serving" ELSE "move"]
      BY <1>4 DEF ReadAliasTarget
    <2>2. UNCHANGED <<alias, index, row, step, tool, check, used>> /\ inst[i].pc = "read"
      BY <1>4 DEF ReadAliasTarget
    <2>3. PlanAliasMove(seen, Config(i).read) \in {"in-sync", "foreign"} =>
            Config(i).read \in alias \/ Foreign \in alias
      <3>1. CASE seen \in {None, Foreign, Config(i).read}
        BY <3>1, <1>2 DEF PlanAliasMove, None, Foreign
      <3>2. CASE seen \notin {None, Foreign, Config(i).read}
        <4>1. seen \in Nat \ {0}
          BY <3>2, AliasAssumption DEF Answers
        <4>. QED  BY <4>1, <3>2, <1>2, MoveBetween
      <3>. QED  BY <3>1, <3>2
    <2>4. /\ \A j \in Instances : inst'[j].config = inst[j].config /\ (j # i => inst'[j].pc = inst[j].pc)
          /\ inst'[i].pc = IF PlanAliasMove(seen, Config(i).read) \in {"in-sync", "foreign"}
                           THEN "serving" ELSE "move"
      BY <2>1, <1>1 DEF InstanceType
    <2>5. InstanceType'
      <3>1. seen \in Answers
        BY <2>1
      <3>2. PICK p \in {"serving", "move"} : inst' = [inst EXCEPT ![i].seen = seen, ![i].pc = p]
        BY <2>1
      <3>3. inst' \in [Instances -> [config : 1 .. Len(Plan), pc : {"down", "read", "move", "serving"},
                                     seen : Answers]]
        BY <3>1, <3>2, <1>1 DEF InstanceType
      <3>. QED  BY <3>3, <1>1 DEF InstanceType
    <2>. QED  BY <2>2, <2>3, <2>4, <2>5
  <1>5. CASE MoveAlias(i)
    BY <1>1, <1>5 DEF MoveAlias, CreateAlias, InstanceType, UsedType
  <1>6. CASE Crash(i)
    <2>1. /\ inst' = [inst EXCEPT ![i].pc = "down", ![i].seen = None]
          /\ UNCHANGED <<index, row, step, tool, check>>
          /\ \/ alias' = alias /\ used' = [used EXCEPT !.crashes = @ + 1]
             \/ alias' = {Config(i).read} /\ used' = [used EXCEPT !.crashes = @ + 1, !.ahead = 0]
      BY <1>6 DEF Crash, Stopped, CreateAlias
    <2>2. None \in Answers
      BY DEF Answers
    <2>3. \A j \in Instances : inst'[j].config = inst[j].config /\ (j # i => inst'[j].pc = inst[j].pc)
      BY <2>1, <1>1 DEF InstanceType
    <2>4. inst'[i].pc = "down"
      BY <2>1, <1>1 DEF InstanceType
    <2>5. InstanceType'
      BY <2>1, <2>2, <1>1 DEF InstanceType
    <2>6. (alias' = alias /\ used'.ahead = used.ahead) \/ (alias' = {Config(i).read} /\ used'.ahead = 0)
      BY <2>1, <1>1 DEF UsedType
    <2>. QED  BY <2>1, <2>3, <2>4, <2>5, <2>6
  <1>. QED  BY <1>3, <1>4, <1>5, <1>6 DEF InstanceStep

\* The alias and what it serves stay in order through an instance's startup and
\* its end.
LEMMA InstanceStepKeeps ==
    ASSUME AliasInv, NEW i \in Setup.instances, InstanceStep(i), Setup' = Setup, AliasTypeOK,
           UsedType'
    PROVE  AliasInv' /\ (alias' = alias \/ alias' = {Config(i).read})
  <1>. USE PlanFacts, AliasAnswers
  <1>1. /\ UNCHANGED <<index, row, step, tool, check>> /\ InstanceType'
        /\ \A j \in Instances : inst'[j].config = inst[j].config /\ (j # i => inst'[j].pc = inst[j].pc)
        /\ (alias' = alias /\ used'.ahead = used.ahead) \/ (alias' = {Config(i).read} /\ used'.ahead = 0)
        /\ inst'[i].pc # "down" /\ inst[i].pc = "down" => \A v \in Config(i).versions : Exists(v)
        /\ inst'[i].pc = "serving" =>
             \/ alias' = {Config(i).read}
             \/ alias' = alias /\ (Config(i).read \in alias \/ Foreign \in alias)
    BY InstanceEffect
  <1>2. Plan' = Plan /\ i \in Instances /\ InstanceType /\ Near /\ Settled /\ LastMade /\ AheadKnows
    BY DEF AliasTypeOK, Plan, AliasInv
  <1>3. /\ AllNow' = AllNow /\ Now' = Now /\ Final' = Final
        /\ (\A v : Covered(v)' = Covered(v)) /\ (\A j \in Setup.instances : Config(j)' = Config(j))
        /\ used'.ahead = used.ahead => Ahead' = Ahead
    BY <1>1, <1>2 DEF AllNow, Now, Final, Covered, Config, Ahead
  <1>4. inst[i].config \in {step - 1, step} /\ inst[i].config \in 1 .. Len(Plan)
    BY <1>2 DEF Near, InstanceType
  <1>5. inst[i].config = step => Config(i).read = Now
    BY DEF Config, Now
  <1>6. AllNow /\ Placed => Placed'
    BY <1>1, <1>3, <1>5 DEF AllNow, Placed
  <1>7. Near'
    <2>1. \A j \in Setup.instances : inst'[j].config \in {step' - 1, step'}
      BY <1>1, <1>2 DEF Near
    <2>2. alias' = {Config(i).read} => alias' = {Now} \/ (step > 1 /\ alias' = {Plan[step - 1].read})
      <3>1. CASE inst[i].config = step
        BY <3>1, <1>5
      <3>2. CASE inst[i].config = step - 1
        BY <3>2, <1>4 DEF Config, AliasTypeOK
      <3>. QED  BY <3>1, <3>2, <1>4
    <2>. QED  BY <2>1, <2>2, <1>1, <1>2, <1>3 DEF Near
  <1>8. Settled'
    <2>1. SUFFICES ASSUME RolledOut'  PROVE Placed'
      BY DEF Settled
    <2>2. inst'[i].pc = "serving" /\ inst'[i].config = step
      BY <2>1, <1>1 DEF RolledOut
    <2>3. Config(i).read = Now
      BY <2>2, <1>1, <1>2, <1>5
    <2>4. CASE alias' = {Config(i).read}
      BY <2>3, <2>4, <1>3 DEF Placed
    <2>5. CASE alias' = alias /\ (Now \in alias \/ Foreign \in alias)
      <3>1. CASE Foreign \in Setup.alias /\ alias = Setup.alias
        BY <2>5, <3>1 DEF Placed
      <3>2. CASE ~(Foreign \in Setup.alias /\ alias = Setup.alias)
        <4>1. Foreign \notin {Now} /\ (step > 1 => Foreign \notin {Plan[step - 1].read})
          BY DEF Foreign, AliasTypeOK
        <4>2. alias = {Now}
          <5>1. CASE used.ahead # 0 /\ alias = {Ahead}
            BY <5>1, <2>5, <1>2, AheadFacts
          <5>. QED  BY <5>1, <2>5, <3>2, <4>1, <1>2 DEF Near
        <4>. QED  BY <2>5, <4>2, <1>3 DEF Placed
      <3>. QED  BY <3>1, <3>2
    <2>. QED  BY <2>2, <2>3, <2>4, <2>5, <1>1
  <1>14. AheadKnows'
    <2>1. CASE used'.ahead = 0
      BY <2>1 DEF AheadKnows
    <2>2. CASE alias' = alias /\ used'.ahead = used.ahead /\ used.ahead # 0
      <3>1. Ahead # Foreign /\ alias = {Ahead} /\ Config(i).read \in Config(i).versions
        BY <2>2, <1>2, <1>4, AheadFacts DEF AheadKnows, Config
      <3>2. inst'[i].pc = "serving" => Ahead \in Config(i).versions
        BY <2>2, <3>1, <1>1
      <3>3. \A j \in Setup.instances :
               inst'[j].config < step \/ inst'[j].pc = "serving" => Ahead \in Config(j).versions
        BY <2>2, <3>2, <1>1, <1>2 DEF AheadKnows
      <3>. QED  BY <2>2, <3>3, <1>1, <1>2, <1>3 DEF AheadKnows
    <2>. QED  BY <2>1, <2>2, <1>1
  <1>9. ToolKnows' /\ ToolType'
    BY <1>1, <1>2, <1>3, <1>6 DEF AliasInv, AliasTypeOK, ToolKnows, ToolType
  <1>10. CheckKnows' /\ CheckType'
    BY <1>1, <1>2, <1>3, <1>6 DEF AliasInv, AliasTypeOK, CheckKnows, CheckType, Target
  <1>11. HeldWhole' /\ SetsAnswered'
    <2>1. \A v : Held(v)' => Held(v)
      BY <1>1, <1>2, <1>3 DEF Held, Lasting
    <2>. QED  BY <2>1, <1>1, HeldShrinks
  <1>12. LastMade'
    <2>1. SUFFICES ASSUME NEW v \in Final.versions, NEW j \in Setup.instances,
                          inst'[j].pc # "down", v \in Config(j).versions
                   PROVE  index[v].made = "mapped"
      BY <1>1, <1>2, <1>3 DEF LastMade
    <2>2. CASE inst[j].pc # "down"
      BY <2>1, <2>2, <1>2 DEF LastMade
    <2>3. CASE inst[j].pc = "down"
      <3>1. j = i /\ Exists(v)
        BY <2>1, <2>3, <1>1
      <3>2. v \in Versions /\ index[v].made \in {"no", "mapped", "dynamic"}
        <4>1. v \in Versions
          BY <2>1 DEF Final
        <4>. QED  BY <4>1 DEF AliasTypeOK
      <3>. QED  BY <3>1, <3>2, <1>2 DEF Exists, LastMade
    <2>. QED  BY <2>2, <2>3
  <1>13. AliasTypeOK'
    <2>1. Config(i).read \in Versions
      BY <1>4 DEF Config
    <2>. QED  BY <2>1, <1>1, <1>2, <1>9, <1>10 DEF AliasTypeOK
  <1>. QED  BY <1>1, <1>7, <1>8, <1>9, <1>10, <1>11, <1>12, <1>13, <1>14 DEF AliasInv

\* The rollout's next instance: no tool that looked at the finished rollout is
\* running, and no check or verdict of it is left.
LEMMA UpgradeKeeps ==
    ASSUME AliasInv, NEW i \in Setup.instances, Upgrade(i), Setup' = Setup, AliasTypeOK
    PROVE  AliasInv'
  <1>. USE PlanFacts, AliasAnswers
  <1>1. UNCHANGED <<alias, index, row, step, tool, check, used>> /\ Plan' = Plan /\ inst[i].config < step
        /\ inst' = [inst EXCEPT ![i] = [config |-> step, pc |-> "down", seen |-> None]]
    BY DEF Upgrade, Plan
  <1>2. i \in Instances /\ InstanceType /\ Near
    BY DEF AliasTypeOK, AliasInv
  <1>3. /\ Now' = Now /\ Placed' = Placed /\ Final' = Final
        /\ \A v : Covered(v)' = Covered(v)
    BY <1>1 DEF Now, Placed, Final, Covered, Ahead
  <1>4. inst'[i].pc = "down" /\ inst'[i].config = step /\ \A j \in Instances \ {i} : inst'[j] = inst[j]
    BY <1>1, <1>2 DEF InstanceType
  <1>5. ~AllNow /\ ~RolledOut'
    BY <1>1, <1>4, <1>2 DEF AllNow, RolledOut, InstanceType, AliasTypeOK
  <1>6. Near' /\ Settled' /\ AheadKnows'
    <2>1. Ahead' = Ahead /\ AheadKnows
      BY <1>1 DEF Ahead, AliasInv
    <2>2. \A j \in Setup.instances : inst'[j].config < step \/ inst'[j].pc = "serving" => inst'[j] = inst[j]
      BY <1>2, <1>4 DEF AliasTypeOK
    <2>3. AheadKnows'
      BY <2>1, <2>2, <1>1, <1>3 DEF AheadKnows, Config
    <2>. QED  BY <2>1, <2>3, <1>1, <1>2, <1>3, <1>4, <1>5 DEF Near, Settled
  <1>7. ToolKnows' /\ CheckKnows'
    BY <1>1, <1>3, <1>5 DEF AliasInv, ToolKnows, CheckKnows
  <1>8. HeldWhole' /\ SetsAnswered'
    <2>1. \A v : Held(v)' => Held(v)
      BY <1>1, <1>3, <1>4 DEF Held, Lasting, Config, Now
    <2>. QED  BY <2>1, <1>1, HeldShrinks
  <1>9. LastMade'
    BY <1>1, <1>3, <1>4 DEF AliasInv, LastMade, Config
  <1>10. InstanceType'
    <2>1. [config |-> step, pc |-> "down", seen |-> None]
             \in [config : 1 .. Len(Plan), pc : {"down", "read", "move", "serving"}, seen : Answers]
      BY DEF Answers, AliasTypeOK
    <2>. QED  BY <2>1, <1>1, <1>2 DEF InstanceType
  <1>11. AliasTypeOK'
    BY <1>1, <1>10 DEF AliasTypeOK, UsedType, ToolType, CheckType
  <1>. QED  BY <1>6, <1>7, <1>8, <1>9, <1>11 DEF AliasInv

\* The next config is rolled out on a check's verdict, so that what it reads is
\* whole by then.
LEMMA DeployKeeps ==
    ASSUME AliasInv, Deploy, Setup' = Setup, AliasTypeOK
    PROVE  AliasInv'
  <1>. USE PlanFacts, AliasAnswers
  <1>1. /\ UNCHANGED <<alias, index, row, inst, tool, used>> /\ Plan' = Plan
        /\ step' = step + 1 /\ check' = NoCheck /\ RolledOut /\ tool.pc = "idle"
        /\ step \in 1 .. Len(Plan) - 1
    BY DEF Deploy, Plan, AliasTypeOK
  <1>2. /\ Now' = Plan[step + 1].read /\ Final' = Final /\ (\A v : Covered(v)' = Covered(v))
        /\ \A j : Config(j)' = Config(j)
    BY <1>1 DEF Now, Final, Covered, Config
  <1>15. Ahead' = Ahead /\ AheadKnows
    BY <1>1 DEF Ahead, AliasInv
  <1>3. (\A i \in Setup.instances : inst[i].config = step /\ inst[i].pc = "serving") /\ Placed
    BY <1>1 DEF RolledOut, AliasInv, Settled
  <1>4. PICK i \in Setup.instances : TRUE
    OBVIOUS
  <1>5. ~RolledOut'
    <2>1. inst'[i].config # step' /\ i \in Setup'.instances
      BY <1>1, <1>3, <1>4
    <2>. QED  BY <2>1 DEF RolledOut
  <1>6. Near'
    <2>1. \A j \in Setup.instances : inst'[j].config \in {step' - 1, step'}
      <3>1. step' - 1 = step
        BY <1>1
      <3>. QED  BY <3>1, <1>1, <1>3
    <2>2. Now = Plan[step' - 1].read /\ step' > 1
      BY <1>1 DEF Now
    <2>. QED  BY <2>1, <2>2, <1>1, <1>3, <1>15 DEF Near, Placed
  <1>16. AheadKnows'
    <2>1. used.ahead # 0 => \A j \in Setup.instances : Ahead \in Config(j).versions
      BY <1>3, <1>15 DEF AheadKnows
    <2>2. used.ahead # 0 => used.ahead < step'
      BY <1>1, <1>15, AheadFacts
    <2>. QED  BY <2>1, <2>2, <1>1, <1>2, <1>15 DEF AheadKnows
  <1>7. ToolKnows'
    BY <1>1 DEF AliasInv, ToolKnows
  <1>8. CheckKnows' /\ CheckType'
    BY <1>1 DEF CheckKnows, CheckType, NoCheck, Answers
  <1>9. Now' = Now \/ (Now' \in Final.versions /\ index[Now'].made = "mapped" /\ Covered(Now'))
    <2>1. SUFFICES ASSUME Plan[step + 1].read # Now
                   PROVE  /\ Plan[step + 1].read \in Final.versions
                          /\ index[Plan[step + 1].read].made = "mapped" /\ Covered(Plan[step + 1].read)
      BY <1>2
    <2>2. check.passed = step + 1
      BY <2>1 DEF Deploy, Now
    <2>3. Covered(Plan[step + 1].read)
      BY <2>1, <2>2, <1>1 DEF AliasInv, CheckKnows
    <2>4. Plan[step + 1].read \in Final.versions
      <3>1. step + 1 \in 1 .. Len(Plan) /\ step \in 1 .. step + 1
        BY <1>1
      <3>. QED  BY <2>1, <3>1 DEF Now
    <2>5. Plan[step + 1].read \in Config(i).versions
      BY <1>1, <1>3, <1>4 DEF Config
    <2>. QED  BY <2>3, <2>4, <2>5, <1>3, <1>4 DEF AliasInv, LastMade
  <1>10. \A v : Held(v)' => Held(v) \/ v = Now'
    <2>1. SUFFICES ASSUME NEW v, Lasting(v)'  PROVE Lasting(v) \/ v = Now'
      BY <1>1, <1>2 DEF Held
    <2>2. PICK c \in 1 .. step + 1 : Plan[c].read = v /\ \A m \in c .. step + 1 : v \in Plan[m].versions
      BY <2>1, <1>1 DEF Lasting
    <2>3. CASE c = step + 1
      BY <2>2, <2>3, <1>2
    <2>4. CASE c # step + 1
      <3>1. c \in 1 .. step /\ \A m \in c .. step : m \in c .. step + 1
        BY <2>4, <1>1
      <3>. QED  BY <2>1, <2>2, <3>1, <1>2 DEF Lasting
    <2>. QED  BY <2>3, <2>4
  <1>11. HeldWhole'
    BY <1>1, <1>2, <1>9, <1>10 DEF AliasInv, HeldWhole, Held
  <1>12. SetsAnswered'
    <2>1. \A v, r : Answer(v, r)' = Answer(v, r)
      BY <1>1 DEF Answer
    <2>2. \A v : Held(v)' \/ v \in Final.versions => Held(v) \/ v \in Final.versions
      BY <1>9, <1>10 DEF Held
    <2>. QED  BY <2>1, <2>2, <1>1, <1>2 DEF AliasInv, SetsAnswered
  <1>13. LastMade'
    BY <1>1, <1>2 DEF AliasInv, LastMade
  <1>14. AliasTypeOK'
    BY <1>1, <1>8 DEF AliasTypeOK, UsedType, ToolType, InstanceType
  <1>. QED  BY <1>5, <1>6, <1>7, <1>8, <1>11, <1>12, <1>13, <1>14, <1>16 DEF AliasInv, Settled

-----------------------------------------------------------------------------
(* Changes, builds and the backfill *)

\* What a step that writes only rows and indices has to show.
LEMMA WriteFrame ==
    ASSUME AliasInv, Setup' = Setup, AliasTypeOK, UNCHANGED <<alias, inst, step, tool, check>>,
           used'.ahead = used.ahead, AllNow => \A v \in Plan[step].versions : Covered(v) => Covered(v)'
    PROVE  /\ Near' /\ Settled' /\ AheadKnows' /\ ToolKnows' /\ CheckKnows'
           /\ InstanceType' /\ ToolType' /\ CheckType' /\ step' \in 1 .. Len(Plan)'
           /\ Plan' = Plan /\ Final' = Final /\ (\A i : Config(i)' = Config(i))
           /\ \A v : Held(v)' = Held(v)
  <1>. USE PlanFacts, AliasAnswers
  <1>1. Plan' = Plan
    BY DEF Plan
  <1>2. /\ AllNow' = AllNow /\ Placed' = Placed /\ Now' = Now /\ Final' = Final /\ RolledOut' = RolledOut
        /\ (\A i : Config(i)' = Config(i)) /\ Ahead' = Ahead
    BY <1>1 DEF AllNow, Placed, Now, Final, RolledOut, Config, Ahead
  <1>3. \A v : Held(v)' = Held(v)
    BY <1>1, <1>2 DEF Held, Lasting
  <1>4. Near' /\ Settled' /\ AheadKnows'
    BY <1>1, <1>2 DEF AliasInv, Near, Settled, AheadKnows
  <1>5. ToolKnows'
    BY <1>1, <1>2 DEF AliasInv, ToolKnows
  <1>6. InstanceType' /\ ToolType' /\ CheckType' /\ step' \in 1 .. Len(Plan)'
    BY <1>1 DEF AliasTypeOK, InstanceType, ToolType, CheckType
  <1>7. \A c \in 1 .. Len(Plan) : c \in {step, step + 1} => Plan[c].read \in Plan[step].versions
    BY DEF AliasTypeOK
  <1>8. CheckKnows'
    <2>1. CheckKnows /\ CheckType /\ Target' = Target
      BY <1>1 DEF AliasInv, AliasTypeOK, Target
    <2>2. AllNow /\ check.pc # "idle" /\ check.config \in {step, step + 1} /\ check.config # 0 =>
            Target \in Plan[step].versions
      BY <2>1, <1>7 DEF Target, CheckType
    <2>3. AllNow /\ check.passed # 0 /\ check.passed \in {step, step + 1} =>
            Plan[check.passed].read \in Plan[step].versions
      BY <2>1, <1>7 DEF CheckType
    <2>. QED  BY <2>1, <2>2, <2>3, <1>1, <1>2 DEF CheckKnows
  <1>. QED  BY <1>1, <1>2, <1>3, <1>4, <1>5, <1>6, <1>8

RowType == row \in [Rows -> [content : Nat, stale : {"no", "new", "old"}, sets : SUBSET Versions]]

\* A registration and the passing of time leave a clean row and its sets alone.
LEMMA ChangeKeeps ==
    ASSUME AliasInv, NEW r \in Setup.rows, Change(r) \/ Age(r), Setup' = Setup, AliasTypeOK,
           UsedType'
    PROVE  AliasInv'
  <1>. USE PlanFacts
  <1>1. UNCHANGED <<alias, index, inst, step, tool, check>> /\ r \in Rows /\ RowType
    BY DEF Change, Age, AliasTypeOK, RowType
  <1>2. /\ RowType'
        /\ \A x \in Rows : row'[x].sets = row[x].sets /\ (row'[x].stale = "no" => row'[x] = row[x])
    <2>1. CASE Change(r)
      <3>1. PICK st \in {"new", "old"} : row' = [row EXCEPT ![r].content = @ + 1, ![r].stale = st]
        BY <2>1, <1>1 DEF Change, RowType
      <3>2. RowType'
        <4>. DEFINE Rec == [content : Nat, stale : {"no", "new", "old"}, sets : SUBSET Versions]
        <4>1. row \in [Rows -> Rec] /\ row[r] \in Rec
          BY <1>1 DEF RowType
        <4>2. row[r].content + 1 \in Nat
          BY <4>1
        <4>3. PICK c \in Nat : row' = [row EXCEPT ![r].content = c, ![r].stale = st]
          BY <3>1, <4>2
        <4>. QED  BY <4>1, <4>3, <1>1 DEF RowType
      <3>3. row'[r].sets = row[r].sets /\ row'[r].stale = st
        BY <3>1, <1>1 DEF RowType
      <3>4. \A x \in Rows \ {r} : row'[x] = row[x]
        BY <3>1, <1>1 DEF RowType
      <3>. QED  BY <3>2, <3>3, <3>4
    <2>2. CASE Age(r)
      BY <2>2, <1>1 DEF Age, RowType
    <2>. QED  BY <2>1, <2>2
  <1>3. \A v : Covered(v) => Covered(v)'
    BY <1>2 DEF Covered
  <1>4. /\ Near' /\ Settled' /\ AheadKnows' /\ ToolKnows' /\ CheckKnows'
        /\ InstanceType' /\ ToolType' /\ CheckType' /\ step' \in 1 .. Len(Plan)'
        /\ Final' = Final /\ (\A i : Config(i)' = Config(i)) /\ \A v : Held(v)' = Held(v)
    BY <1>1, <1>3, WriteFrame, AheadStays
  <1>5. LastMade'
    BY <1>1, <1>4 DEF AliasInv, LastMade
  <1>6. HeldWhole'
    BY <1>1, <1>3, <1>4 DEF AliasInv, HeldWhole
  <1>7. SetsAnswered'
    BY <1>1, <1>2, <1>4 DEF AliasInv, SetsAnswered, Answer
  <1>8. AliasTypeOK'
    BY <1>1, <1>2, <1>4 DEF AliasTypeOK, RowType
  <1>. QED  BY <1>4, <1>5, <1>6, <1>7, <1>8 DEF AliasInv

IndexType == index \in [Versions -> [made : {"no", "mapped", "dynamic"}, doc : [Rows -> Nat]]]

\* What a write of a resource's document leaves in an index.
LEMMA WroteFacts ==
    ASSUME AliasTypeOK, NEW v \in Versions, NEW r \in Rows
    PROVE  /\ Wrote(v, r) \in [made : {"no", "mapped", "dynamic"}, doc : [Rows -> Nat]]
           /\ Exists(v) => Wrote(v, r).made = index[v].made
           /\ Wrote(v, r).doc[r] = Answer(v, r)
           /\ \A x \in Rows \ {r} : Wrote(v, r).doc[x] = index[v].doc[x]
  <1>1. index[v] \in [made : {"no", "mapped", "dynamic"}, doc : [Rows -> Nat]] /\ row[r].content \in Nat
    BY DEF AliasTypeOK
  <1>2. Answer(v, r) \in Nat
    BY <1>1 DEF Answer
  <1>. QED  BY <1>1, <1>2 DEF Wrote

\* Every serving instance writes what is read.
LEMMA HeldConfigured ==
    ASSUME AliasInv, NEW i \in Setup.instances, inst[i].pc = "serving", NEW v \in Versions, Held(v)
    PROVE  v \in Config(i).versions
  <1>. USE PlanFacts, AliasAnswers
  <1>1. AliasTypeOK /\ Near /\ step \in 1 .. Len(Plan)
    BY DEF AliasInv, AliasTypeOK
  <1>2. \A j \in Setup.instances : inst[j].config \in {step - 1, step} /\ inst[j].config \in 1 .. Len(Plan)
    BY <1>1 DEF AliasTypeOK, InstanceType, Near
  <1>3. \A c \in 1 .. Len(Plan), d \in 1 .. Len(Plan) :
            c \in {step - 1, step} /\ d \in {step - 1, step} => Plan[c].read \in Plan[d].versions
    <2>1. SUFFICES ASSUME NEW c \in 1 .. Len(Plan), NEW d \in 1 .. Len(Plan),
                          c \in {step - 1, step}, d \in {step - 1, step}
                   PROVE  Plan[c].read \in Plan[d].versions
      OBVIOUS
    <2>2. CASE c = d
      BY <2>2, <1>1
    <2>3. CASE c = step - 1 /\ d = step
      BY <2>3, <1>1
    <2>4. CASE c = step /\ d = step - 1
      BY <2>4, <1>1
    <2>. QED  BY <2>1, <2>2, <2>3, <2>4
  <1>4. CASE v = Now
    BY <1>1, <1>2, <1>3, <1>4 DEF Now, Config
  <1>5. CASE \E j \in Setup.instances : Config(j).read = v
    BY <1>2, <1>3, <1>5 DEF Config
  <1>6. CASE v \in alias
    <2>1. v # Foreign
      BY AliasAssumption DEF Foreign
    <2>2. CASE step > 1 /\ alias = {Plan[step - 1].read}
      BY <2>2, <1>1, <1>2, <1>3, <1>6 DEF Config
    <2>3. CASE Foreign \in Setup.alias /\ alias = Setup.alias
      <3>1. v = Plan[1].read /\ Len(Plan) = 1
        BY <2>1, <2>3, <1>1, <1>6
      <3>. QED  BY <3>1, <1>1, <1>4 DEF Now
    <2>4. CASE used.ahead # 0 /\ alias = {Ahead}
      BY <2>4, <1>6 DEF AliasInv, AheadKnows
    <2>. QED  BY <2>2, <2>3, <2>4, <1>1, <1>4, <1>6 DEF Near
  <1>7. CASE Lasting(v)
    <2>1. PICK c \in 1 .. step : Plan[c].read = v /\ \A m \in c .. step : v \in Plan[m].versions
      BY <1>7 DEF Lasting
    <2>2. CASE c = step
      BY <2>1, <2>2, <1>4 DEF Now
    <2>3. CASE c # step
      <3>1. inst[i].config \in c .. step
        BY <2>3, <1>1, <1>2
      <3>. QED  BY <2>1, <3>1 DEF Config
    <2>. QED  BY <2>2, <2>3
  <1>. QED  BY <1>4, <1>5, <1>6, <1>7 DEF Held

\* A live build.
LEMMA BuildKeeps ==
    ASSUME AliasInv, NEW i \in Setup.instances, NEW r \in Setup.rows, Build(i, r), Setup' = Setup, AliasTypeOK
    PROVE  AliasInv'
  <1>. USE PlanFacts
  <1>1. /\ UNCHANGED <<alias, inst, step, tool, check, used>> /\ r \in Rows /\ RowType /\ IndexType
        /\ inst[i].pc = "serving" /\ inst[i].config \in 1 .. Len(Plan)
    BY DEF Build, AliasTypeOK, RowType, IndexType, InstanceType
  <1>2. Config(i).versions \subseteq Versions
    BY <1>1 DEF Config
  <1>3. /\ RowType'
        /\ row'[r].sets = Config(i).versions /\ row'[r].content = row[r].content
        /\ \A x \in Rows \ {r} : row'[x] = row[x]
    BY <1>1, <1>2 DEF Build, RowType
  <1>4. \A v \in Versions : index'[v] = IF v \in Config(i).versions THEN Wrote(v, r) ELSE index[v]
    BY DEF Build
  <1>5. IndexType'
    <2>1. index' = [v \in Versions |-> IF v \in Config(i).versions THEN Wrote(v, r) ELSE index[v]]
      BY DEF Build
    <2>. QED  BY <2>1, <1>1, WroteFacts DEF IndexType
  <1>6. \A v : Covered(v) /\ v \in Config(i).versions => Covered(v)'
    BY <1>1, <1>3 DEF Covered
  <1>7. \A v \in Versions : Held(v) => v \in Config(i).versions
    BY <1>1, HeldConfigured
  <1>8. /\ Near' /\ Settled' /\ AheadKnows' /\ ToolKnows' /\ CheckKnows'
        /\ InstanceType' /\ ToolType' /\ CheckType' /\ step' \in 1 .. Len(Plan)'
        /\ Final' = Final /\ (\A j : Config(j)' = Config(j)) /\ \A v : Held(v)' = Held(v)
    <2>1. AllNow => \A v \in Plan[step].versions : Covered(v) => Covered(v)'
      BY <1>6 DEF AllNow, Config
    <2>. QED  BY <2>1, <1>1, WriteFrame
  <1>9. \A v \in Versions : index[v].made = "mapped" => index'[v].made = "mapped"
    BY <1>1, <1>4, WroteFacts DEF Exists
  <1>10. LastMade'
    <2>1. SUFFICES ASSUME NEW v \in Final.versions
                   PROVE  /\ index'[v].made # "dynamic"
                          /\ \A j \in Setup.instances :
                                inst[j].pc # "down" /\ v \in Config(j).versions => index'[v].made = "mapped"
      BY <1>1, <1>8 DEF LastMade
    <2>2. v \in Versions
      BY DEF Final
    <2>3. LastMade
      BY DEF AliasInv
    <2>4. CASE v \in Config(i).versions
      BY <2>2, <2>3, <2>4, <1>1, <1>9 DEF LastMade
    <2>5. CASE v \notin Config(i).versions
      BY <2>2, <2>3, <2>5, <1>4 DEF LastMade
    <2>. QED  BY <2>4, <2>5
  <1>11. HeldWhole'
    BY <1>6, <1>7, <1>8, <1>9 DEF AliasInv, HeldWhole
  <1>12. SetsAnswered'
    <2>1. SUFFICES ASSUME NEW v \in Versions, NEW x \in Setup.rows, v \in Final.versions \/ Held(v),
                          row'[x].stale = "no", v \in row'[x].sets
                   PROVE  index'[v].doc[x] = Answer(v, x)'
      BY <1>8 DEF SetsAnswered
    <2>2. Answer(v, x)' = Answer(v, x)
      BY <1>3 DEF Answer
    <2>3. CASE x = r
      BY <2>1, <2>2, <2>3, <1>1, <1>3, <1>4, WroteFacts
    <2>4. CASE x # r
      <3>1. index'[v].doc[x] = index[v].doc[x]
        BY <2>1, <2>4, <1>1, <1>4, WroteFacts
      <3>. QED  BY <2>1, <2>2, <2>4, <3>1, <1>3 DEF AliasInv, SetsAnswered
    <2>. QED  BY <2>3, <2>4
  <1>13. AliasTypeOK'
    BY <1>1, <1>3, <1>5, <1>8 DEF AliasTypeOK, UsedType, RowType, IndexType
  <1>. QED  BY <1>8, <1>10, <1>11, <1>12, <1>13 DEF AliasInv

\* One row of the backfill: it writes an index that was created with its
\* mapping, and clears no mark.
LEMMA BackfillKeeps ==
    ASSUME AliasInv, NEW r \in Setup.rows, NEW v \in Versions, Backfill(r, v), Setup' = Setup, AliasTypeOK
    PROVE  AliasInv'
  <1>. USE PlanFacts
  <1>1. /\ UNCHANGED <<alias, inst, step, tool, check, used>> /\ r \in Rows /\ RowType /\ IndexType
        /\ RolledOut /\ v \in Plan[step].versions /\ v \notin row[r].sets
    BY DEF Backfill, AliasTypeOK, RowType, IndexType
  <1>2. /\ RowType'
        /\ row'[r].sets = row[r].sets \cup {v} /\ row'[r].content = row[r].content
        /\ row'[r].stale = row[r].stale
        /\ \A x \in Rows \ {r} : row'[x] = row[x]
    BY <1>1 DEF Backfill, RowType
  <1>3. /\ index' = [index EXCEPT ![v] = Wrote(v, r)]
        /\ index'[v] = Wrote(v, r) /\ \A w \in Versions \ {v} : index'[w] = index[w]
    BY <1>1 DEF Backfill, IndexType
  <1>4. IndexType'
    BY <1>1, <1>3, WroteFacts DEF IndexType
  <1>5. \A w : Covered(w) => Covered(w)'
    BY <1>1, <1>2 DEF Covered
  <1>6. /\ Near' /\ Settled' /\ AheadKnows' /\ ToolKnows' /\ CheckKnows'
        /\ InstanceType' /\ ToolType' /\ CheckType' /\ step' \in 1 .. Len(Plan)'
        /\ Final' = Final /\ (\A j : Config(j)' = Config(j)) /\ \A w : Held(w)' = Held(w)
    BY <1>1, <1>5, WriteFrame
  <1>7. \A w \in Versions : index[w].made = "mapped" => index'[w].made = "mapped"
    <2>1. index[v].made = "mapped" => Wrote(v, r).made = "mapped"
      BY <1>1, WroteFacts DEF Exists
    <2>. QED  BY <2>1, <1>3
  <1>8. v \in Final.versions => index[v].made = "mapped"
    <2>1. PICK i \in Setup.instances : inst[i].pc = "serving" /\ inst[i].config = step
      BY <1>1 DEF RolledOut
    <2>. QED  BY <2>1, <1>1 DEF AliasInv, LastMade, Config
  <1>9. LastMade'
    <2>1. \A w \in Final.versions : w \in Versions /\ (index'[w].made = index[w].made \/ index'[w].made = "mapped")
      BY <1>3, <1>7, <1>8 DEF Final
    <2>. QED  BY <2>1, <1>1, <1>6 DEF AliasInv, LastMade
  <1>10. HeldWhole'
    BY <1>5, <1>6, <1>7 DEF AliasInv, HeldWhole
  <1>11. SetsAnswered'
    <2>1. SUFFICES ASSUME NEW w \in Versions, NEW x \in Setup.rows, w \in Final.versions \/ Held(w),
                          row'[x].stale = "no", w \in row'[x].sets
                   PROVE  index'[w].doc[x] = Answer(w, x)'
      BY <1>6 DEF SetsAnswered
    <2>2. Answer(w, x)' = Answer(w, x)
      BY <1>2 DEF Answer
    <2>3. CASE w = v /\ x = r
      BY <2>2, <2>3, <1>1, <1>3, WroteFacts
    <2>4. CASE w # v \/ x # r
      <3>1. index'[w].doc[x] = index[w].doc[x]
        BY <2>4, <1>1, <1>3, WroteFacts
      <3>2. w \in row[x].sets /\ row[x].stale = "no"
        BY <2>1, <2>4, <1>2
      <3>. QED  BY <2>1, <2>2, <3>1, <3>2 DEF AliasInv, SetsAnswered
    <2>. QED  BY <2>3, <2>4
  <1>12. AliasTypeOK'
    BY <1>1, <1>2, <1>4, <1>6 DEF AliasTypeOK, UsedType, RowType, IndexType
  <1>. QED  BY <1>6, <1>9, <1>10, <1>11, <1>12 DEF AliasInv

-----------------------------------------------------------------------------
(* The invariant *)

\* It holds when the first config's indices are all there is.
LEMMA AliasInvInit == AliasInit => AliasInv
  <1>. SUFFICES ASSUME AliasInit  PROVE AliasInv
    OBVIOUS
  <1>1. PICK s \in 1 .. Len(Setups) : 
            used = [setup |-> s, changes |-> 0, aged |-> 0, crashes |-> 0, tools |-> 0, ahead |-> 0]
    BY DEF AliasInit
  <1>2. used.setup \in 1 .. Len(Setups)
        /\ UsedType /\ used.ahead = 0
    BY <1>1 DEF UsedType
  <1>3. IsSetup(Setup)
    BY <1>2, AliasAssumption DEF Setup
  <1>4. IsPlan(Plan) /\ Len(Plan) \in Nat \ {0}
    BY <1>3 DEF IsSetup, IsPlan, Plan
  <1>5. /\ alias = Setup.alias /\ step = 1 /\ tool = NoTool /\ check = NoCheck
        /\ inst = [i \in Instances |-> [config |-> 1, pc |-> "down", seen |-> None]]
        /\ row = [r \in Rows |-> [content |-> 1, stale |-> IF r \in Setup.unbuilt THEN "new" ELSE "no",
                                  sets |-> IF r \in Setup.unbuilt THEN {} ELSE Plan[1].versions]]
        /\ index = [v \in Versions |->
                      IF v \in Plan[1].versions
                      THEN [made |-> "mapped",
                            doc  |-> [r \in Rows |-> IF r \in Setup.rows \ Setup.unbuilt
                                                        /\ <<v, r, 1>> \notin Setup.excluded THEN 1 ELSE 0]]
                      ELSE [made |-> "no", doc |-> NoDocs]]
    BY DEF AliasInit
  <1>6. Plan[1].versions \subseteq Versions /\ Plan[1].read \in Plan[1].versions
    BY <1>4 DEF IsPlan
  <1>7. AliasTypeOK
    <2>1. alias \subseteq Versions \cup {Foreign}
      BY <1>3, <1>5, <1>6 DEF IsSetup, Plan
    <2>2. index \in [Versions -> [made : {"no", "mapped", "dynamic"}, doc : [Rows -> Nat]]]
      BY <1>5 DEF NoDocs
    <2>3. row \in [Rows -> [content : Nat, stale : {"no", "new", "old"}, sets : SUBSET Versions]]
      BY <1>5, <1>6
    <2>4. InstanceType /\ ToolType /\ CheckType
      BY <1>4, <1>5 DEF InstanceType, ToolType, CheckType, NoTool, NoCheck, Answers
    <2>. QED  BY <2>1, <2>2, <2>3, <2>4, <1>2, <1>4, <1>5 DEF AliasTypeOK
  <1>. USE PlanFacts
  <1>8. Now = Plan[1].read
    BY <1>5 DEF Now
  <1>9. Near
    <2>1. Setup.alias = {} \/ Setup.alias = {Now} \/ Foreign \in Setup.alias
      BY <1>7, <1>8
    <2>2. \A i \in Setup.instances : inst[i].config = step
      BY <1>5, <1>7
    <2>. QED  BY <2>1, <2>2, <1>5 DEF Near
  <1>10. Settled /\ AheadKnows
    BY <1>2, <1>5, <1>7 DEF Settled, RolledOut, AheadKnows
  <1>11. ToolKnows /\ CheckKnows
    BY <1>5 DEF ToolKnows, CheckKnows, NoTool, NoCheck
  <1>12. LastMade
    <2>1. \A v \in Final.versions : v \in Versions
      BY <1>7 DEF Final
    <2>. QED  BY <2>1, <1>5, <1>7 DEF LastMade
  <1>13. \A v \in Versions : Held(v) => v = Plan[1].read
    <2>1. \A v \in Versions : v # Foreign
      BY AliasAssumption DEF Foreign
    <2>2. \A v : Lasting(v) => v = Plan[1].read
      BY <1>5 DEF Lasting
    <2>. QED  BY <2>1, <2>2, <1>5, <1>7, <1>8 DEF Held, Config
  <1>14. HeldWhole
    BY <1>5, <1>6, <1>7, <1>13 DEF HeldWhole, Covered
  <1>15. SetsAnswered
    <2>1. SUFFICES ASSUME NEW v \in Versions, NEW r \in Setup.rows, row[r].stale = "no", v \in row[r].sets
                   PROVE  index[v].doc[r] = Answer(v, r)
      BY DEF SetsAnswered
    <2>2. r \in Rows /\ r \notin Setup.unbuilt /\ v \in Plan[1].versions /\ row[r].content = 1
      BY <2>1, <1>5, <1>7
    <2>3. index[v].doc[r] = IF <<v, r, 1>> \notin Setup.excluded THEN 1 ELSE 0
      BY <2>1, <2>2, <1>5
    <2>. QED  BY <2>2, <2>3 DEF Answer
  <1>. QED  BY <1>7, <1>9, <1>10, <1>11, <1>12, <1>14, <1>15 DEF AliasInv

\* Every step keeps it.
LEMMA AliasInvNext == AliasInv /\ AliasNext => AliasInv'
  <1>. SUFFICES ASSUME AliasInv, AliasNext  PROVE AliasInv'
    OBVIOUS
  <1>1. AliasTypeOK
    BY DEF AliasInv
  <1>2. /\ Setup' = Setup /\ Plan' = Plan
        /\ UsedType'
    BY <1>1, SetupStays
  <1>3. CASE \E i \in Setup.instances : InstanceStep(i)
    BY <1>1, <1>2, <1>3, InstanceStepKeeps
  <1>4. CASE \E i \in Setup.instances : Upgrade(i)
    BY <1>1, <1>2, <1>4, UpgradeKeeps
  <1>5. CASE \E i \in Setup.instances, r \in Setup.rows : Build(i, r)
    BY <1>1, <1>2, <1>5, BuildKeeps
  <1>6. CASE \E r \in Setup.rows : Change(r) \/ Age(r)
    BY <1>1, <1>2, <1>6, ChangeKeeps
  <1>7. CASE \E r \in Setup.rows, v \in Versions : Backfill(r, v)
    BY <1>1, <1>2, <1>7, BackfillKeeps
  <1>8. CASE Deploy
    BY <1>1, <1>2, <1>8, DeployKeeps
  <1>9. CASE StartMapping \/ ToolReads \/ StartCleanup
    <2>1. UNCHANGED <<alias, index, row, inst, step, check>>
      BY <1>9 DEF StartMapping, ToolReads, StartCleanup
    <2>2. /\ Near' /\ Settled' /\ AheadKnows' /\ LastMade' /\ HeldWhole' /\ SetsAnswered'
          /\ AllNow' = AllNow /\ Placed' = Placed /\ Now' = Now /\ \A v : Covered(v)' = Covered(v)
      BY <2>1, <1>1, <1>2, <1>9, SameWorld, AheadStays
    <2>3. ToolType' /\ ToolKnows'
      BY <1>1, <1>2, <1>9, ToolStepKeeps
    <2>4. CheckKnows'
      BY <2>1, <2>2, <1>2 DEF AliasInv, CheckKnows, Target
    <2>5. AliasTypeOK'
      BY <2>1, <2>3, <1>1, <1>2 DEF AliasTypeOK, InstanceType, CheckType
    <2>. QED  BY <2>2, <2>3, <2>4, <2>5 DEF AliasInv
  <1>10. CASE ApplyMapping
    <2>1. UNCHANGED <<alias, row, inst, step, check, used>>
      BY <1>10 DEF ApplyMapping
    <2>2. /\ index' \in [Versions -> [made : {"no", "mapped", "dynamic"}, doc : [Rows -> Nat]]]
          /\ ToolType' /\ ToolKnows' /\ LastMade' /\ HeldWhole' /\ SetsAnswered'
      BY <1>1, <1>2, <1>10, ApplyMappingKeeps
    <2>3. /\ AllNow' = AllNow /\ Placed' = Placed /\ Now' = Now /\ RolledOut' = RolledOut
          /\ (\A v : Covered(v)' = Covered(v)) /\ Ahead' = Ahead
      BY <2>1, <1>2 DEF AllNow, Placed, Now, RolledOut, Covered, Ahead
    <2>4. Near' /\ Settled' /\ AheadKnows' /\ CheckKnows'
      BY <2>1, <2>3, <1>2 DEF AliasInv, Near, Settled, AheadKnows, CheckKnows, Target, Config, Final
    <2>5. AliasTypeOK'
      BY <2>1, <2>2, <1>1, <1>2 DEF AliasTypeOK, InstanceType, CheckType
    <2>. QED  BY <2>2, <2>4, <2>5 DEF AliasInv
  <1>11. CASE ApplyAlias
    BY <1>1, <1>2, <1>11, ApplyAliasKeeps
  <1>12. CASE \E v \in Versions : CleanIndex(v)
    BY <1>1, <1>2, <1>12, CleanIndexKeeps
  <1>13. CASE CheckStep
    <2>1. UNCHANGED <<alias, index, row, inst, step, tool, used>>
      BY <1>13 DEF CheckStep, StartCheck, CheckAliasState, CheckTargetIndex, CheckCoverage, CountCurrent,
                   CheckDocGap, CheckStaleBacklog, CheckFails, Gate
    <2>2. /\ Near' /\ Settled' /\ AheadKnows' /\ LastMade' /\ HeldWhole' /\ SetsAnswered'
          /\ AllNow' = AllNow /\ Placed' = Placed /\ Now' = Now /\ Final' = Final
      BY <2>1, <1>2, SameWorld
    <2>3. CheckType' /\ CheckKnows'
      BY <1>1, <1>2, <1>13, CheckStepKeeps
    <2>4. ToolKnows'
      BY <2>1, <2>2, <1>2 DEF AliasInv, ToolKnows
    <2>5. AliasTypeOK'
      BY <2>1, <2>3, <1>1, <1>2 DEF AliasTypeOK, InstanceType, ToolType
    <2>. QED  BY <2>2, <2>3, <2>4, <2>5 DEF AliasInv
  <1>. QED  BY <1>3, <1>4, <1>5, <1>6, <1>7, <1>8, <1>9, <1>10, <1>11, <1>12, <1>13
            DEF AliasNext, InstanceStep, CheckStep

\* A scan's steps change nothing of it.
LEMMA ScanStep == Next => AliasNext \/ UNCHANGED aliasVars
  BY DEF Next, AliasStep, BeginFirst, BeginLater, ScanRefused, OpenPointInTime, SearchPage, CutShort, PitGone,
         RequestLost, Tick, PitExpires, ClusterUpgraded

\* A step that changes nothing keeps it.
LEMMA AliasInvStutter == AliasInv /\ UNCHANGED aliasVars => AliasInv'
  <1>. SUFFICES ASSUME AliasInv, UNCHANGED aliasVars  PROVE AliasInv'
    OBVIOUS
  <1>1. UNCHANGED <<alias, index, row, inst, step, tool, check, used>> /\ Setup' = Setup
    BY DEF aliasVars, Setup
  <1>2. /\ Near' /\ Settled' /\ AheadKnows' /\ LastMade' /\ HeldWhole' /\ SetsAnswered' /\ Plan' = Plan /\ Final' = Final
        /\ AllNow' = AllNow /\ Placed' = Placed /\ Now' = Now /\ \A v : Covered(v)' = Covered(v)
    BY <1>1, SameWorld
  <1>3. ToolKnows' /\ CheckKnows'
    BY <1>1, <1>2 DEF AliasInv, ToolKnows, CheckKnows, Target
  <1>4. AliasTypeOK'
    BY <1>1, <1>2 DEF AliasInv, AliasTypeOK, UsedType, InstanceType, ToolType, CheckType
  <1>. QED  BY <1>2, <1>3, <1>4 DEF AliasInv

\* The inductive invariant of the alias.
THEOREM AliasInvariant == Spec => []AliasInv
  <1>1. Init => AliasInv
    BY AliasInvInit DEF Init
  <1>2. AliasInv /\ [Next]_vars => AliasInv'
    <2>1. [Next]_vars => AliasNext \/ UNCHANGED aliasVars
      BY ScanStep DEF vars
    <2>. QED  BY <2>1, AliasInvNext, AliasInvStutter
  <1>. QED  BY <1>1, <1>2, PTL DEF Spec

-----------------------------------------------------------------------------
(* The properties *)

\* Once a config is rolled out the alias is where that config has it, or is the
\* hand-built one it was, or is on a higher version where gen-mapping took it
\* with an older config and no instance has started since: of every
\* interleaving of startups, crashes, rollbacks and tools, whatever older
\* config the tools are run with, for any number of instances.
THEOREM RolloutSettlesAlias == Spec => []SettledAlias
  <1>1. AliasInv => SettledAlias
    BY DEF AliasInv, Settled, Placed, Now, Ahead, SettledAlias
  <1>. QED  BY <1>1, AliasInvariant, PTL

\* Readers get complete data through every cutover and rollback a plan may
\* hold: the index the alias points to was created with its mapping, and has
\* the document of every clean row.
THEOREM CutoversServeWholeIndices == Spec => []ServedComplete
  <1>1. AliasInv => ServedComplete
    <2>. SUFFICES ASSUME AliasInv, NEW v \in alias \ {Foreign}
                  PROVE  /\ index[v].made = "mapped"
                         /\ \A r \in Setup.rows : row[r].stale = "no" => index[v].doc[r] = Answer(v, r)
      BY DEF ServedComplete
    <2>1. v \in Versions /\ Held(v)
      BY DEF AliasInv, AliasTypeOK, Held
    <2>. QED  BY <2>1 DEF AliasInv, HeldWhole, SetsAnswered, Covered
  <1>. QED  BY <1>1, AliasInvariant, PTL

\* No step takes the alias's last index away, cleanup's with a config ahead of
\* the deployment either.
THEOREM AliasIsNeverLost == Spec => AliasKept
  <1>1. AliasInv /\ AliasNext => (alias # {} => alias' # {})
    <2>. SUFFICES ASSUME AliasInv, AliasNext, alias # {}  PROVE alias' # {}
      OBVIOUS
    <2>1. AliasTypeOK /\ Setup' = Setup
      BY SetupStays DEF AliasInv
    <2>2. CASE \E i \in Setup.instances : InstanceStep(i)
      BY <2>1, <2>2, InstanceEffect
    <2>3. CASE ApplyAlias
      BY <2>3 DEF ApplyAlias, CreateAlias
    <2>4. CASE \E v \in Versions : CleanIndex(v)
      BY <2>1, <2>4, CleanIndexKeeps
    <2>5. CASE UNCHANGED alias
      BY <2>5
    <2>. QED  BY <2>2, <2>3, <2>4, <2>5
              DEF AliasNext, InstanceStep, Upgrade, Build, Change, Age, Backfill, Deploy, StartMapping,
                  ApplyMapping, ToolReads, StartCleanup, StartCheck, CheckAliasState, CheckTargetIndex,
                  CheckCoverage, CountCurrent, CheckDocGap, CheckStaleBacklog, CheckFails, Gate
  <1>2. AliasInv /\ [Next]_vars => [alias # {} => alias' # {}]_aliasVars
    BY <1>1, ScanStep DEF vars
  <1>. QED  BY <1>2, AliasInvariant, PTL DEF Spec, AliasKept

\* cutover-check says a config is ready only when the index it is to read has
\* an answer for every resource whose mark is not younger than MaxStaleAge:
\* whatever was registered, built and backfilled while its gates were read.
THEOREM ReadyTargetIsWhole == Spec => ReadyIsAnswered
  <1>. DEFINE Ready ==
          check'.passed > check.passed =>
            \A r \in Setup.rows :
                row[r].stale = "new"
                \/ index[Plan[check.config].read].doc[r] = Answer(Plan[check.config].read, r)
  <1>1. AliasInv /\ AliasNext => Ready
    <2>. SUFFICES ASSUME AliasInv, AliasNext, check'.passed > check.passed, NEW r \in Setup.rows,
                         row[r].stale # "new"
                  PROVE  index[Plan[check.config].read].doc[r] = Answer(Plan[check.config].read, r)
      BY DEF Ready
    <2>. USE PlanFacts, AliasAnswers
    <2>1. AliasTypeOK /\ CheckType /\ CheckKnows
      BY DEF AliasInv, AliasTypeOK
    <2>2. CheckStaleBacklog /\ check.ok /\ \A x \in Setup.rows : row[x].stale # "old"
      <3>1. check.passed \in Nat /\ check' # check /\ check'.passed # 0 /\ check'.passed # check.passed
        BY <2>1 DEF CheckType
      <3>2. check' # NoCheck
        BY <3>1 DEF NoCheck
      <3>3. CheckStep
        BY <3>1, <3>2 DEF AliasNext, CheckStep, VerifyIndicesExist, ReadAliasTarget, MoveAlias, Crash, Upgrade,
             Build, Change, Age, Backfill, Deploy, StartMapping, ApplyMapping, ToolReads, ApplyAlias,
             StartCleanup, CleanIndex
      <3>4. ~StartCheck
        BY <3>1 DEF StartCheck, NoCheck
      <3>5. ~CheckAliasState /\ ~CheckTargetIndex
        BY <3>1, <3>2, <2>1 DEF CheckAliasState, CheckTargetIndex, NotReady, CheckType
      <3>6. ~CheckCoverage /\ ~CheckDocGap
        BY <3>1, <2>1 DEF CheckCoverage, CheckDocGap, CheckType
      <3>7. ~CountCurrent
        BY <3>1, <2>1 DEF CountCurrent, CheckType
      <3>8. ~CheckFails
        BY <3>2 DEF CheckFails, NotReady
      <3>9. CheckStaleBacklog
        BY <3>3, <3>4, <3>5, <3>6, <3>7, <3>8 DEF CheckStep
      <3>. QED  BY <3>2, <3>9 DEF CheckStaleBacklog
    <2>3. r \in Rows /\ row[r].stale = "no"
      BY <2>1, <2>2 DEF AliasTypeOK
    <2>4. check.pc = "stale" /\ check.config \in {step, step + 1} /\ check.config \in 1 .. Len(Plan)
      BY <2>1, <2>2 DEF CheckStaleBacklog, Gate, CheckKnows, CheckType
    <2>5. Covered(Target)
      <3>1. CASE Target = Now
        BY <3>1, <2>1 DEF AliasInv, HeldWhole, Held
      <3>2. CASE Target # Now
        BY <3>2, <2>1, <2>2, <2>4 DEF CheckKnows
      <3>. QED  BY <3>1, <3>2
    <2>6. Target \in Versions /\ (Target = Now \/ Target \in Final.versions)
      <3>1. step \in 1 .. check.config
        BY <2>1, <2>4 DEF AliasTypeOK
      <3>. QED  BY <3>1, <2>1, <2>4 DEF Target, Now
    <2>. QED  BY <2>3, <2>5, <2>6 DEF AliasInv, SetsAnswered, Held, Covered, Target
  <1>2. AliasInv /\ [Next]_vars => [Ready]_aliasVars
    BY <1>1, ScanStep DEF vars
  <1>. QED  BY <1>2, AliasInvariant, PTL DEF Spec, ReadyIsAnswered

=============================================================================
