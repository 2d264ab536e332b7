------------------------------ MODULE ReadAlias ------------------------------
(***************************************************************************)
(* The read alias of one resource type through rolling deploys: instances  *)
(* that verify their indices and converge the alias before they serve      *)
(* (core/alias.go, app/cmd/indexer), the tools an operator runs beside     *)
(* them (gen-mapping, cleanup, cutover-check), and the builds that keep    *)
(* the indices of every configured Schema Version written.                 *)
(*                                                                         *)
(* A setup is a deployment history: `plan`, the configs that are rolled    *)
(* out one after the other, each naming its Schema Versions, its           *)
(* ReadVersion and the content of each version's config.  Builds and the   *)
(* backfill are single steps here; Indexer and RebuildWalk model them.     *)
(***************************************************************************)
EXTENDS Integers, FiniteSets, Sequences

CONSTANTS
    Instances,  \* the indexer processes
    Versions,   \* Schema Versions, positive numbers
    Rows,       \* the resources of the type, numbers in id order
    Setups      \* the deployment histories, one is chosen in Init

Foreign == 0  \* an index the naming scheme does not own
None == -1    \* GetAlias's empty answer

\* A plan the runbook of ADR 0010 allows.  A config reads one of its own
\* versions.  A version is configured, and backfilled, before it is read and
\* until the config that stopped reading it is rolled out.  What the plan
\* reads its last config, the one cleanup is run with, still has, but for the
\* version the plan began with; that one it does not come back to.  A version
\* the plan goes back from, to a lower one, stays configured: the config file
\* that reads it is still there to be run with.
IsPlan(plan) ==
    LET last == plan[Len(plan)]
    IN  /\ Len(plan) \in Nat \ {0}
        /\ \A k \in 1 .. Len(plan) :
            /\ plan[k].versions \subseteq Versions /\ plan[k].read \in plan[k].versions
            /\ plan[k].read \notin last.versions => \A j \in 1 .. k : plan[j].read = plan[k].read
            /\ \A j \in 1 .. k : plan[j].read > plan[k].read =>
                   \A m \in (j .. k) \cup {Len(plan)} : plan[j].read \in plan[m].versions
        /\ \A k \in 1 .. Len(plan) - 1 :
            plan[k].read \in plan[k + 1].versions /\ plan[k + 1].read \in plan[k].versions

\* The alias starts where the first config has it, or missing, or on a
\* hand-built index; what a hand-built alias was put in front of is not
\* dropped, and one that is split between a hand-built index and one of the
\* scheme's is not migrated.
IsSetup(s) ==
    /\ s.instances \subseteq Instances /\ s.instances # {}
    /\ s.rows \subseteq Rows /\ s.unbuilt \subseteq Rows
    /\ IsPlan(s.plan)
    /\ s.alias \subseteq {Foreign, s.plan[1].read}
    /\ Foreign \in s.alias =>
        /\ \A k \in 1 .. Len(s.plan) : s.plan[k].read \in s.plan[Len(s.plan)].versions
        /\ s.alias = {Foreign} \/ Len(s.plan) = 1

ASSUME AliasAssumption ==
    /\ Versions \subseteq Nat \ {0} /\ IsFiniteSet(Rows)
    /\ \A n \in 1 .. Len(Setups) : IsSetup(Setups[n])

VARIABLES
    alias,  \* the indices the read alias points to
    index,  \* per Schema Version: how its index was made, and its documents
    row,    \* per resource: source content, stale mark, edge sets
    inst,   \* per instance: its config, where its startup is, the alias it saw
    step,   \* the config of the plan that is being rolled out
    tool,   \* the gen-mapping or cleanup that is running
    check,  \* the cutover-check that is running, and the config it passed
    used    \* the setup, what has been spent of its bounds, and, while the alias
            \* is where gen-mapping took it with an older config, that config

aliasVars == <<alias, index, row, inst, step, tool, check, used>>

Setup == Setups[used.setup]
Plan == Setup.plan
Config(i) == Plan[inst[i].config]

\* What version v's plan makes of a resource: its content, 0 when it decides
\* against a document.
Answer(v, r) == IF <<v, r, row[r].content>> \in Setup.excluded THEN 0 ELSE row[r].content

NoDocs == [r \in Rows |-> 0]
NoTool == [kind |-> "none", pc |-> "idle", config |-> 0, force |-> FALSE, seen |-> None, todo |-> {}]
NoCheck == [pc |-> "idle", config |-> 0, seen |-> None, count |-> 0, ok |-> TRUE, passed |-> 0]

Spend(what) ==
    /\ used[what] < Setup[what]
    /\ used' = [used EXCEPT ![what] = @ + 1]

(***************************************************************************)
(* Elasticsearch's alias and index administration                          *)
(***************************************************************************)
GetAlias == IF alias = {} THEN {None} ELSE alias

Exists(v) == index[v].made # "no"

\* Removing the alias from every index and adding it to one is one request;
\* it fails when that index does not exist.
CreateAlias(v) == Exists(v) /\ alias' = {v}

CountDocs(v) == Cardinality({r \in Rows : index[v].doc[r] # 0})

\* Deleting an index takes it out of the alias.
DeleteIndex(v) ==
    /\ index' = [index EXCEPT ![v] = [made |-> "no", doc |-> NoDocs]]
    /\ alias' = alias \ {v}

\* Faulty variant: a newer target is left where it is.
PlanAliasMoveForwardOnly(seen, read) ==
    CASE seen = None    -> "create"
      [] seen = Foreign -> "foreign"
      [] seen >= read   -> "in-sync"
      [] seen < read    -> "forward"

PlanAliasMove(seen, read) ==
    CASE seen = None    -> "create"
      [] seen = Foreign -> "foreign"
      [] seen = read    -> "in-sync"
      [] seen \notin {None, Foreign} /\ seen < read -> "forward"
      [] seen > read    -> "backward"

(***************************************************************************)
(* Instances: verify the indices, converge the alias, serve                *)
(***************************************************************************)

Stopped(i) == inst' = [inst EXCEPT ![i].pc = "down", ![i].seen = None]

\* An instance starts only when the index of every configured version
\* exists; otherwise it exits and is started again.
VerifyIndicesExist(i) ==
    /\ inst[i].pc = "down"
    /\ \A v \in Config(i).versions : Exists(v)
    /\ inst' = [inst EXCEPT ![i].pc = "read"]
    /\ UNCHANGED <<alias, index, row, step, tool, check, used>>

\* ConvergeReadAliases reads the alias: nothing is left to do when it is in
\* sync or points at a hand-built index.
ReadAliasTarget(i) ==
    /\ inst[i].pc = "read"
    /\ \E seen \in GetAlias :
           inst' = [inst EXCEPT ![i].seen = seen,
                                ![i].pc = IF PlanAliasMove(seen, Config(i).read) \in {"in-sync", "foreign"}
                                          THEN "serving" ELSE "move"]
    /\ UNCHANGED <<alias, index, row, step, tool, check, used>>

\* ... and moves it, on what it read then.
MoveAlias(i) ==
    /\ inst[i].pc = "move"
    /\ CreateAlias(Config(i).read)
    /\ inst' = [inst EXCEPT ![i].pc = "serving"]
    /\ used' = [used EXCEPT !.ahead = 0]
    /\ UNCHANGED <<index, row, step, tool, check>>

\* A failed convergence ends the process, whether or not its request was
\* applied; so does a crash at any time.
Crash(i) ==
    /\ inst[i].pc # "down" /\ used.crashes < Setup.crashes
    /\ Stopped(i)
    /\ \/ alias' = alias /\ used' = [used EXCEPT !.crashes = @ + 1]
       \/ /\ inst[i].pc = "move" /\ CreateAlias(Config(i).read)
          /\ used' = [used EXCEPT !.crashes = @ + 1, !.ahead = 0]
    /\ UNCHANGED <<index, row, step, tool, check>>

(***************************************************************************)
(* Rollouts.  The next config is rolled out when every instance serves the *)
(* current one and no tool is running, and a config that changes the       *)
(* ReadVersion when cutover-check passed it (the runbook of ADR 0010).     *)
(***************************************************************************)
RolledOut == \A i \in Setup.instances : inst[i].pc = "serving" /\ inst[i].config = step

Deploy ==
    /\ RolledOut /\ tool.pc = "idle" /\ check.pc = "idle"
    /\ step < Len(Plan)
    /\ Plan[step + 1].read = Plan[step].read \/ check.passed = step + 1
    /\ step' = step + 1
    /\ check' = NoCheck
    /\ UNCHANGED <<alias, index, row, inst, tool, used>>

\* The rollout replaces an instance by one that runs the new config.
Upgrade(i) ==
    /\ inst[i].config < step
    /\ inst' = [inst EXCEPT ![i] = [config |-> step, pc |-> "down", seen |-> None]]
    /\ UNCHANGED <<alias, index, row, step, tool, check, used>>

(***************************************************************************)
(* The source, live builds and the backfill                                *)
(***************************************************************************)

\* A registration marks the resource stale.
Change(r) ==
    /\ Spend("changes")
    /\ row' = [row EXCEPT ![r].content = @ + 1, ![r].stale = IF @ = "no" THEN "new" ELSE @]
    /\ UNCHANGED <<alias, index, inst, step, tool, check>>

\* MaxStaleAge passes and the mark is still there.
Age(r) ==
    /\ row[r].stale = "new"
    /\ Spend("aged")
    /\ row' = [row EXCEPT ![r].stale = "old"]
    /\ UNCHANGED <<alias, index, inst, step, tool, check>>

\* A document written to an index that is gone makes it anew, mapped from
\* the document.
Wrote(v, r) ==
    [made |-> IF Exists(v) THEN index[v].made ELSE "dynamic",
     doc  |-> [index[v].doc EXCEPT ![r] = Answer(v, r)]]

\* A live build writes every configured version and keeps the edge sets of
\* no other.
Build(i, r) ==
    /\ inst[i].pc = "serving" /\ row[r].stale # "no"
    /\ index' = [v \in Versions |-> IF v \in Config(i).versions THEN Wrote(v, r) ELSE index[v]]
    /\ row' = [row EXCEPT ![r].stale = "no", ![r].sets = Config(i).versions]
    /\ UNCHANGED <<alias, inst, step, tool, check, used>>

\* The backfill of one version, row by row, once the config that declares it
\* is rolled out: the version's document and edge set, no mark cleared.
Backfill(r, v) ==
    /\ RolledOut /\ v \in Plan[step].versions /\ v \notin row[r].sets
    /\ index' = [index EXCEPT ![v] = Wrote(v, r)]
    /\ row' = [row EXCEPT ![r].sets = @ \cup {v}]
    /\ UNCHANGED <<alias, inst, step, tool, check, used>>

(***************************************************************************)
(* gen-mapping -apply                                                      *)
(***************************************************************************)

\* It is run with the config being rolled out at any time; between rollouts
\* also with the next one unless that raises the ReadVersion, or with any
\* older file, the cutover's after a rollback too; -force only with the
\* current one.
StartMapping ==
    /\ tool.pc = "idle"
    /\ \E c \in 1 .. Len(Plan), force \in BOOLEAN :
        /\ c <= step \/ (c = step + 1 /\ Plan[c].read <= Plan[step].read)
        /\ c # step => RolledOut /\ ~force
        /\ IF \A v \in Plan[c].versions : Exists(v) THEN Spend("tools") ELSE UNCHANGED used
        /\ tool' = [NoTool EXCEPT !.kind = "mapping", !.pc = "apply", !.config = c, !.force = force]
    /\ UNCHANGED <<alias, index, row, inst, step, check>>

\* Every configured version's index is created, or its mapping updated.  A
\* request that fails ends the run; the update does for an index that was
\* mapped from its documents.
ApplyMapping ==
    /\ tool.kind = "mapping" /\ tool.pc = "apply"
    /\ \E S \in SUBSET Plan[tool.config].versions :
        /\ \A v \in S : index[v].made # "dynamic"
        /\ index' = [v \in Versions |-> IF v \in S THEN [index[v] EXCEPT !.made = "mapped"] ELSE index[v]]
        /\ tool' = IF S = Plan[tool.config].versions THEN [tool EXCEPT !.pc = "read"] ELSE NoTool
    /\ UNCHANGED <<alias, row, inst, step, check, used>>

\* Creations and forward moves are applied, a move backwards or off a
\* hand-built index only when forced.
DecideAliasApply(move, force) == move \in {"create", "forward"} \/ (force /\ move \in {"backward", "foreign"})

ToolReads ==
    /\ tool.kind = "mapping" /\ tool.pc = "read"
    /\ \E seen \in GetAlias :
           tool' = IF DecideAliasApply(PlanAliasMove(seen, Plan[tool.config].read), tool.force)
                   THEN [tool EXCEPT !.pc = "move", !.seen = seen] ELSE NoTool
    /\ UNCHANGED <<alias, index, row, inst, step, check, used>>

ApplyAlias ==
    /\ tool.kind = "mapping" /\ tool.pc = "move"
    /\ CreateAlias(Plan[tool.config].read)
    /\ tool' = NoTool
    /\ used' = [used EXCEPT !.ahead = IF tool.config < step THEN tool.config ELSE 0]
    /\ UNCHANGED <<index, row, inst, step, check>>

(***************************************************************************)
(* cleanup -apply                                                          *)
(***************************************************************************)

\* It is run with the plan's last config, deployed or still ahead of the
\* deployment, and reads the alias, then lists the indices.
StartCleanup ==
    /\ tool.pc = "idle" /\ RolledOut
    /\ Spend("tools")
    /\ \E seen \in GetAlias :
           tool' = [NoTool EXCEPT !.kind = "cleanup", !.pc = "delete", !.config = Len(Plan), !.seen = seen,
                                  !.todo = {v \in Versions : Exists(v)}]
    /\ UNCHANGED <<alias, index, row, inst, step, check>>

\* Faulty variant: only the config decides.
ClassifyIndexByConfig(v, active, target) == IF v \in active THEN "keep" ELSE "remove"

ClassifyIndex(v, active, target) ==
    CASE v \in active -> "keep"
      [] v \notin active /\ v = target -> "refuse"
      [] v \notin active /\ v # target -> "remove"

\* Every listed index is attempted; a delete that fails does not stop the rest.
CleanIndex(v) ==
    /\ tool.kind = "cleanup" /\ v \in tool.todo
    /\ \/ /\ ClassifyIndex(v, Plan[tool.config].versions, tool.seen) = "remove"
          /\ DeleteIndex(v)
       \/ UNCHANGED <<alias, index>>
    /\ tool' = IF tool.todo = {v} THEN NoTool ELSE [tool EXCEPT !.todo = @ \ {v}]
    /\ UNCHANGED <<row, inst, step, check, used>>

(***************************************************************************)
(* cutover-check: five gates, read one after the other                     *)
(***************************************************************************)
Gate(pc) == check.pc = pc /\ UNCHANGED <<alias, index, row, inst, step, tool, used>>

Target == Plan[check.config].read

\* A gate that fails outright ends the report, so does a fetch that fails:
\* the verdict is not ready whatever the other gates say.
NotReady == check' = NoCheck

\* Step 4 of the runbook: after the rollout, for the next config or as the
\* soak check of the current one.
StartCheck ==
    /\ check.pc = "idle" /\ RolledOut
    /\ \E c \in {step, step + 1} \cap (1 .. Len(Plan)) :
           check' = [NoCheck EXCEPT !.pc = "alias", !.config = c]
    /\ UNCHANGED <<alias, index, row, inst, step, tool, used>>

CheckAliasState ==
    /\ Gate("alias")
    /\ \E seen \in GetAlias :
           IF PlanAliasMove(seen, Target) = "foreign" THEN NotReady
           ELSE check' = [check EXCEPT !.pc = "index", !.seen = seen]

\* Coverage and the gap gate a move between two indices only.
CheckTargetIndex ==
    /\ Gate("index")
    /\ IF ~Exists(Target) THEN NotReady
       ELSE check' = [check EXCEPT !.pc =
                IF PlanAliasMove(check.seen, Target) \in {"forward", "backward"} THEN "coverage" ELSE "stale"]

Uncovered(v) == {r \in Setup.rows : row[r].stale = "no" /\ v \notin row[r].sets}

\* Faulty variant: one covered row is enough.
CheckCoverageAny ==
    /\ Gate("coverage")
    /\ check' = [check EXCEPT !.pc = "current", !.ok = @ /\ Uncovered(Target) # Setup.rows]

CheckCoverage ==
    /\ Gate("coverage")
    /\ check' = [check EXCEPT !.pc = "current", !.ok = @ /\ Uncovered(Target) = {}]

\* The two counts of the gap; an index that is gone fails the gate.
CountCurrent ==
    /\ Gate("current")
    /\ check' = IF Exists(check.seen) THEN [check EXCEPT !.pc = "gap", !.count = CountDocs(check.seen)]
                ELSE [check EXCEPT !.pc = "stale", !.ok = FALSE]

CheckDocGap ==
    /\ Gate("gap")
    /\ check' = [check EXCEPT !.pc = "stale",
                              !.ok = @ /\ Exists(Target) /\ (Setup.accept \/ CountDocs(Target) = check.count)]

\* Faulty variant: the backlog is not looked at.
CheckNoBacklog ==
    /\ Gate("stale")
    /\ check' = IF check.ok THEN [NoCheck EXCEPT !.passed = check.config] ELSE NoCheck

CheckStaleBacklog ==
    /\ Gate("stale")
    /\ check' = IF check.ok /\ \A r \in Setup.rows : row[r].stale # "old"
                THEN [NoCheck EXCEPT !.passed = check.config] ELSE NoCheck

CheckFails == check.pc # "idle" /\ Gate(check.pc) /\ NotReady

(***************************************************************************)
(* Specification                                                           *)
(***************************************************************************)
AliasInit ==
    /\ used \in {[setup |-> s, changes |-> 0, aged |-> 0, crashes |-> 0, tools |-> 0, ahead |-> 0] :
                     s \in 1 .. Len(Setups)}
    /\ alias = Setup.alias
    /\ index = [v \in Versions |->
                   IF v \in Plan[1].versions
                   THEN [made |-> "mapped",
                         doc  |-> [r \in Rows |-> IF r \in Setup.rows \ Setup.unbuilt
                                                     /\ <<v, r, 1>> \notin Setup.excluded THEN 1 ELSE 0]]
                   ELSE [made |-> "no", doc |-> NoDocs]]
    /\ row = [r \in Rows |-> [content |-> 1, stale |-> IF r \in Setup.unbuilt THEN "new" ELSE "no",
                              sets |-> IF r \in Setup.unbuilt THEN {} ELSE Plan[1].versions]]
    /\ inst = [i \in Instances |-> [config |-> 1, pc |-> "down", seen |-> None]]
    /\ step = 1 /\ tool = NoTool /\ check = NoCheck

AliasNext ==
    \/ \E i \in Setup.instances :
        \/ VerifyIndicesExist(i) \/ ReadAliasTarget(i) \/ MoveAlias(i) \/ Crash(i) \/ Upgrade(i)
        \/ \E r \in Setup.rows : Build(i, r)
    \/ \E r \in Setup.rows : Change(r) \/ Age(r) \/ \E v \in Versions : Backfill(r, v)
    \/ Deploy
    \/ StartMapping \/ ApplyMapping \/ ToolReads \/ ApplyAlias
    \/ StartCleanup \/ \E v \in Versions : CleanIndex(v)
    \/ StartCheck \/ CheckAliasState \/ CheckTargetIndex \/ CheckCoverage \/ CountCurrent \/ CheckDocGap
    \/ CheckStaleBacklog \/ CheckFails

(***************************************************************************)
(* Properties                                                              *)
(***************************************************************************)

\* Once every instance serves one config and no tool is running, the read
\* alias points at that config's ReadVersion, however the instances'
\* startups, crashes and rollbacks interleaved.  Only gen-mapping run with an
\* older config whose ReadVersion is higher (the cutover's, after a rollback)
\* takes it elsewhere: decideAliasApply applies that as a forward move, and
\* no instance takes it back before one starts.  An older config never takes
\* it to a lower version.  A hand-built alias is still the one it was unless
\* gen-mapping -force took it over.
SettledAlias ==
    (RolledOut /\ tool.pc = "idle") =>
        \/ alias = {Plan[step].read}
        \/ /\ used.ahead # 0 /\ alias = {Plan[used.ahead].read}
           /\ Plan[used.ahead].read > Plan[step].read
        \/ Foreign \in Setup.alias /\ alias = Setup.alias

\* Readers get complete data through every cutover, rollback and flap of the
\* alias: a resource with no stale mark is in the served index as that
\* version's plan last answered, and that index was created with its mapping,
\* never by a write to a name that was missing.
ServedComplete ==
    \A v \in alias \ {Foreign} :
        /\ index[v].made = "mapped"
        /\ \A r \in Setup.rows : row[r].stale = "no" => index[v].doc[r] = Answer(v, r)

\* A read alias is never lost: cleanup does not take the served index, with
\* a config file ahead of the deployment either.
AliasKept == [][alias # {} => alias' # {}]_aliasVars

\* When cutover-check reports a config ready, every resource whose mark is
\* not younger than MaxStaleAge is answered in the target's index.
ReadyIsAnswered ==
    [][check'.passed > check.passed =>
        \A r \in Setup.rows :
            row[r].stale = "new" \/ index[Plan[check.config].read].doc[r] = Answer(Plan[check.config].read, r)]_aliasVars

=============================================================================
