-------------------------- MODULE DocumentPipeline --------------------------
(***************************************************************************)
(* The processing runs that a document version goes through: perception,   *)
(* normalization, candidate discovery and entity resolution, and the three *)
(* callers that start them beside each other:                              *)
(*   - the Pipeline Lab (ui/core_ui/views.py, pipeline/runtime.py) runs    *)
(*     the stages of a manifest in one transaction, which it commits even  *)
(*     when a stage has failed;                                            *)
(*   - the discovery experiment (discovery/experiment.py) runs discovery   *)
(*     on a stored normalization, as a dry run or for good;                *)
(*   - the step test (pipeline/step_testing.py) commits its trace          *)
(*     (execution/service.py), then resolves chosen candidates inside a    *)
(*     savepoint, then ends the trace.                                     *)
(* A transaction sees what is committed, and its own rows.                 *)
(*                                                                         *)
(* A run is numbered by the moment it starts, which is also its identity.  *)
(* Left out: the order of rows inside a run, and the checks of a step test *)
(* before it starts, which store nothing (see PipelineComposition).        *)
(***************************************************************************)
EXTENDS Integers, FiniteSets, FiniteSetsExt, Sequences

CONSTANTS
    Labs, Experimenters, Testers, \* sessions of the three callers
    Versions,       \* DocumentVersion rows
    Perceptions,    \* sets of blocks that reading each version can give
    Blank,          \* blocks without text
    Detections,     \* what the detectors report of a unit, in their order
    Manifests,      \* what a manifest makes of each capability
    Stored,         \* runs that exist already
    MaxRuns,        \* runs started and stored (bound)
    TestWeight,     \* runs that a step test counts for in MaxRuns
    MaxScope,       \* candidates of a step test (bound)
    None            \* NULL

Types == <<"document_extraction", "content_normalization",
           "candidate_discovery", "entity_resolution">>

\* A binding may be missing, name a component without a runtime adapter, or be
\* one that the runtime refuses: one of several, or with a configuration that
\* the adapter does not take.
Bound == {"absent", "unwired", "refused", "wired"}
ASSUME ManifestsAssumption == Manifests \subseteq [1 .. 4 -> Bound]

\* A reading gives finitely many blocks, and the detectors a list of reports on
\* each of them.
ASSUME DetectionsAssumption ==
    /\ \A v \in Versions : \A blocks \in Perceptions[v] :
          IsFiniteSet(blocks) /\ blocks \subseteq DOMAIN Detections
    /\ \A u \in DOMAIN Detections :
          /\ IsFiniteSet(DOMAIN Detections[u])
          /\ DOMAIN Detections[u] = 1 .. Cardinality(DOMAIN Detections[u])

Processes == Labs \cup Experimenters \cup Testers
ASSUME ProcessesAssumption ==
    /\ Labs \cap Experimenters = {} /\ Labs \cap Testers = {} /\ Experimenters \cap Testers = {}
    /\ None \notin Nat /\ None \notin Processes \X Nat /\ None # "experiment"

VARIABLES
    runs,    \* committed ProcessingRun rows, with the rows they produced
    tests,   \* committed traces of the step tests
    draft,   \* manifest of the draft revision
    clock,   \* runs started so far
    job,     \* what each session is doing, with its uncommitted runs
    lost     \* step tests whose process has stopped (history variable)

vars == <<runs, tests, draft, clock, job, lost>>

Idle == [phase |-> "idle"]

\* The union of two tables.
With(base, more) ==
    [r \in DOMAIN base \cup DOMAIN more |-> IF r \in DOMAIN more THEN more[r] ELSE base[r]]
One(r, run) == [i \in {r} |-> run]

\* The runs as session p has them.
Seen(p) == IF job[p].phase = "idle" THEN runs ELSE With(runs, job[p].runs)

(***************************************************************************)
(* The four services.  Each gives a run that ends completed or failed; the *)
(* rows of a failed run are rolled back to its savepoint, its metrics stay *)
(* as they were set.                                                       *)
(***************************************************************************)

\* apply_execution_context: identity and hash of the configuration, which is
\* the run it reads and, for the Lab, the manifest.
Context(source, manifest, group, step) ==
    [environment |-> IF group = None THEN None ELSE "experiment",
     group |-> group, step |-> step,
     configuration |-> [source |-> source, manifest |-> manifest],
     hash |-> [source |-> source, manifest |-> manifest]]

Run(type, version, context, status, rows, metrics) ==
    [type |-> type, version |-> version, context |-> context,
     status |-> status, rows |-> rows, metrics |-> metrics]

Failed(run) == [run EXCEPT !.status = "failed", !.rows = {}]

\* store_document_perception: the run is inserted as completed before its rows,
\* and gives no metrics.
Perceived(version, blocks, context) ==
    Run(Types[1], version, context, "completed", blocks, None)

\* ContentNormalizationService.normalize: one unit for each block with text;
\* none is an error of the run.
Normalized(perception, context) ==
    LET units == perception.rows \ Blank
        run == Run(Types[2], perception.version, context, "completed", units,
                   [blocks |-> Cardinality(perception.rows), units |-> Cardinality(units),
                    skipped |-> Cardinality(perception.rows \cap Blank)])
    IN IF units = {} THEN Failed(run) ELSE run

Occurrence(u, i) == Detections[u][i]
\* CandidateDiscoveryService._technical_key
Key(u, i) == <<Occurrence(u, i).at, Occurrence(u, i).type, Occurrence(u, i).raw>>
First(units, u, i) == \A j \in 1 .. (i - 1) : Key(u, j) # Key(u, i)

\* A DiscoveredCandidate row with its place in the unit's text.
Candidate(r, u, i, version) ==
    [run |-> r, unit |-> u, at |-> Occurrence(u, i).at, type |-> Occurrence(u, i).type,
     raw |-> Occurrence(u, i).raw, value |-> Occurrence(u, i).value, version |-> version]

\* CandidateDiscoveryService.discover: a candidate for the first report of
\* each key.  A unit is skipped when it gives no candidate.
Discovered(r, normalization, context) ==
    LET units == normalization.rows
        found == UNION {{u} \X DOMAIN Detections[u] : u \in units}
        kept == {f \in found : First(units, f[1], f[2])}
    IN  Run(Types[3], normalization.version, context, "completed",
            {Candidate(r, f[1], f[2], normalization.version) : f \in kept},
            [units |-> Cardinality(units), candidates |-> Cardinality(kept),
             skipped |-> Cardinality({u \in units : \A f \in kept : f[1] # u})])

\* mutant: a candidate without a declared value is grouped under its raw one
CoalescedKey(c) == <<c.type, IF c.value = None THEN c.raw ELSE c.value>>
\* What is grouped: candidates of one type that declare one normalized value.
\* One that declares none is alone under its id, which is no type and value.
EntityKey(c) == IF c.value = None THEN <<c>> ELSE <<c.type, c.value>>

\* An Entity row is the set of the candidates that its membership rows name.
Entities(scope) == {{d \in scope : EntityKey(d) = EntityKey(c)} : c \in scope}

\* EntityResolutionService.resolve.
Resolved(scope, context) ==
    LET groups == Entities(scope)
        versions == {c.version : c \in scope}
    IN  Run(Types[4], IF Cardinality(versions) = 1 THEN CHOOSE v \in versions : TRUE ELSE None,
            context, "completed", groups,
            [candidates |-> Cardinality(scope), entities |-> Cardinality(groups),
             memberships |-> Cardinality(scope), evidences |-> Cardinality(scope),
             singles |-> Cardinality({g \in groups : Cardinality(g) = 1}),
             grouped |-> Cardinality({g \in groups : Cardinality(g) > 1}),
             versions |-> Cardinality(versions)])

(***************************************************************************)
(* The Pipeline Lab: rag_laboratory_pipeline                               *)
(***************************************************************************)
Room(weight) == clock + (TestWeight - 1) * Cardinality(DOMAIN tests) + weight <= MaxRuns
Draw == Room(1) /\ clock' = clock + 1
\* A new execution_group_id.
Group(p) == <<p, clock>>
Set(p, j) == job' = [job EXCEPT ![p] = j]

\* The draft, or the selection that the browser sends.
LabBegin(p) ==
    /\ job[p].phase = "idle" /\ Room(1)
    /\ \E manifest \in Manifests, version \in Versions :
          Set(p, [phase |-> "running", stage |-> 1, manifest |-> manifest, version |-> version,
                  group |-> Group(p), last |-> None, runs |-> <<>>])
    /\ UNCHANGED <<runs, tests, draft, clock, lost>>

\* mutant: each stage reads the draft again
ManifestAgain(p) == draft
\* The manifest is loaded once for all stages.
ManifestOf(p) == job[p].manifest

Stage(p, s) ==
    /\ job[p].phase = "running" /\ job[p].stage = s
    /\ job[p].manifest[s] = "wired"
\* The context of the run of stage s: it reads the run of the stage before.
LabContext(p) == Context(job[p].last, ManifestOf(p), job[p].group, None)

\* A run that an exception leaves with the configuration it had before the
\* manifest was added.
Untold(run) == [run EXCEPT !.context.configuration.manifest = None,
                           !.context.hash.manifest = None]

LabStored(p, run, phase) ==
    /\ Draw
    /\ Set(p, [job[p] EXCEPT
           !.runs = With(@, One(clock + 1, run)),
           !.last = clock + 1, !.stage = @ + 1, !.phase = phase])
    /\ UNCHANGED <<runs, tests, draft, lost>>

\* A stage that fails ends the execution; the others wait for their turn.
LabRan(p, run) ==
    LabStored(p, run, IF run.status = "completed" /\ job[p].stage < 4 THEN "running" ELSE "ended")

LabPerceive(p) ==
    /\ Stage(p, 1)
    /\ \E blocks \in Perceptions[job[p].version] :
          LabRan(p, Perceived(job[p].version, blocks, LabContext(p)))

\* Blocks are numbered in the order of their pages.
Before(blocks) == {{c \in blocks : c < b} : b \in blocks} \cup {blocks}
\* A page of the reading is not among the stored ones, or has no description:
\* the run stays as it was inserted, completed, with the blocks of the pages
\* before, and the execution ends.
LabInterrupted(p) ==
    /\ Stage(p, 1)
    /\ \E blocks \in Perceptions[job[p].version] : \E stored \in Before(blocks) :
          LabStored(p, Untold(Perceived(job[p].version, stored, LabContext(p))), "ended")

\* The run of the stage before, which this transaction has stored, and its rows.
Previous(p) == job[p].last
PerceptionBlocks(p) == Seen(p)[Previous(p)].rows

\* The failure of a stage after its run was inserted: its rows are rolled back
\* as well.
Broken(run) == Failed(Untold(run))

\* A perception without a block is refused before a run is inserted.
LabNormalize(p) ==
    /\ Stage(p, 2)
    /\ PerceptionBlocks(p) # {}
    /\ LET run == Normalized(Seen(p)[Previous(p)], LabContext(p))
       IN LabRan(p, run) \/ LabRan(p, Failed(run))

LabDiscover(p) ==
    /\ Stage(p, 3)
    /\ LET run == Discovered(clock + 1, Seen(p)[Previous(p)], LabContext(p))
       IN LabRan(p, run) \/ LabRan(p, Broken([run EXCEPT
              !.metrics = [units |-> 0, candidates |-> 0, skipped |-> 0]]))

\* A discovery without a candidate is refused before a run is inserted.  The
\* run is told what it reads only when it has ended.
LabResolve(p) ==
    /\ Stage(p, 4)
    /\ Seen(p)[Previous(p)].rows # {}
    /\ LET run == Resolved(Seen(p)[Previous(p)].rows, LabContext(p))
           untold == [run EXCEPT !.context.configuration.source = None,
                                 !.context.hash.source = None]
       IN \/ LabRan(p, run)
          \/ LabRan(p, Broken(untold))
          \/ LabRan(p, Broken([untold EXCEPT !.metrics.entities = 0, !.metrics.memberships = 0,
                 !.metrics.evidences = 0, !.metrics.singles = 0, !.metrics.grouped = 0]))

\* No run of this stage: nothing to run it, or a refusal; the file may be
\* unreadable.
LabStop(p) ==
    /\ job[p].phase = "running"
    /\ \/ job[p].manifest[job[p].stage] # "wired"
       \/ job[p].stage = 1
       \/ job[p].stage \in {2, 4} /\ Seen(p)[Previous(p)].rows = {}
    /\ Set(p, [job[p] EXCEPT !.phase = "ended"])
    /\ UNCHANGED <<runs, tests, draft, clock, lost>>

\* Both ways out of the execution, after an error as well.
LabCommit(p) ==
    /\ job[p].phase = "ended"
    /\ runs' = With(runs, job[p].runs)
    /\ Set(p, Idle)
    /\ UNCHANGED <<tests, draft, clock, lost>>

\* The draft is saved in place.
Save ==
    /\ draft' \in Manifests \ {draft}
    /\ UNCHANGED <<runs, tests, clock, job, lost>>

(***************************************************************************)
(* The discovery experiment: run_candidate_discovery_experiment            *)
(***************************************************************************)
Completed(r, type) == runs[r].type = type /\ runs[r].status = "completed"

\* A run that is asked for, or the latest one.  A normalization of the Lab
\* hands its group on; one of production does not.
ExperimentDiscover(p) ==
    /\ job[p].phase = "idle" /\ Draw
    /\ \E n \in DOMAIN runs, commit \in BOOLEAN :
        /\ Completed(n, Types[2])
        /\ LET group == IF runs[n].context.environment = "experiment"
                        THEN runs[n].context.group ELSE Group(p)
           IN Set(p, [phase |-> IF commit THEN "keep" ELSE "drop",
                      runs |-> One(clock + 1, Discovered(clock + 1, runs[n],
                                       Context(n, None, group, None)))])
    /\ UNCHANGED <<runs, tests, draft, lost>>

ExperimentEnd(p) ==
    /\ job[p].phase \in {"keep", "drop"}
    /\ runs' = IF job[p].phase = "keep" THEN With(runs, job[p].runs) ELSE runs
    /\ Set(p, Idle)
    /\ UNCHANGED <<tests, draft, clock, lost>>

(***************************************************************************)
(* The step test: RagComposerStepTestService.execute                       *)
(***************************************************************************)
Candidates == UNION {runs[r].rows : r \in {q \in DOMAIN runs : runs[q].type = Types[3]}}

\* mutant: a running step can only be completed
Completable == [pending |-> {"running"}, running |-> {"completed"}]
\* _EXECUTION_TRANSITIONS, which the step table extends.
Transitions == [pending |-> {"running"},
                running |-> {"completed", "failed", "cancelled"}]

\* An Execution row with its one step and the artifacts of the step.
Trace(status, inputs, outputs) ==
    [execution |-> status, step |-> status, inputs |-> inputs, outputs |-> outputs]
\* create_execution, create_step and record_input.
CreateTrace(inputs) == tests' = With(tests, One(clock + 1, Trace("running", inputs, {})))
\* record_output, transition_step and transition_execution.
EndTrace(t, status, outputs) ==
    /\ status \in Transitions[tests[t].step]
    /\ status \in Transitions[tests[t].execution]
    /\ tests' = [tests EXCEPT ![t] = Trace(status, @.inputs, outputs)]

\* The trace is committed, with its inputs, before the runtime is called.
\* A test has the number of the run that it will have.
TestBegin(p) ==
    /\ job[p].phase = "idle" /\ Draw
    /\ Room(TestWeight)
    /\ "running" \in Transitions["pending"]
    /\ \E inputs \in SUBSET Candidates :
        /\ inputs # {} /\ Cardinality(inputs) <= MaxScope
        /\ CreateTrace(inputs)
        /\ Set(p, [phase |-> "traced", test |-> clock + 1,
                   outcome |-> None, outputs |-> {}, runs |-> <<>>])
    /\ UNCHANGED <<runs, draft, lost>>

\* mutant: no savepoint around the runtime
KeepBroken(p, run) ==
    Set(p, [job[p] EXCEPT !.phase = "ran", !.outcome = "failed",
                          !.runs = One(job[p].test, Failed(run))])
\* What the runtime has written is rolled back to the savepoint.
RolledBack(p, run) == Set(p, [job[p] EXCEPT !.phase = "ran", !.outcome = "failed"])

\* The runtime resolves the inputs and its entities become the outputs, or it
\* fails, as it does when an input was named twice.
TestRun(p) ==
    /\ job[p].phase = "traced"
    /\ LET test == job[p].test
           run == Resolved(tests[test].inputs, Context(None, None, <<p, test>>, test))
       IN \/ Set(p, [job[p] EXCEPT !.phase = "ran", !.outcome = "completed",
                                   !.outputs = run.rows, !.runs = One(test, run)])
          \/ RolledBack(p, run)
    /\ UNCHANGED <<runs, tests, draft, clock, lost>>

TestEnd(p) ==
    /\ job[p].phase = "ran"
    /\ EndTrace(job[p].test, job[p].outcome, job[p].outputs)
    /\ runs' = With(runs, job[p].runs)
    /\ Set(p, Idle)
    /\ UNCHANGED <<draft, clock, lost>>

\* A process stops, or its connection is lost.
Crash(p) ==
    /\ job[p].phase # "idle"
    /\ lost' = IF p \in Testers THEN lost \cup {job[p].test} ELSE lost
    /\ Set(p, Idle)
    /\ UNCHANGED <<runs, tests, draft, clock>>

(***************************************************************************)
(* What the readers make of the committed runs                             *)
(***************************************************************************)
OfGroup(g) == {r \in DOMAIN runs :
                 runs[r].context.environment = "experiment" /\ runs[r].context.group = g}
Groups == {runs[r].context.group : r \in DOMAIN runs} \ {None}

\* mutant: the page shows the latest run of each stage
LatestShown(g, v, type) ==
    LET found == {r \in OfGroup(g) : runs[r].type = type /\ runs[r].version = v}
    IN IF found = {} THEN None ELSE Max(found)
\* _pipeline_lab_state and _pipeline_history: the page of a group of a version
\* shows the first run of each stage.
Shown(g, v, type) ==
    LET found == {r \in OfGroup(g) : runs[r].type = type /\ runs[r].version = v}
    IN IF found = {} THEN None ELSE Min(found)

\* CandidateDiscoveryReadService._groups: occurrences by type and value.
Value(c) == IF c.value = None THEN c.raw ELSE c.value
Occurrences(run) ==
    [k \in {<<c.type, Value(c)>> : c \in run.rows} |->
        Cardinality({c \in run.rows : <<c.type, Value(c)>> = k})]

\* CandidateDiscoveryReadService.compare_runs: how each value has changed.
Count(counts, k) == IF k \in DOMAIN counts THEN counts[k] ELSE 0
Changed(before, after, change) ==
    {k \in DOMAIN before \cup DOMAIN after :
        LET m == Count(before, k) n == Count(after, k)
        IN \/ change = "added" /\ m = 0
           \/ change = "removed" /\ m > 0 /\ n = 0
           \/ change = "increased" /\ m > 0 /\ n > m
           \/ change = "decreased" /\ n > 0 /\ n < m
           \/ change = "unchanged" /\ n = m}
Changes == {"added", "removed", "increased", "decreased", "unchanged"}

\* EntityResolutionReadService._counts_by_run, from the rows alone.
Counts(run) ==
    LET memberships == UNION {e \X {e} : e \in run.rows}
        Members(e) == Cardinality({m \in memberships : m[2] = e})
    IN [candidates |-> run.metrics.candidates,
        entities |-> Cardinality(run.rows), memberships |-> Cardinality(memberships),
        evidences |-> Cardinality(memberships),
        singles |-> Cardinality({e \in run.rows : Members(e) <= 1}),
        grouped |-> Cardinality({e \in run.rows : Members(e) > 1}),
        versions |-> Cardinality({m[1].version : m \in memberships})]

(***************************************************************************)
(* What a completed run says it has done is what its rows show             *)
(***************************************************************************)
\* The sum of the counts, as the size of a disjoint union.
Total(counts) == Cardinality(UNION {{k} \X (1 .. counts[k]) : k \in DOMAIN counts})

\* The figures of a run are those of its rows, and its entities part the scope
\* by type and declared value.
Told(run) ==
    LET metrics == run.metrics
    IN  /\ run.type = Types[2] =>
              /\ metrics.units = Cardinality(run.rows)
              /\ metrics.units + metrics.skipped = metrics.blocks
        /\ run.type = Types[3] =>
              /\ metrics.candidates = Total(Occurrences(run))
              /\ metrics.skipped = metrics.units - Cardinality({c.unit : c \in run.rows})
        /\ run.type = Types[4] =>
              /\ metrics = Counts(run)
              /\ \A e, f \in run.rows : e # f => e \cap f = {}
              /\ \A c, d \in UNION run.rows :
                    (\E e \in run.rows : {c, d} \subseteq e)
                      <=> c = d \/ (c.type = d.type /\ c.value = d.value /\ c.value # None)

\* A unit that gives a candidate gives one for each distinct report on it.
Detected(run) ==
    \A u \in {c.unit : c \in run.rows} :
        Cardinality({c \in run.rows : c.unit = u})
          = Cardinality({Key(u, i) : i \in DOMAIN Detections[u]})

\* The changes between two discoveries add up: every value has one, and those
\* that compare two counts are about values of both.
Compared(a, b) ==
    LET before == Occurrences(a) after == Occurrences(b)
        changed == [c \in Changes |-> Changed(before, after, c)]
    IN  /\ \A k \in DOMAIN before \cup DOMAIN after :
              Cardinality({c \in Changes : k \in changed[c]}) = 1
        /\ \A c \in {"increased", "decreased", "unchanged"} :
              changed[c] \subseteq DOMAIN before \cap DOMAIN after

(***************************************************************************)
(* What a table of runs keeps of how each of them came about               *)
(***************************************************************************)
\* The rows that a run may have been made from.
Sources(run) ==
    CASE run.type = Types[2] -> run.rows
      [] run.type = Types[3] -> {c.unit : c \in run.rows}
      [] run.type = Types[4] -> UNION run.rows

Chained(table, r) ==
    LET run == table[r] context == run.context source == context.configuration.source
    IN /\ context.hash = context.configuration
       /\ \A i \in 2 .. 4 :
             /\ run.type = Types[i] /\ run.status = "completed"
             /\ context.environment = "experiment" /\ context.step = None
             => /\ source \in DOMAIN table /\ source < r
                /\ table[source].type = Types[i - 1] /\ table[source].status = "completed"
                /\ table[source].version = run.version
                /\ Sources(run) \subseteq table[source].rows
                /\ context.configuration.manifest # None =>
                      /\ table[source].context.group = context.group
                      /\ table[source].context.configuration.manifest
                            = context.configuration.manifest

\* A group is named by who began it and when: a step test is alone in its
\* group, and so is an experiment on a normalization of production; another
\* experiment joins an execution of the Lab that has ended.
InGroup(table, r, g) == table[r].context.environment = "experiment" /\ table[r].context.group = g
Grouped(table, r) ==
    LET run == table[r] g == run.context.group source == run.context.configuration.source
    IN run.context.environment = "experiment" =>
        /\ g \in Processes \X Nat
        /\ g[1] \in Testers => r = g[2] /\ run.type = Types[4]
        /\ run.context.step # None => g[1] \in Testers
        /\ g[1] \in Experimenters => r = g[2] + 1 /\ run.type = Types[3]
        /\ g[1] \in Labs => g[2] < r
        /\ run.type = Types[2] =>
              \A q \in DOMAIN table : q # r /\ InGroup(table, q, g) /\ table[q].type = Types[2]
                                      => table[q].version # run.version
        /\ /\ run.type \in {Types[2], Types[4]} /\ run.status = "completed"
           /\ run.context.step = None
           => InGroup(table, source, g)
        /\ \A i \in 2 .. 4, q \in DOMAIN table :
              /\ run.type = Types[i] /\ run.status = "completed"
              /\ InGroup(table, q, g) /\ table[q].type = Types[i - 1]
              /\ table[q].version = run.version
              => source <= q /\ InGroup(table, source, g)

\* The stored runs are what earlier executions have left, of documents that the
\* detectors can read.
Sound(run) ==
    /\ run.type # Types[4] => IsFiniteSet(run.rows)
    /\ run.type \in {Types[1], Types[2]} => run.rows \subseteq DOMAIN Detections
    /\ run.status = "completed" => Told(run)
ASSUME StoredAssumption ==
    /\ IsFiniteSet(DOMAIN Stored) /\ DOMAIN Stored = 1 .. Cardinality(DOMAIN Stored)
    /\ \A r \in DOMAIN Stored :
          /\ Chained(Stored, r) /\ Grouped(Stored, r) /\ Stored[r].context.step = None
          /\ Sound(Stored[r])

(***************************************************************************)
(* Specification                                                           *)
(***************************************************************************)
Init ==
    /\ runs = Stored /\ tests = <<>>
    /\ draft \in Manifests
    /\ clock = Cardinality(DOMAIN Stored)
    /\ job = [p \in Processes |-> Idle]
    /\ lost = {}

LabStep(p) ==
    \/ LabPerceive(p) \/ LabInterrupted(p)
    \/ LabNormalize(p) \/ LabDiscover(p) \/ LabResolve(p)
              \/ LabStop(p) \/ LabCommit(p)

Next ==
    \/ \E p \in Labs : LabBegin(p) \/ LabStep(p) \/ Crash(p)
    \/ \E p \in Experimenters : ExperimentDiscover(p) \/ ExperimentEnd(p) \/ Crash(p)
    \/ \E p \in Testers : TestBegin(p) \/ TestRun(p) \/ TestEnd(p) \/ Crash(p)
    \/ Save

Spec == Init /\ [][Next]_vars

\* A request that is being served goes on; nothing makes a caller begin.
Fairness == \A p \in Testers : WF_vars(TestRun(p) \/ TestEnd(p))
FairSpec == Spec /\ Fairness

(***************************************************************************)
(* Properties                                                              *)
(***************************************************************************)
Ended == {"completed", "failed"}

\* A completed run of an experiment was made from the rows of one completed
\* run of the stage before, for the same version, committed no later; runs of
\* the Lab come from the same execution and the same manifest, whatever was
\* saved or run meanwhile.  The hash is the one of the configuration, which
\* the adapters change after the run has ended.
ChainWhole == \A r \in DOMAIN runs : Chained(runs, r)

\* What a completed run says it has done is what its rows show to the readers:
\* every unit gives the distinct reports on it and is else skipped, the groups
\* of two discoveries and the changes between them add up, and the entities
\* part the scope by type and declared value.
CountsAgree ==
    \A r \in {q \in DOMAIN runs : runs[q].status = "completed"} :
        /\ Told(runs[r])
        /\ runs[r].type = Types[3] =>
              /\ r \notin DOMAIN Stored => Detected(runs[r])
              /\ \A q \in DOMAIN runs : runs[q].type = Types[3] => Compared(runs[q], runs[r])

\* The runs that a step test has stored.
RunsOf(t) == {r \in DOMAIN runs : runs[r].context.step = t}

\* The trace of a step test tells the whole of it: a completed one has one run
\* and the entities of that run as outputs, made from its inputs; one that
\* failed or was interrupted has neither run nor output.
TraceWhole ==
    /\ \A t \in DOMAIN tests :
          /\ tests[t].execution = tests[t].step
          /\ tests[t].step = "running" =>
                t \in lost \/ \E p \in Testers : job[p].phase # "idle" /\ job[p].test = t
          /\ tests[t].step = "completed" =>
                \E r \in DOMAIN runs : /\ RunsOf(t) = {r} /\ runs[r].status = "completed"
                                      /\ tests[t].outputs = runs[r].rows
                                      /\ UNION runs[r].rows = tests[t].inputs
          /\ tests[t].step # "completed" => RunsOf(t) = {} /\ tests[t].outputs = {}
    /\ \A r \in DOMAIN runs : runs[r].context.step \in {None} \cup DOMAIN tests

\* The page of an execution shows one chain: a completed run it shows was made
\* from the run it shows for the stage before, although experiments add
\* discoveries to the group of the execution whose normalization they read.
PageTellsOneChain ==
    \A g \in Groups, v \in Versions, i \in 2 .. 4 :
        LET earlier == Shown(g, v, Types[i - 1]) later == Shown(g, v, Types[i])
        IN /\ earlier # None /\ later # None
           /\ runs[later].status = "completed"
           => runs[later].context.configuration.source = earlier

\* A step test whose process goes on is ended, whatever the runtime does; with
\* TraceWhole, its trace does not stay "running".
TestsEnd == \A p \in Testers : job[p].phase # "idle" ~> job[p].phase = "idle"

=============================================================================
