------------------------ MODULE DocumentPipeline_proofs ------------------------
(***************************************************************************)
(* DocumentPipeline for every set of sessions, of versions, of blocks, of  *)
(* detections and of manifests, after every table of stored runs that such *)
(* sessions may have left, and for any number of runs.                     *)
(***************************************************************************)
EXTENDS DocumentPipeline, FiniteSetTheorems, WellFoundedInduction, TLAPS

\* The numbers that a session has drawn and not committed.
Drawn(p) ==
    IF job[p].phase = "idle" THEN {}
    ELSE IF p \in Testers THEN {job[p].test} ELSE DOMAIN job[p].runs

Numbers ==
    /\ clock \in Nat /\ DOMAIN job = Processes
    /\ DOMAIN runs \subseteq 1 .. clock /\ DOMAIN tests \subseteq 1 .. clock
    /\ lost \subseteq DOMAIN tests
    /\ \A p \in Processes : Drawn(p) \subseteq 1 .. clock /\ Drawn(p) \cap DOMAIN runs = {}
    /\ \A p, q \in Processes : p # q => Drawn(p) \cap Drawn(q) = {}

\* An execution of the Lab: its group is new, and its runs so far are one for
\* each stage, each made from the run of the stage before.  A perception that
\* was interrupted names no manifest, and no run comes after it.
Alone(j, r) == j.phase # "running" /\ DOMAIN j.runs = {r}
MadeBy(j, r, run, context, source) ==
    /\ j.group[2] < r
    /\ context.hash = context.configuration
    /\ context.environment = "experiment" /\ context.group = j.group /\ context.step = None
    /\ \E s \in 1 .. 4 : s < j.stage /\ run.type = Types[s]
    /\ \A q \in DOMAIN j.runs : j.runs[q].type = run.type => q = r
    /\ run.status = "completed" => context.configuration.manifest = j.manifest \/ Alone(j, r)
    /\ \A i \in 2 .. 4 :
          run.type = Types[i] /\ run.status = "completed" =>
             /\ source \in DOMAIN j.runs /\ source < r
             /\ j.runs[source].type = Types[i - 1] /\ j.runs[source].status = "completed"
             /\ j.runs[source].version = run.version
             /\ Sources(run) \subseteq j.runs[source].rows
LabRun(j, r) ==
    LET run == j.runs[r]
    IN MadeBy(j, r, run, run.context, run.context.configuration.source)

LabShape(j) ==
    j = [phase |-> j.phase, stage |-> j.stage, manifest |-> j.manifest, version |-> j.version,
         group |-> j.group, last |-> j.last, runs |-> j.runs]
LabOK(p) ==
    LET j == job[p] IN
    j.phase # "idle" =>
        /\ LabShape(j)
        /\ j.phase \in {"running", "ended"}
        /\ j.group \in {p} \X (0 .. clock)
        /\ \A r \in DOMAIN runs : ~ InGroup(runs, r, j.group)
        /\ \A r \in DOMAIN j.runs : LabRun(j, r)
        /\ j.phase = "running" =>
              /\ j.stage \in 1 .. 4
              /\ j.stage > 1 =>
                    /\ j.last \in DOMAIN j.runs
                    /\ j.runs[j.last].type = Types[j.stage - 1]
                    /\ j.runs[j.last].status = "completed"
                    /\ j.runs[j.last].version = j.version
                    /\ j.stage = 4 => \A c \in j.runs[j.last].rows : c.version = j.version

\* An experiment: its discovery was made from a committed normalization, and it
\* is later than every resolution of the group that it joins.
ExperimentOK(p) ==
    LET j == job[p] IN
    j.phase # "idle" =>
        /\ j.phase \in {"keep", "drop"}
        /\ \E r \in 1 .. clock : \E n \in DOMAIN runs :
              LET run == j.runs[r] IN
              /\ DOMAIN j.runs = {r} /\ n < r
              /\ Completed(n, Types[2])
              /\ run.type = Types[3] /\ run.status = "completed" /\ run.version = runs[n].version
              /\ Sources(run) \subseteq runs[n].rows
              /\ run.context.environment = "experiment" /\ run.context.step = None
              /\ run.context.configuration = [source |-> n, manifest |-> None]
              /\ run.context.hash = run.context.configuration
              /\ run.context.group = IF runs[n].context.environment = "experiment"
                                     THEN runs[n].context.group ELSE <<p, r - 1>>
              /\ \A q \in DOMAIN runs :
                    InGroup(runs, q, run.context.group) /\ runs[q].type = Types[4] => q < r

\* A step test: its trace is running, and its run tells of the same rows.
TestShape(j) ==
    j = [phase |-> j.phase, test |-> j.test, outcome |-> j.outcome, outputs |-> j.outputs,
         runs |-> j.runs]
TestOK(p) ==
    LET j == job[p] IN
    j.phase # "idle" =>
        /\ TestShape(j)
        /\ j.phase \in {"traced", "ran"}
        /\ j.test \in DOMAIN tests /\ j.test \notin lost
        /\ tests[j.test].execution = "running" /\ tests[j.test].step = "running"
        /\ j.phase = "traced" => DOMAIN j.runs = {} /\ j.outputs = {}
        /\ j.phase = "ran" =>
              \/ j.outcome = "failed" /\ DOMAIN j.runs = {} /\ j.outputs = {}
              \/ /\ j.outcome = "completed" /\ DOMAIN j.runs = {j.test}
                 /\ LET run == j.runs[j.test] IN
                    /\ run.type = Types[4] /\ run.status = "completed"
                    /\ run.context.hash = run.context.configuration
                    /\ run.context.environment = "experiment"
                    /\ run.context.group = <<p, j.test>> /\ run.context.step = j.test
                    /\ run.rows = j.outputs /\ UNION run.rows = tests[j.test].inputs

IInv ==
    /\ Numbers
    /\ \A p \in Labs : LabOK(p)
    /\ \A p \in Experimenters : ExperimentOK(p)
    /\ \A p \in Testers : TestOK(p)
    /\ \A r \in DOMAIN runs : Chained(runs, r) /\ Grouped(runs, r)
    /\ TraceWhole

-----------------------------------------------------------------------------
\* Tables, types and runs.

LEMMA TypesDistinct ==
    /\ \A i, k \in 1 .. 4 : Types[i] = Types[k] => i = k
    /\ Types[1] # Types[2] /\ Types[1] # Types[3] /\ Types[1] # Types[4]
    /\ Types[2] # Types[3] /\ Types[2] # Types[4] /\ Types[3] # Types[4]
<1>1. /\ Types[1] # Types[2] /\ Types[1] # Types[3] /\ Types[1] # Types[4]
      /\ Types[2] # Types[3] /\ Types[2] # Types[4] /\ Types[3] # Types[4]
    BY DEF Types
<1>2. ASSUME NEW i \in 1 .. 4, NEW k \in 1 .. 4, Types[i] = Types[k] PROVE i = k
  <2>1. i \in {1, 2, 3, 4} /\ k \in {1, 2, 3, 4}
      OBVIOUS
  <2> QED
      BY <1>1, <1>2, <2>1
<1> QED
    BY <1>1, <1>2

LEMMA OneIs == \A r, run : DOMAIN One(r, run) = {r} /\ One(r, run)[r] = run
BY DEF One

\* The fields of a run of a service, and of one that failed.
LEMMA RunIs ==
    ASSUME NEW type, NEW version, NEW context, NEW status, NEW rows, NEW metrics,
           NEW run, run = Run(type, version, context, status, rows, metrics)
    PROVE  /\ run.type = type /\ run.version = version /\ run.context = context
           /\ run.status = status /\ run.rows = rows /\ run.metrics = metrics
           /\ Failed(run).type = type /\ Failed(run).context = context
           /\ Failed(run).version = version
           /\ Failed(run).status = "failed" /\ Failed(run).rows = {}
BY DEF Run, Failed

LEMMA ContextIs ==
    ASSUME NEW source, NEW manifest, NEW group, NEW step, group # None
    PROVE  LET context == Context(source, manifest, group, step) IN
           /\ context.hash = context.configuration
           /\ context.configuration = [source |-> source, manifest |-> manifest]
           /\ context.environment = "experiment"
           /\ context.group = group /\ context.step = step
BY DEF Context

\* Entities part the candidates, those of one type that declare one value.
LEMMA EntitiesUnion ==
    ASSUME NEW scope
    PROVE  UNION Entities(scope) = scope
<1>1. \A c \in scope : c \in {d \in scope : EntityKey(d) = EntityKey(c)}
    OBVIOUS
<1>2. \A e \in Entities(scope) : e \subseteq scope
    BY DEF Entities
<1>3. \A c \in scope : \E e \in Entities(scope) : c \in e
    BY <1>1 DEF Entities
<1> QED
    BY <1>2, <1>3

LEMMA DiscoveredIs ==
    ASSUME NEW r, NEW normalization, NEW context, NEW run,
           run = Discovered(r, normalization, context)
    PROVE  /\ \E rows, metrics : run = Run(Types[3], normalization.version, context,
                                          "completed", rows, metrics)
           /\ run.type = Types[3] /\ run.version = normalization.version
           /\ run.context = context /\ run.status = "completed"
           /\ \A c \in run.rows : c.unit \in normalization.rows
                               /\ c.version = normalization.version
<1> DEFINE units == normalization.rows
           found == UNION {{u} \X DOMAIN Detections[u] : u \in units}
           kept == {f \in found : First(units, f[1], f[2])}
<1>1. PICK metrics : run = Run(Types[3], normalization.version, context, "completed",
            {Candidate(r, f[1], f[2], normalization.version) : f \in kept}, metrics)
    BY DEF Discovered
<1>2. /\ run.type = Types[3] /\ run.version = normalization.version
      /\ run.context = context /\ run.status = "completed"
      /\ run.rows = {Candidate(r, f[1], f[2], normalization.version) : f \in kept}
    BY <1>1, RunIs
<1>3. \A f \in kept : f[1] \in units
    OBVIOUS
<1>4. \A c \in run.rows : \E f \in kept : c = Candidate(r, f[1], f[2], normalization.version)
    BY <1>2
<1>5. ASSUME NEW c \in run.rows
      PROVE  c.unit \in normalization.rows /\ c.version = normalization.version
  <2>1. PICK f \in kept : c = Candidate(r, f[1], f[2], normalization.version)
      BY <1>4
  <2>2. c.unit = f[1] /\ c.version = normalization.version
      BY <2>1 DEF Candidate
  <2> QED
      BY <1>3, <2>2
<1> QED
    BY <1>1, <1>2, <1>5

LEMMA NormalizedIs ==
    ASSUME NEW perception, NEW context, NEW run, run = Normalized(perception, context)
    PROVE  /\ run.type = Types[2] /\ run.version = perception.version /\ run.context = context
           /\ run.rows \subseteq perception.rows
           /\ Failed(run).type = Types[2] /\ Failed(run).context = context
           /\ Failed(run).version = perception.version /\ Failed(run).status = "failed"
<1> DEFINE units == perception.rows \ Blank
<1>1. PICK good : good = Run(Types[2], perception.version, context, "completed", units,
            [blocks |-> Cardinality(perception.rows), units |-> Cardinality(units),
             skipped |-> Cardinality(perception.rows \cap Blank)])
    OBVIOUS
<1>2. run = IF units = {} THEN Failed(good) ELSE good
    BY <1>1 DEF Normalized
<1>3. good.type = Types[2] /\ good.version = perception.version /\ good.context = context
      /\ good.rows = units
    BY <1>1, RunIs
<1>4. CASE run = good
    BY <1>1, <1>3, <1>4, RunIs
<1>5. CASE run = Failed(good)
  <2>1. run = [good EXCEPT !.status = "failed", !.rows = {}]
      BY <1>5 DEF Failed
  <2>2. run = Run(Types[2], perception.version, context, "failed", {}, good.metrics)
      BY <1>1, <2>1 DEF Run
  <2> QED
      BY <2>2, RunIs
<1> QED
    BY <1>2, <1>4, <1>5

LEMMA PerceivedIs ==
    ASSUME NEW version, NEW blocks, NEW context, NEW run, run = Perceived(version, blocks, context)
    PROVE  /\ run.type = Types[1] /\ run.version = version /\ run.context = context
           /\ run.status = "completed" /\ run.rows = blocks
BY RunIs DEF Perceived

LEMMA ResolvedIs ==
    ASSUME NEW scope, NEW context, NEW run, run = Resolved(scope, context)
    PROVE  /\ \E version, rows, metrics : run = Run(Types[4], version, context,
                                                   "completed", rows, metrics)
           /\ run.type = Types[4] /\ run.context = context /\ run.status = "completed"
           /\ run.rows = Entities(scope) /\ UNION run.rows = scope
           /\ \A v : scope # {} /\ (\A c \in scope : c.version = v) => run.version = v
<1> DEFINE versions == {c.version : c \in scope}
           version == IF Cardinality(versions) = 1 THEN CHOOSE v \in versions : TRUE ELSE None
<1>1. PICK metrics : run = Run(Types[4], version, context, "completed", Entities(scope), metrics)
    BY DEF Resolved
<1>2. /\ run.type = Types[4] /\ run.context = context /\ run.status = "completed"
      /\ run.rows = Entities(scope) /\ run.version = version
    BY <1>1, RunIs
<1>3. ASSUME NEW v, scope # {}, \A c \in scope : c.version = v PROVE version = v
  <2>1. versions = {v}
      BY <1>3
  <2>2. Cardinality(versions) = 1
      BY <2>1, FS_Singleton
  <2>3. (CHOOSE x \in {v} : TRUE) = v
      OBVIOUS
  <2> QED
      BY <2>1, <2>2, <2>3
<1> QED
    BY <1>1, <1>2, <1>3, EntitiesUnion

\* A run of the Lab, whatever it has counted.
Made(run, type, group, source, manifest) ==
    \E version, status, rows, metrics :
        run = Run(type, version,
                  [environment |-> "experiment", group |-> group, step |-> None,
                   configuration |-> [source |-> source, manifest |-> manifest],
                   hash |-> [source |-> source, manifest |-> manifest]],
                  status, rows, metrics)

\* The parts of such a run.
LEMMA MadeIs ==
    ASSUME NEW run, NEW type, NEW group, NEW source, NEW manifest,
           Made(run, type, group, source, manifest)
    PROVE  \E version, status, rows, metrics, context :
             /\ run = [type |-> type, version |-> version, context |-> context,
                       status |-> status, rows |-> rows, metrics |-> metrics]
             /\ context = [environment |-> "experiment", group |-> group, step |-> None,
                           configuration |-> [source |-> source, manifest |-> manifest],
                           hash |-> [source |-> source, manifest |-> manifest]]
BY DEF Made, Run

\* What a failure does to a run before it is broken.
LEMMA UnmeasuredIs ==
    ASSUME NEW run, NEW type, NEW group, NEW source, NEW manifest,
           Made(run, type, group, source, manifest),
           NEW none, NEW other, other = [run EXCEPT !.metrics = none]
    PROVE  Made(other, type, group, source, manifest)
<1>1. other = [run EXCEPT !.metrics = none]
    OBVIOUS
<1>2. PICK version, status, rows, metrics, context :
         /\ run = [type |-> type, version |-> version, context |-> context,
                   status |-> status, rows |-> rows, metrics |-> metrics]
         /\ context = [environment |-> "experiment", group |-> group, step |-> None,
                       configuration |-> [source |-> source, manifest |-> manifest],
                       hash |-> [source |-> source, manifest |-> manifest]]
    BY MadeIs
<1>3. other = [type |-> type, version |-> version, context |-> context,
               status |-> status, rows |-> rows, metrics |-> none]
    BY ONLY <1>1, <1>2
<1>4. other = Run(type, version, context, status, rows, none)
    BY <1>3 DEF Run
<1> QED
    BY <1>2, <1>4 DEF Made

LEMMA UncountedIs ==
    ASSUME NEW run, NEW type, NEW group, NEW source, NEW manifest,
           Made(run, type, group, source, manifest),
           NEW other,
           other = [run EXCEPT !.metrics.entities = 0, !.metrics.memberships = 0,
                 !.metrics.evidences = 0, !.metrics.singles = 0, !.metrics.grouped = 0]
    PROVE  Made(other, type, group, source, manifest)
<1>1. other = [run EXCEPT !.metrics.entities = 0, !.metrics.memberships = 0,
                 !.metrics.evidences = 0, !.metrics.singles = 0, !.metrics.grouped = 0]
    OBVIOUS
<1>2. PICK version, status, rows, metrics, context :
         /\ run = [type |-> type, version |-> version, context |-> context,
                   status |-> status, rows |-> rows, metrics |-> metrics]
         /\ context = [environment |-> "experiment", group |-> group, step |-> None,
                       configuration |-> [source |-> source, manifest |-> manifest],
                       hash |-> [source |-> source, manifest |-> manifest]]
    BY MadeIs
<1>3. other = [type |-> type, version |-> version, context |-> context,
               status |-> status, rows |-> rows, metrics |-> other.metrics]
    BY ONLY <1>1, <1>2
<1>4. other = Run(type, version, context, status, rows, other.metrics)
    BY <1>3 DEF Run
<1> QED
    BY <1>2, <1>4 DEF Made

LEMMA UntoldIs ==
    ASSUME NEW run, NEW type, NEW group, NEW source, NEW manifest,
           Made(run, type, group, source, manifest),
           NEW other, other = [run EXCEPT !.context.configuration.source = None,
                                          !.context.hash.source = None]
    PROVE  Made(other, type, group, None, manifest)
<1>1. other = [run EXCEPT !.context.configuration.source = None,
                          !.context.hash.source = None]
    OBVIOUS
<1>2. PICK version, status, rows, metrics, context :
         /\ run = [type |-> type, version |-> version, context |-> context,
                   status |-> status, rows |-> rows, metrics |-> metrics]
         /\ context = [environment |-> "experiment", group |-> group, step |-> None,
                       configuration |-> [source |-> source, manifest |-> manifest],
                       hash |-> [source |-> source, manifest |-> manifest]]
    BY MadeIs
<1>3. other = [type |-> type, version |-> version, context |-> other.context,
               status |-> status, rows |-> rows, metrics |-> metrics]
    BY ONLY <1>1, <1>2
<1>4. other.context = [environment |-> "experiment", group |-> group, step |-> None,
                       configuration |-> other.context.configuration,
                       hash |-> other.context.hash]
    BY ONLY <1>1, <1>2
<1>5. other.context.hash = [source |-> None, manifest |-> manifest]
    BY ONLY <1>1, <1>2
<1>6. other.context.configuration = [source |-> None, manifest |-> manifest]
    BY ONLY <1>1, <1>2
<1> QED
    BY <1>3, <1>4, <1>5, <1>6 DEF Made, Run

\* An interrupted run keeps all but the manifest, and a broken one neither that
\* nor its rows.
LEMMA BrokenIs ==
    ASSUME NEW run, NEW type, NEW group, NEW source, NEW manifest,
           Made(run, type, group, source, manifest)
    PROVE  /\ Broken(run).type = type /\ Broken(run).status = "failed" /\ Broken(run).rows = {}
           /\ Broken(run).context.hash = Broken(run).context.configuration
           /\ Broken(run).context.environment = "experiment"
           /\ Broken(run).context.group = group /\ Broken(run).context.step = None
           /\ Untold(run).type = type /\ Untold(run).status = run.status
           /\ Untold(run).rows = run.rows /\ Untold(run).version = run.version
           /\ Untold(run).context.hash = Untold(run).context.configuration
           /\ Untold(run).context.environment = "experiment"
           /\ Untold(run).context.group = group /\ Untold(run).context.step = None
<1>1. PICK b : b = Untold(run)
    OBVIOUS
<1>0. b = [run EXCEPT !.context.configuration.manifest = None,
                      !.context.hash.manifest = None]
    BY <1>1 DEF Untold
<1>2. PICK version, status, rows, metrics, context :
         /\ run = [type |-> type, version |-> version, context |-> context,
                   status |-> status, rows |-> rows, metrics |-> metrics]
         /\ context = [environment |-> "experiment", group |-> group, step |-> None,
                       configuration |-> [source |-> source, manifest |-> manifest],
                       hash |-> [source |-> source, manifest |-> manifest]]
    BY MadeIs
<1>3. b.type = type
    BY ONLY <1>0, <1>2
<1>4. b.context.environment = "experiment" /\ b.context.group = group /\ b.context.step = None
    BY ONLY <1>0, <1>2
<1>5. b.context.hash = [source |-> source, manifest |-> None]
    BY ONLY <1>0, <1>2
<1>6. b.context.configuration = [source |-> source, manifest |-> None]
    BY ONLY <1>0, <1>2
<1>7. Broken(run) = [b EXCEPT !.status = "failed", !.rows = {}]
    BY <1>1 DEF Broken, Failed
<1>8. b = [type |-> b.type, version |-> b.version, context |-> b.context,
           status |-> b.status, rows |-> b.rows, metrics |-> b.metrics]
    BY ONLY <1>0, <1>2
<1>9. /\ Broken(run).type = b.type /\ Broken(run).status = "failed" /\ Broken(run).rows = {}
      /\ Broken(run).context = b.context
    BY <1>7, <1>8
<1>10. b.status = run.status /\ b.rows = run.rows /\ b.version = run.version
    BY ONLY <1>0, <1>2
<1> QED
    BY <1>1, <1>3, <1>4, <1>5, <1>6, <1>9, <1>10

-----------------------------------------------------------------------------
\* What a step of a session leaves alone: the other sessions, the runs that are
\* committed, and the traces of other tests.

Moved(p) ==
    /\ DOMAIN job' = Processes
    /\ \A q \in Processes : q # p => job'[q] = job[q]
    /\ clock' \in {clock, clock + 1}
    /\ Drawn(p)' \subseteq Drawn(p) \cup ((clock + 1) .. clock')
    /\ DOMAIN tests \subseteq DOMAIN tests'
    /\ DOMAIN tests' \subseteq DOMAIN tests \cup ((clock + 1) .. clock')
    /\ \A t \in DOMAIN tests \ Drawn(p) : tests'[t] = tests[t]
    /\ lost' \subseteq lost \cup (Drawn(p) \cap DOMAIN tests)
    /\ \/ runs' = runs
       \/ /\ job[p].phase # "idle" /\ job'[p].phase = "idle"
          /\ runs' = With(runs, job[p].runs) /\ DOMAIN job[p].runs \subseteq Drawn(p)

\* The kinds of sessions are told apart.
LEMMA Kinds ==
    ASSUME NEW p \in Processes
    PROVE  /\ p \in Labs => p \notin Experimenters /\ p \notin Testers
           /\ p \in Experimenters => p \notin Labs /\ p \notin Testers
           /\ p \in Testers => p \notin Labs /\ p \notin Experimenters
           /\ p \in Labs \/ p \in Experimenters \/ p \in Testers
BY ProcessesAssumption DEF Processes

\* The groups of the runs that a session has not committed.
LEMMA PendingGroups ==
    ASSUME IInv, NEW p \in Processes, job[p].phase # "idle", NEW r \in DOMAIN job[p].runs
    PROVE  LET run == job[p].runs[r] g == run.context.group IN
           /\ run.context.environment = "experiment"
           /\ p \in Labs => g = job[p].group /\ g[1] = p
           /\ p \in Testers => g = <<p, job[p].test>> /\ g[1] = p /\ run.type = Types[4]
           /\ p \in Experimenters =>
                 /\ run.type = Types[3]
                 /\ \/ g = <<p, r - 1>> /\ g[1] = p
                    \/ \E n \in DOMAIN runs : InGroup(runs, n, g) /\ runs[n].type = Types[2]
<1>1. CASE p \in Labs
  <2>1. LabOK(p)
      BY <1>1 DEF IInv
  <2>2. LabRun(job[p], r) /\ job[p].group \in {p} \X (0 .. clock)
      BY <2>1 DEF LabOK
  <2>3. job[p].group[1] = p
      BY <2>2
  <2>4. p \notin Testers /\ p \notin Experimenters
      BY <1>1, Kinds
  <2> QED
      BY <2>2, <2>3, <2>4 DEF LabRun, MadeBy
<1>2. CASE p \in Experimenters
  <2>1. ExperimentOK(p)
      BY <1>2 DEF IInv
  <2>2. PICK x \in 1 .. clock, n \in DOMAIN runs :
              LET run == job[p].runs[x] IN
              /\ DOMAIN job[p].runs = {x}
              /\ Completed(n, Types[2])
              /\ run.type = Types[3] /\ run.context.environment = "experiment"
              /\ run.context.group = IF runs[n].context.environment = "experiment"
                                     THEN runs[n].context.group ELSE <<p, x - 1>>
      BY <2>1 DEF ExperimentOK
  <2>3. p \notin Testers /\ p \notin Labs
      BY <1>2, Kinds
  <2>4. r = x
      BY <2>2
  <2>5. runs[n].type = Types[2]
      BY <2>2 DEF Completed
  <2>6. CASE runs[n].context.environment = "experiment"
    <3>1. InGroup(runs, n, job[p].runs[r].context.group)
        BY <2>2, <2>4, <2>6 DEF InGroup
    <3> QED
        BY <2>2, <2>3, <2>4, <2>5, <3>1
  <2>7. CASE runs[n].context.environment # "experiment"
    <3>1. job[p].runs[r].context.group = <<p, r - 1>>
        BY <2>2, <2>4, <2>7
    <3> QED
        BY <2>2, <2>3, <2>4, <3>1
  <2> QED
      BY <2>6, <2>7
<1>3. CASE p \in Testers
  <2>1. TestOK(p)
      BY <1>3 DEF IInv
  <2>2. DOMAIN job[p].runs # {}
      OBVIOUS
  <2>3. /\ DOMAIN job[p].runs = {job[p].test}
        /\ LET run == job[p].runs[job[p].test] IN
           /\ run.type = Types[4] /\ run.context.environment = "experiment"
           /\ run.context.group = <<p, job[p].test>>
      BY <2>1, <2>2 DEF TestOK
  <2>4. r = job[p].test
      BY <2>3
  <2>5. p \notin Labs /\ p \notin Experimenters
      BY <1>3, Kinds
  <2>6. PICK run : run = job[p].runs[r]
      OBVIOUS
  <2>7. run.type = Types[4] /\ run.context.environment = "experiment"
        /\ run.context.group = <<p, job[p].test>>
      BY <2>3, <2>4, <2>6
  <2>8. run.context.group[1] = p
      BY <2>7
  <2> QED
      BY <2>5, <2>6, <2>7, <2>8
<1> QED
    BY <1>1, <1>2, <1>3, Kinds

\* A committed run is in the table after the step, as it was.
LEMMA RunsKept ==
    ASSUME IInv, NEW p \in Processes, Moved(p)
    PROVE  /\ \A r \in DOMAIN runs : r \in DOMAIN runs' /\ runs'[r] = runs[r]
           /\ \A r \in DOMAIN runs' \ DOMAIN runs :
                 /\ job[p].phase # "idle" /\ r \in DOMAIN job[p].runs /\ r \in Drawn(p)
                 /\ runs'[r] = job[p].runs[r]
           /\ DOMAIN runs' \subseteq DOMAIN runs \cup Drawn(p)
           /\ runs' # runs => Drawn(p)' = {}
<1>1. CASE runs' = runs
    BY <1>1
<1>2. CASE /\ job[p].phase # "idle" /\ job'[p].phase = "idle"
           /\ runs' = With(runs, job[p].runs) /\ DOMAIN job[p].runs \subseteq Drawn(p)
  <2>1. Drawn(p) \cap DOMAIN runs = {}
      BY DEF IInv, Numbers
  <2>2. /\ DOMAIN runs' = DOMAIN runs \cup DOMAIN job[p].runs
        /\ \A r \in DOMAIN job[p].runs : runs'[r] = job[p].runs[r]
        /\ \A r \in DOMAIN runs \ DOMAIN job[p].runs : runs'[r] = runs[r]
    <3>1. PICK more : more = job[p].runs
        OBVIOUS
    <3>2. PICK table : table = With(runs, more)
        OBVIOUS
    <3>3. /\ DOMAIN table = DOMAIN runs \cup DOMAIN more
          /\ \A r \in DOMAIN more : table[r] = more[r]
          /\ \A r \in DOMAIN runs \ DOMAIN more : table[r] = runs[r]
        BY <3>2 DEF With
    <3> QED
        BY <1>2, <3>1, <3>2, <3>3
  <2>3. \A r \in DOMAIN runs : r \notin DOMAIN job[p].runs
      BY <1>2, <2>1
  <2>4. Drawn(p)' = {}
      BY <1>2 DEF Drawn
  <2> QED
      BY <1>2, <2>2, <2>3, <2>4
<1> QED
    BY <1>1, <1>2 DEF Moved

LEMMA NumbersKept ==
    ASSUME IInv, NEW p \in Processes, Moved(p)
    PROVE  Numbers'
<1> USE DEF Numbers
<1>1. Numbers
    BY DEF IInv
<1>2. clock' \in Nat /\ clock <= clock' /\ DOMAIN job' = Processes
    BY <1>1 DEF Moved
<1>3. \A i \in 1 .. clock : i \in 1 .. clock'
    BY <1>1, <1>2
<1>4. \A i \in (clock + 1) .. clock' : i \in 1 .. clock' /\ i \notin 1 .. clock
    BY <1>1, <1>2
<1>5. DOMAIN runs' \subseteq 1 .. clock'
    BY <1>1, <1>3, RunsKept
<1>6. DOMAIN tests' \subseteq 1 .. clock'
    BY <1>1, <1>3, <1>4 DEF Moved
<1>7. lost' \subseteq DOMAIN tests'
    BY <1>1 DEF Moved
<1>8. \A q \in Processes : q # p => Drawn(q)' = Drawn(q)
    BY DEF Moved, Drawn
<1>9. Drawn(p)' \subseteq Drawn(p) \cup ((clock + 1) .. clock')
    BY DEF Moved
<1>10. ASSUME NEW q \in Processes PROVE Drawn(q)' \subseteq 1 .. clock' /\ Drawn(q)' \cap DOMAIN runs' = {}
  <2>1. CASE q = p
    <3>1. Drawn(p)' \subseteq 1 .. clock'
        BY <1>1, <1>3, <1>4, <1>9
    <3>2. CASE runs' = runs
      <4>1. \A i \in Drawn(p) : i \notin DOMAIN runs
          BY <1>1
      <4>2. \A i \in (clock + 1) .. clock' : i \notin DOMAIN runs
          BY <1>1, <1>4
      <4> QED
          BY <1>9, <2>1, <3>1, <3>2, <4>1, <4>2
    <3>3. CASE runs' # runs
        BY <2>1, <3>1, <3>3, RunsKept
    <3> QED
        BY <3>2, <3>3
  <2>2. CASE q # p
    <3>1. Drawn(q)' \subseteq 1 .. clock'
        BY <1>1, <1>3, <1>8, <2>2
    <3>2. Drawn(q) \cap (DOMAIN runs \cup Drawn(p)) = {}
        BY <1>1, <2>2
    <3> QED
        BY <1>8, <2>2, <3>1, <3>2, RunsKept
  <2> QED
      BY <2>1, <2>2
<1>11. ASSUME NEW q \in Processes, NEW o \in Processes, q # o PROVE Drawn(q)' \cap Drawn(o)' = {}
  <2>1. \A x \in Processes : x # p => Drawn(x) \cap (Drawn(p) \cup ((clock + 1) .. clock')) = {}
      BY <1>1, <1>4
  <2>2. CASE q = p
      BY <1>8, <1>9, <1>11, <2>1, <2>2
  <2>3. CASE o = p
      BY <1>8, <1>9, <1>11, <2>1, <2>3
  <2>4. CASE q # p /\ o # p
      BY <1>1, <1>8, <1>11, <2>4
  <2> QED
      BY <2>2, <2>3, <2>4
<1> QED
    BY <1>2, <1>5, <1>6, <1>7, <1>10, <1>11

LEMMA LabKept ==
    ASSUME IInv, NEW p \in Processes, Moved(p), NEW q \in Labs, q # p
    PROVE  LabOK(q)'
<1>1. q \in Processes /\ p \in Processes
    BY DEF Processes
<1>2. PICK j : j = job[q] /\ j = job'[q]
    BY <1>1 DEF Moved
<1>3. SUFFICES ASSUME j.phase # "idle" PROVE LabOK(q)'
    BY <1>2 DEF LabOK
<1>0. LabOK(q)
    BY DEF IInv
<1>4. j.group \in {q} \X (0 .. clock) /\ \A r \in DOMAIN runs : ~ InGroup(runs, r, j.group)
    BY <1>0, <1>2, <1>3 DEF LabOK
<1>5. clock \in Nat /\ clock' \in {clock, clock + 1}
    BY DEF IInv, Numbers, Moved
<1>6. j.group \in {q} \X (0 .. clock') /\ j.group[1] = q
    BY <1>4, <1>5
<1>7. ASSUME NEW r \in DOMAIN runs', InGroup(runs', r, j.group) PROVE FALSE
  <2>1. r \notin DOMAIN runs
      BY <1>4, <1>7, RunsKept DEF InGroup
  <2>2. job[p].phase # "idle" /\ r \in DOMAIN job[p].runs /\ runs'[r] = job[p].runs[r]
      BY <2>1, RunsKept
  <2>3. job[p].runs[r].context.group = j.group
      BY <1>7, <2>2 DEF InGroup
  <2>4. p \in Experimenters
      BY <1>1, <1>6, <2>2, <2>3, PendingGroups, Kinds
  <2>5. \/ j.group[1] = p
        \/ \E n \in DOMAIN runs : InGroup(runs, n, j.group)
      BY <2>2, <2>3, <2>4, PendingGroups
  <2> QED
      BY <1>4, <1>6, <2>5
<1> QED
    BY <1>0, <1>2, <1>3, <1>6, <1>7 DEF LabOK

LEMMA ExperimentKept ==
    ASSUME IInv, NEW p \in Processes, Moved(p), NEW q \in Experimenters, q # p
    PROVE  ExperimentOK(q)'
<1>1. q \in Processes /\ q \notin Labs /\ q \notin Testers
    BY Kinds DEF Processes
<1>2. PICK j : j = job[q] /\ j = job'[q]
    BY <1>1 DEF Moved
<1>3. SUFFICES ASSUME j.phase # "idle" PROVE ExperimentOK(q)'
    BY <1>2 DEF ExperimentOK
<1>0. ExperimentOK(q)
    BY DEF IInv
<1>4. j.phase \in {"keep", "drop"}
    BY <1>0, <1>2, <1>3 DEF ExperimentOK
<1>5. PICK r \in 1 .. clock, n \in DOMAIN runs :
              LET run == j.runs[r] IN
              /\ DOMAIN j.runs = {r} /\ n < r
              /\ Completed(n, Types[2])
              /\ run.type = Types[3] /\ run.status = "completed" /\ run.version = runs[n].version
              /\ Sources(run) \subseteq runs[n].rows
              /\ run.context.environment = "experiment" /\ run.context.step = None
              /\ run.context.configuration = [source |-> n, manifest |-> None]
              /\ run.context.hash = run.context.configuration
              /\ run.context.group = IF runs[n].context.environment = "experiment"
                                     THEN runs[n].context.group ELSE <<q, r - 1>>
              /\ \A x \in DOMAIN runs :
                    InGroup(runs, x, run.context.group) /\ runs[x].type = Types[4] => x < r
    BY <1>0, <1>2, <1>3 DEF ExperimentOK
<1>6. r \in 1 .. clock'
    BY DEF IInv, Numbers, Moved
<1>7. n \in DOMAIN runs' /\ runs'[n] = runs[n]
    BY RunsKept
<1>8. PICK g : g = j.runs[r].context.group
    OBVIOUS
<1>9. ASSUME NEW x \in DOMAIN runs', InGroup(runs', x, g), runs'[x].type = Types[4] PROVE x < r
  <2>1. CASE x \in DOMAIN runs
      BY <1>5, <1>8, <1>9, <2>1, RunsKept DEF InGroup
  <2>2. CASE x \notin DOMAIN runs
    <3>1. job[p].phase # "idle" /\ x \in DOMAIN job[p].runs /\ runs'[x] = job[p].runs[x]
        BY <2>2, RunsKept
    <3>2. p \notin Experimenters
        BY <1>9, <3>1, PendingGroups, TypesDistinct
    <3>3. g[1] = p
        BY <1>9, <3>1, <3>2, PendingGroups, Kinds DEF InGroup
    <3>4. runs[n].context.environment = "experiment" /\ g = runs[n].context.group
        BY <1>5, <1>8, <3>3
    <3>5. InGroup(runs, n, g) /\ runs[n].type = Types[2]
        BY <1>5, <3>4 DEF InGroup, Completed
    <3>6. p \notin Testers
      <4>1. Grouped(runs, n)
          BY DEF IInv
      <4>2. g[1] \in Testers => runs[n].type = Types[4]
          BY <3>4, <4>1 DEF Grouped
      <4> QED
          BY <3>3, <3>5, <4>2, TypesDistinct
    <3>7. p \in Labs
        BY <3>2, <3>6, Kinds
    <3>8. g = job[p].group
        BY <1>9, <3>1, <3>7, PendingGroups DEF InGroup
    <3>9. ~ InGroup(runs, n, job[p].group)
        BY <3>1, <3>7 DEF IInv, LabOK
    <3> QED
        BY <3>5, <3>8, <3>9
  <2> QED
      BY <2>1, <2>2
<1>10. /\ DOMAIN j.runs = {r} /\ n < r
       /\ runs'[n].type = Types[2] /\ runs'[n].status = "completed"
       /\ j.runs[r].type = Types[3] /\ j.runs[r].status = "completed"
       /\ j.runs[r].version = runs'[n].version
       /\ Sources(j.runs[r]) \subseteq runs'[n].rows
       /\ j.runs[r].context.environment = "experiment" /\ j.runs[r].context.step = None
       /\ j.runs[r].context.configuration = [source |-> n, manifest |-> None]
       /\ j.runs[r].context.hash = j.runs[r].context.configuration
       /\ j.runs[r].context.group = IF runs'[n].context.environment = "experiment"
                                    THEN runs'[n].context.group ELSE <<q, r - 1>>
    BY <1>5, <1>7 DEF Completed
<1>11. \A x \in DOMAIN runs' :
           InGroup(runs', x, j.runs[r].context.group) /\ runs'[x].type = Types[4] => x < r
    BY <1>8, <1>9
<1>12. Completed(n, Types[2])'
    BY <1>10 DEF Completed
<1> QED
    BY <1>2, <1>4, <1>6, <1>7, <1>10, <1>11, <1>12 DEF ExperimentOK

LEMMA TestKept ==
    ASSUME IInv, NEW p \in Processes, Moved(p), NEW q \in Testers, q # p
    PROVE  TestOK(q)'
<1>1. q \in Processes
    BY DEF Processes
<1>2. PICK j : j = job[q] /\ j = job'[q]
    BY <1>1 DEF Moved
<1>3. SUFFICES ASSUME j.phase # "idle" PROVE TestOK(q)'
    BY <1>2 DEF TestOK
<1>4. TestOK(q)
    BY DEF IInv
<1>5. j.test \in DOMAIN tests /\ j.test \notin lost
    BY <1>2, <1>3, <1>4 DEF TestOK
<1>6. j.test \notin Drawn(p)
  <2>1. j.test \in Drawn(q)
      BY <1>2, <1>3 DEF Drawn
  <2>2. Drawn(q) \cap Drawn(p) = {}
      BY <1>1 DEF IInv, Numbers
  <2> QED
      BY <2>1, <2>2
<1>7. j.test \in DOMAIN tests' /\ j.test \notin lost' /\ tests'[j.test] = tests[j.test]
    BY <1>5, <1>6 DEF Moved
<1> QED
    BY <1>2, <1>3, <1>4, <1>7 DEF TestOK

-----------------------------------------------------------------------------
\* A table that gets more runs.

LEMMA ChainedKept ==
    ASSUME NEW base, NEW more, DOMAIN base \cap DOMAIN more = {},
           NEW r \in DOMAIN base, Chained(base, r)
    PROVE  Chained(With(base, more), r)
<1>1. PICK table : table = With(base, more)
    OBVIOUS
<1>2. \A q \in DOMAIN base : q \in DOMAIN table /\ table[q] = base[q]
  <2>1. /\ \A q \in DOMAIN base : q \in DOMAIN table
        /\ \A q \in DOMAIN base \ DOMAIN more : table[q] = base[q]
      BY <1>1 DEF With
  <2> QED
      BY <2>1
<1> QED
    BY <1>1, <1>2 DEF Chained

\* Runs of a new group change nothing for the others.
LEMMA FreshGroup ==
    ASSUME NEW base, NEW more, DOMAIN base \cap DOMAIN more = {}, NEW g,
           \A q \in DOMAIN more : InGroup(more, q, g),
           \A q \in DOMAIN base : ~ InGroup(base, q, g),
           \A q \in DOMAIN base : Chained(base, q) /\ Grouped(base, q),
           NEW r \in DOMAIN base
    PROVE  Grouped(With(base, more), r)
<1>0. Chained(base, r) /\ Grouped(base, r)
    OBVIOUS
<1>1. PICK table : table = With(base, more)
    OBVIOUS
<1>2. \A q \in DOMAIN base : q \in DOMAIN table /\ table[q] = base[q]
  <2>1. /\ \A q \in DOMAIN base : q \in DOMAIN table
        /\ \A q \in DOMAIN base \ DOMAIN more : table[q] = base[q]
      BY <1>1 DEF With
  <2> QED
      BY <2>1
<1>3. \A q \in DOMAIN table \ DOMAIN base : InGroup(table, q, g)
  <2>1. /\ \A q \in DOMAIN more : table[q] = more[q]
        /\ \A q \in DOMAIN table : q \in DOMAIN base \/ q \in DOMAIN more
      BY <1>1 DEF With
  <2> QED
      BY <2>1 DEF InGroup
<1>4. PICK run, own, source : /\ run = table[r] /\ run = base[r] /\ own = run.context.group
                              /\ source = run.context.configuration.source
    BY <1>2
<1>5. SUFFICES ASSUME run.context.environment = "experiment" PROVE Grouped(table, r)
    BY <1>1, <1>4 DEF Grouped
<1>6. own # g
    BY <1>4, <1>5 DEF InGroup
<1>7. \A q \in DOMAIN table : InGroup(table, q, own) => q \in DOMAIN base /\ InGroup(base, q, own)
    BY <1>2, <1>3, <1>6 DEF InGroup
<1>8. /\ own \in Processes \X Nat
      /\ own[1] \in Testers => r = own[2] /\ run.type = Types[4]
      /\ run.context.step # None => own[1] \in Testers
      /\ own[1] \in Experimenters => r = own[2] + 1 /\ run.type = Types[3]
      /\ own[1] \in Labs => own[2] < r
    BY <1>0, <1>4, <1>5 DEF Grouped
<1>9. run.type = Types[2] =>
        \A q \in DOMAIN table : q # r /\ InGroup(table, q, own) /\ table[q].type = Types[2]
                                => table[q].version # run.version
    BY <1>0, <1>2, <1>4, <1>5, <1>7 DEF Grouped
<1>10. ASSUME run.type \in {Types[2], Types[4]}, run.status = "completed", run.context.step = None
       PROVE  InGroup(table, source, own)
  <2>1. InGroup(base, source, own)
      BY <1>0, <1>4, <1>5, <1>10 DEF Grouped
  <2>2. PICK i \in 2 .. 4 : run.type = Types[i]
      BY <1>10
  <2>3. source \in DOMAIN base
      BY <1>0, <1>4, <1>5, <1>10, <2>2 DEF Chained
  <2> QED
      BY <1>2, <2>1, <2>3 DEF InGroup
<1>11. ASSUME NEW i \in 2 .. 4, NEW q \in DOMAIN table,
              run.type = Types[i], run.status = "completed",
              InGroup(table, q, own), table[q].type = Types[i - 1],
              table[q].version = run.version
       PROVE  source <= q /\ InGroup(table, source, own)
  <2>1. q \in DOMAIN base /\ InGroup(base, q, own) /\ base[q] = table[q]
      BY <1>2, <1>7, <1>11
  <2>2. source <= q /\ InGroup(base, source, own)
      BY <1>0, <1>4, <1>5, <1>11, <2>1 DEF Grouped
  <2>3. own[1] \notin Testers
    <3>1. SUFFICES ASSUME own[1] \in Testers PROVE FALSE
        OBVIOUS
    <3>2. r = own[2]
        BY <1>8, <3>1
    <3>3. Grouped(base, q)
        BY <2>1
    <3>4. q = own[2]
        BY <2>1, <3>1, <3>3 DEF InGroup, Grouped
    <3>5. Types[i] = Types[i - 1]
      <4>1. table[q] = run
          BY <1>4, <3>2, <3>4
      <4> QED
          BY <1>11, <4>1
    <3>6. i - 1 \in 1 .. 4 /\ i \in 1 .. 4 /\ i # i - 1
        OBVIOUS
    <3> QED
        BY <3>5, <3>6, TypesDistinct
  <2>4. run.context.step = None
      BY <1>8, <2>3
  <2>5. source \in DOMAIN base
      BY <1>0, <1>4, <1>5, <1>11, <2>4 DEF Chained
  <2> QED
      BY <1>2, <2>2, <2>5 DEF InGroup
<1>12. Grouped(table, r)
    BY <1>4, <1>8, <1>9, <1>10, <1>11 DEF Grouped
<1> QED
    BY <1>1, <1>12

\* The Lab commits an execution.
LEMMA LabJoins ==
    ASSUME NEW base, NEW j, NEW p \in Labs, NEW n \in Nat,
           DOMAIN base \cap DOMAIN j.runs = {}, DOMAIN j.runs \subseteq Nat,
           j.group \in {p} \X (0 .. n),
           \A q \in DOMAIN base : ~ InGroup(base, q, j.group),
           \A q \in DOMAIN j.runs : LabRun(j, q),
           NEW r \in DOMAIN j.runs
    PROVE  LET table == With(base, j.runs) IN Chained(table, r) /\ Grouped(table, r)
<1>1. PICK table : table = With(base, j.runs)
    OBVIOUS
<1>0. PICK more : more = j.runs
    OBVIOUS
<1>15.
      /\ \A q \in DOMAIN more : q \in DOMAIN table /\ table[q] = more[q]
      /\ \A q \in DOMAIN base \ DOMAIN more : table[q] = base[q]
      /\ \A q \in DOMAIN table : q \in DOMAIN base \/ q \in DOMAIN more
  <2>1. table = With(base, more)
      BY <1>0, <1>1
  <2> QED
      BY <2>1 DEF With
<1>2. \A q \in DOMAIN j.runs : q \in DOMAIN table /\ table[q] = j.runs[q]
    BY <1>0, <1>15
<1>3. \A q \in DOMAIN table : InGroup(table, q, j.group) => q \in DOMAIN j.runs
  <2>1. ASSUME NEW q \in DOMAIN table, q \notin DOMAIN more
        PROVE  q \in DOMAIN base /\ table[q] = base[q]
      BY <1>15, <2>1
  <2> QED
      BY <1>0, <2>1 DEF InGroup
<1>4. PICK run, context, source :
          /\ run = table[r] /\ run = j.runs[r] /\ context = run.context
          /\ source = context.configuration.source
    BY <1>2
<1>5. /\ j.group[2] < r
      /\ context.hash = context.configuration
      /\ context.environment = "experiment" /\ context.group = j.group /\ context.step = None
      /\ \A q \in DOMAIN j.runs : j.runs[q].type = run.type => q = r
      /\ run.status = "completed" =>
            context.configuration.manifest = j.manifest \/ DOMAIN j.runs = {r}
    BY <1>4 DEF LabRun, MadeBy, Alone
<1>6. ASSUME NEW i \in 2 .. 4, run.type = Types[i], run.status = "completed"
      PROVE  /\ source \in DOMAIN j.runs /\ source < r
             /\ j.runs[source].type = Types[i - 1] /\ j.runs[source].status = "completed"
             /\ j.runs[source].version = run.version
             /\ Sources(run) \subseteq j.runs[source].rows
  <2>1. LabRun(j, r)
      OBVIOUS
  <2>2. \A k \in 2 .. 4 :
          j.runs[r].type = Types[k] /\ j.runs[r].status = "completed" =>
          LET from == j.runs[r].context.configuration.source IN
                /\ from \in DOMAIN j.runs /\ from < r
                /\ j.runs[from].type = Types[k - 1] /\ j.runs[from].status = "completed"
                /\ j.runs[from].version = j.runs[r].version
                /\ Sources(j.runs[r]) \subseteq j.runs[from].rows
      BY <2>1 DEF LabRun, MadeBy
  <2> QED
      BY <1>4, <1>6, <2>2
<1>7. \A q \in DOMAIN j.runs :
          /\ j.runs[q].context.environment = "experiment" /\ j.runs[q].context.group = j.group
          /\ j.runs[q].status = "completed" =>
                \/ j.runs[q].context.configuration.manifest = j.manifest
                \/ DOMAIN j.runs = {q}
          /\ \A x \in DOMAIN j.runs : j.runs[x].type = j.runs[q].type => x = q
    BY DEF LabRun, MadeBy, Alone
<1>8. Chained(table, r)
  <2>1. ASSUME NEW i \in 2 .. 4, run.type = Types[i], run.status = "completed"
        PROVE  /\ source \in DOMAIN table /\ source < r
               /\ table[source].type = Types[i - 1] /\ table[source].status = "completed"
               /\ table[source].version = run.version
               /\ Sources(run) \subseteq table[source].rows
               /\ table[source].context.group = context.group
               /\ table[source].context.configuration.manifest = context.configuration.manifest
    <3>1. /\ source \in DOMAIN j.runs /\ source < r /\ j.runs[source].status = "completed"
          /\ j.runs[source].type = Types[i - 1] /\ j.runs[source].version = run.version
          /\ Sources(run) \subseteq j.runs[source].rows
        BY <1>6, <2>1
    <3>2. source # r
        BY <3>1
    <3>3. DOMAIN j.runs # {r} /\ DOMAIN j.runs # {source}
        BY <3>1, <3>2
    <3>4. j.runs[source].context.configuration.manifest = context.configuration.manifest
        BY <1>5, <1>7, <2>1, <3>1, <3>3
    <3> QED
        BY <1>2, <1>5, <1>7, <3>1, <3>4
  <2> QED
      BY <1>4, <1>5, <2>1 DEF Chained
<1>9. j.group \in Processes \X Nat /\ j.group[1] = p
    BY DEF Processes
<1>10. p \notin Testers /\ p \notin Experimenters
    BY Kinds DEF Processes
<1>11. ASSUME run.type = Types[2], NEW q \in DOMAIN table, q # r,
              InGroup(table, q, j.group), table[q].type = Types[2]
       PROVE  FALSE
    BY <1>2, <1>3, <1>5, <1>11
<1>12. ASSUME NEW i \in 2 .. 4, run.type = Types[i], run.status = "completed"
       PROVE  InGroup(table, source, j.group)
    BY <1>2, <1>6, <1>7, <1>12 DEF InGroup
<1>13. ASSUME NEW i \in 2 .. 4, run.type = Types[i], run.status = "completed",
              NEW q \in DOMAIN table, InGroup(table, q, j.group), table[q].type = Types[i - 1]
       PROVE  source <= q
  <2>1. q \in DOMAIN j.runs /\ j.runs[q].type = Types[i - 1]
      BY <1>2, <1>3, <1>13
  <2>2. source \in DOMAIN j.runs /\ j.runs[source].type = Types[i - 1]
      BY <1>6, <1>13
  <2>3. q = source
      BY <1>7, <2>1, <2>2
  <2>4. source \in Nat
      BY <2>2
  <2> QED
      BY <2>3, <2>4
<1>14. Grouped(table, r)
  <2>1. run.type \in {Types[2], Types[4]} /\ run.status = "completed" =>
          InGroup(table, source, j.group)
      BY <1>12
  <2>2. \A i \in 2 .. 4, q \in DOMAIN table :
              /\ run.type = Types[i] /\ run.status = "completed"
              /\ InGroup(table, q, j.group) /\ table[q].type = Types[i - 1]
              /\ table[q].version = run.version
              => source <= q /\ InGroup(table, source, j.group)
      BY <1>12, <1>13
  <2>3. run.type = Types[2] =>
            \A q \in DOMAIN table : q # r /\ InGroup(table, q, j.group) /\ table[q].type = Types[2]
                                    => table[q].version # run.version
      BY <1>11
  <2> QED
      BY <1>4, <1>5, <1>9, <1>10, <2>1, <2>2, <2>3 DEF Grouped
<1> QED
    BY <1>1, <1>8, <1>14

\* A step test keeps its resolution, alone in its group.
LEMMA TestJoins ==
    ASSUME NEW base, NEW p \in Testers, NEW r \in Nat, NEW run,
           r \notin DOMAIN base, \A q \in DOMAIN base : ~ InGroup(base, q, <<p, r>>),
           run.type = Types[4], run.context.hash = run.context.configuration,
           run.context.environment = "experiment",
           run.context.group = <<p, r>>, run.context.step = r,
           NEW more, DOMAIN more = {r}, more[r] = run
    PROVE  LET table == With(base, more) IN Chained(table, r) /\ Grouped(table, r)
<1>1. PICK table : table = With(base, more)
    OBVIOUS
<1>0. /\ DOMAIN table = DOMAIN base \cup DOMAIN more
      /\ \A q \in DOMAIN more : table[q] = more[q]
      /\ \A q \in DOMAIN base \ DOMAIN more : table[q] = base[q]
    BY <1>1 DEF With
<1>2. r \in DOMAIN table /\ table[r] = run /\ DOMAIN table = DOMAIN base \cup {r}
    BY <1>0
<1>3. \A q \in DOMAIN table : InGroup(table, q, <<p, r>>) => q = r
  <2>1. \A q \in DOMAIN base : table[q] = base[q]
      BY <1>0
  <2> QED
      BY <1>2, <2>1 DEF InGroup
<1>4. r # None
    BY ProcessesAssumption
<1>5. Chained(table, r)
    BY <1>2, <1>4 DEF Chained
<1>6. PICK g : g = <<p, r>>
    OBVIOUS
<1>7. g \in Processes \X Nat /\ g[1] = p /\ g[2] = r
    BY <1>6 DEF Processes
<1>8. p \notin Labs /\ p \notin Experimenters
    BY Kinds DEF Processes
<1>9. run.type # Types[2]
    BY TypesDistinct
<1>10. \A i \in 2 .. 4 : run.type # Types[i] \/ run.type # Types[i - 1]
  <2>1. \A i \in 2 .. 4 : i \in 1 .. 4 /\ i - 1 \in 1 .. 4 /\ i # i - 1
      OBVIOUS
  <2>2. \A i \in 2 .. 4 : Types[i] # Types[i - 1]
      BY <2>1, TypesDistinct
  <2> QED
      BY <2>2
<1>11. \A i \in 2 .. 4, q \in DOMAIN table :
           ~ (run.type = Types[i] /\ InGroup(table, q, g) /\ table[q].type = Types[i - 1])
    BY <1>2, <1>3, <1>6, <1>10
<1>12. Grouped(table, r)
    BY <1>2, <1>4, <1>6, <1>7, <1>8, <1>9, <1>11 DEF Grouped
<1> QED
    BY <1>1, <1>5, <1>12

\* An experiment keeps its discovery, in a group of its own or in that of the
\* execution whose normalization it has read.
LEMMA ExperimentJoins ==
    ASSUME NEW base, NEW p \in Experimenters, NEW r \in Nat \ {0}, NEW n \in DOMAIN base, NEW run,
           DOMAIN base \subseteq Nat, r \notin DOMAIN base, n < r,
           \A q \in DOMAIN base : Chained(base, q) /\ Grouped(base, q),
           base[n].type = Types[2], base[n].status = "completed",
           run.type = Types[3], run.status = "completed", run.version = base[n].version,
           Sources(run) \subseteq base[n].rows,
           run.context.environment = "experiment", run.context.step = None,
           run.context.configuration = [source |-> n, manifest |-> None],
           run.context.hash = run.context.configuration,
           run.context.group = IF base[n].context.environment = "experiment"
                               THEN base[n].context.group ELSE <<p, r - 1>>,
           \A q \in DOMAIN base : InGroup(base, q, run.context.group) /\ base[q].type = Types[4]
                                  => q < r,
           NEW more, DOMAIN more = {r}, more[r] = run
    PROVE  LET table == With(base, more) IN
           \A q \in DOMAIN table : Chained(table, q) /\ Grouped(table, q)
<1>1. PICK table : table = With(base, more)
    OBVIOUS
<1>0. /\ DOMAIN table = DOMAIN base \cup DOMAIN more
      /\ \A q \in DOMAIN more : table[q] = more[q]
      /\ \A q \in DOMAIN base \ DOMAIN more : table[q] = base[q]
    BY <1>1 DEF With
<1>2. r \in DOMAIN table /\ table[r] = run /\ DOMAIN table = DOMAIN base \cup {r}
    BY <1>0
<1>3. \A q \in DOMAIN base : q # r /\ q \in DOMAIN table /\ table[q] = base[q]
    BY <1>0
<1>4. PICK g : g = run.context.group
    OBVIOUS
<1>5. /\ run.context.configuration.source = n
      /\ run.context.configuration.manifest = None
    OBVIOUS
<1>6. Chained(table, r)
  <2>1. \A i \in 2 .. 4 : run.type = Types[i] => i = 3
    <3>1. \A i \in 2 .. 4 : i \in 1 .. 4
        OBVIOUS
    <3> QED
        BY <3>1, TypesDistinct
  <2>2. /\ n \in DOMAIN table /\ n < r
        /\ table[n].type = Types[2] /\ table[n].status = "completed"
        /\ table[n].version = run.version /\ Sources(run) \subseteq table[n].rows
      BY <1>3
  <2>3. Types[3 - 1] = Types[2]
      OBVIOUS
  <2> QED
      BY <1>2, <1>5, <2>1, <2>2, <2>3 DEF Chained
<1>7. \A q \in DOMAIN base : Chained(table, q)
    BY <1>1, ChainedKept
<1>8. run.type # Types[2] /\ run.type # Types[4]
    BY TypesDistinct
<1>9. CASE base[n].context.environment # "experiment"
  <2>1. g = <<p, r - 1>> /\ g[1] = p /\ g[2] = r - 1 /\ r - 1 \in Nat
      BY <1>4, <1>9
  <2>2. p \notin Testers /\ p \notin Labs /\ p \in Processes
      BY Kinds DEF Processes
  <2>3. ASSUME NEW q \in DOMAIN base PROVE ~ InGroup(base, q, g)
    <3>1. SUFFICES ASSUME InGroup(base, q, g) PROVE FALSE
        OBVIOUS
    <3>2. q = g[2] + 1
        BY <2>1, <3>1 DEF Grouped, InGroup
    <3>3. q = r
        BY <2>1, <3>2
    <3> QED
        BY <3>3
  <2>4. \A q \in DOMAIN more : InGroup(more, q, g)
      BY <1>4 DEF InGroup
  <2>5. \A q \in DOMAIN base : Grouped(table, q)
      BY <1>1, <2>3, <2>4, FreshGroup
  <2>6. \A q \in DOMAIN table : InGroup(table, q, g) => q = r
      BY <1>2, <1>3, <2>3 DEF InGroup
  <2>7. \A i \in 2 .. 4, q \in DOMAIN table :
            ~ (run.type = Types[i] /\ InGroup(table, q, g) /\ table[q].type = Types[i - 1])
    <3>1. \A i \in 2 .. 4 : i \in 1 .. 4 /\ i - 1 \in 1 .. 4 /\ i # i - 1
        OBVIOUS
    <3>2. \A i \in 2 .. 4 : Types[i] # Types[i - 1]
        BY <3>1, TypesDistinct
    <3> QED
        BY <1>2, <2>6, <3>2
  <2>8. Grouped(table, r)
      BY <1>2, <1>4, <1>8, <2>1, <2>2, <2>7 DEF Grouped
  <2> QED
      BY <1>1, <1>2, <1>6, <1>7, <2>5, <2>8
<1>10. CASE base[n].context.environment = "experiment"
  <2>1. g = base[n].context.group /\ InGroup(base, n, g)
      BY <1>4, <1>10 DEF InGroup
  <2>2. Grouped(base, n)
      OBVIOUS
  <2>3. /\ g \in Processes \X Nat
        /\ g[1] \notin Testers /\ g[1] \notin Experimenters
        /\ g[1] \in Labs => g[2] < n
        /\ \A q \in DOMAIN base : q # n /\ InGroup(base, q, g) /\ base[q].type = Types[2]
                                  => base[q].version # base[n].version
      BY <1>10, <2>1, <2>2, TypesDistinct DEF Grouped
  <2>4. g[1] \in Labs => g[2] < r
      BY <2>3
  <2>5. \A q \in DOMAIN table : InGroup(table, q, g) /\ table[q].type = Types[2]
                                /\ table[q].version = run.version => q = n
      BY <1>2, <1>3, <1>8, <2>3 DEF InGroup
  <2>6. InGroup(table, n, g)
      BY <1>3, <2>1 DEF InGroup
  <2>7. \A i \in 2 .. 4, q \in DOMAIN table :
            /\ run.type = Types[i] /\ InGroup(table, q, g) /\ table[q].type = Types[i - 1]
            /\ table[q].version = run.version
            => n <= q
    <3>1. ASSUME NEW i \in 2 .. 4, run.type = Types[i] PROVE i = 3 /\ i - 1 = 2
      <4>1. i \in 1 .. 4 /\ 3 \in 1 .. 4
          OBVIOUS
      <4> QED
          BY <3>1, <4>1, TypesDistinct
    <3>2. n <= n
        OBVIOUS
    <3> QED
        BY <2>5, <3>1, <3>2
  <2>8. Grouped(table, r)
      BY <1>2, <1>4, <1>5, <1>8, <2>3, <2>4, <2>6, <2>7 DEF Grouped
  <2>9. ASSUME NEW q \in DOMAIN base PROVE Grouped(table, q)
    <3>1. PICK old, own, source : /\ old = base[q] /\ old = table[q] /\ own = old.context.group
                                  /\ source = old.context.configuration.source
        BY <1>3
    <3>2. SUFFICES ASSUME old.context.environment = "experiment" PROVE Grouped(table, q)
        BY <3>1 DEF Grouped
    <3>3. Grouped(base, q) /\ Chained(base, q)
        OBVIOUS
    <3>4. /\ own \in Processes \X Nat
          /\ own[1] \in Testers => q = own[2] /\ old.type = Types[4]
          /\ old.context.step # None => own[1] \in Testers
          /\ own[1] \in Experimenters => q = own[2] + 1 /\ old.type = Types[3]
          /\ own[1] \in Labs => own[2] < q
        BY <3>1, <3>2, <3>3 DEF Grouped
    <3>5. old.type = Types[2] =>
            \A x \in DOMAIN table : x # q /\ InGroup(table, x, own) /\ table[x].type = Types[2]
                                    => table[x].version # old.version
      <4>1. SUFFICES ASSUME old.type = Types[2], NEW x \in DOMAIN table, x # q,
                            InGroup(table, x, own), table[x].type = Types[2]
                     PROVE  table[x].version # old.version
          OBVIOUS
      <4>2. x \in DOMAIN base /\ table[x] = base[x]
          BY <1>2, <1>3, <1>8, <4>1
      <4>3. InGroup(base, x, own)
          BY <4>1, <4>2 DEF InGroup
      <4> QED
          BY <3>1, <3>2, <3>3, <4>1, <4>2, <4>3 DEF Grouped
    <3>6. \A i \in 2 .. 4 : old.type = Types[i] /\ old.status = "completed" /\ old.context.step = None
             => source \in DOMAIN base /\ source < q
        BY <3>1, <3>2, <3>3 DEF Chained
    <3>7. ASSUME old.type \in {Types[2], Types[4]}, old.status = "completed",
                 old.context.step = None
          PROVE  InGroup(table, source, own)
      <4>1. InGroup(base, source, own)
          BY <3>1, <3>2, <3>3, <3>7 DEF Grouped
      <4>2. PICK i \in 2 .. 4 : old.type = Types[i]
          BY <3>7
      <4>3. source \in DOMAIN base
          BY <3>6, <3>7, <4>2
      <4> QED
          BY <1>3, <4>1, <4>3 DEF InGroup
    <3>8. ASSUME NEW i \in 2 .. 4, NEW x \in DOMAIN table,
                 old.type = Types[i], old.status = "completed",
                 InGroup(table, x, own), table[x].type = Types[i - 1],
                 table[x].version = old.version
          PROVE  source <= x /\ InGroup(table, source, own)
      <4>1. old.context.step = None
        <5>1. SUFFICES ASSUME old.context.step # None PROVE FALSE
            OBVIOUS
        <5>2. own[1] \in Testers /\ q = own[2] /\ old.type = Types[4]
            BY <3>4, <5>1
        <5>3. x # q
          <6>1. i - 1 \in 1 .. 4 /\ i \in 1 .. 4 /\ i # i - 1
              OBVIOUS
          <6>2. Types[i] # Types[i - 1]
              BY <6>1, TypesDistinct
          <6> QED
              BY <3>1, <3>8, <6>2
        <5>4. CASE x \in DOMAIN base
          <6>1. InGroup(base, x, own) /\ Grouped(base, x)
              BY <1>3, <3>8, <5>4 DEF InGroup
          <6>2. x = own[2]
              BY <5>2, <6>1 DEF InGroup, Grouped
          <6> QED
              BY <5>2, <5>3, <6>2
        <5>5. CASE x = r
            BY <1>2, <1>4, <2>3, <3>8, <5>2, <5>5 DEF InGroup
        <5> QED
            BY <1>2, <5>4, <5>5
      <4>2. source \in DOMAIN base /\ source < q
          BY <3>6, <3>8, <4>1
      <4>3. CASE x \in DOMAIN base
        <5>1. base[x] = table[x] /\ InGroup(base, x, own)
            BY <1>3, <3>8, <4>3 DEF InGroup
        <5>2. source <= x /\ InGroup(base, source, own)
            BY <3>1, <3>2, <3>3, <3>8, <4>3, <5>1 DEF Grouped
        <5> QED
            BY <1>3, <4>2, <5>2 DEF InGroup
      <4>4. CASE x = r
        <5>1. own = g
            BY <1>2, <1>4, <3>8, <4>4 DEF InGroup
        <5>2. i = 4
          <6>1. Types[i - 1] = Types[3] /\ i - 1 \in 1 .. 4 /\ 3 \in 1 .. 4
              BY <1>2, <3>8, <4>4
          <6>2. i - 1 = 3
              BY <6>1, TypesDistinct
          <6> QED
              BY <6>2
        <5>3. InGroup(base, q, g) /\ base[q].type = Types[4]
            BY <3>1, <3>2, <3>8, <5>1, <5>2 DEF InGroup
        <5>4. q < r
            BY <1>4, <5>3
        <5>5. source \in Nat /\ q \in Nat
            BY <4>2
        <5>6. source <= x
            BY <4>2, <4>4, <5>4, <5>5
        <5>7. InGroup(table, source, own)
            BY <3>7, <3>8, <4>1, <5>2
        <5> QED
            BY <5>6, <5>7
      <4> QED
          BY <1>2, <4>3, <4>4
    <3>9. Grouped(table, q)
        BY <3>1, <3>4, <3>5, <3>7, <3>8 DEF Grouped
    <3> QED
        BY <3>9
  <2> QED
      BY <1>1, <1>2, <1>6, <1>7, <2>8, <2>9
<1> QED
    BY <1>9, <1>10

-----------------------------------------------------------------------------
\* The traces of the step tests, and the invariant as a whole.

LEMMA TraceKept ==
    ASSUME IInv, NEW p \in Processes, Moved(p), tests' = tests, lost \subseteq lost',
           \A r \in DOMAIN runs' \ DOMAIN runs : runs'[r].context.step = None,
           p \in Testers /\ job[p].phase # "idle" =>
               job[p].test \in lost' \/ (job'[p].phase # "idle" /\ job'[p].test = job[p].test)
    PROVE  TraceWhole'
<1>1. TraceWhole /\ Numbers
    BY DEF IInv
<1>2. \A t \in DOMAIN tests : t # None
    BY <1>1, ProcessesAssumption DEF Numbers
<1>3. \A r \in DOMAIN runs : r \in DOMAIN runs' /\ runs'[r] = runs[r]
    BY RunsKept
<1>4. ASSUME NEW t \in DOMAIN tests
      PROVE  /\ tests'[t].execution = tests'[t].step
             /\ tests'[t].step = "running" =>
                   t \in lost' \/ \E q \in Testers : job'[q].phase # "idle" /\ job'[q].test = t
             /\ tests'[t].step = "completed" =>
                   \E r \in DOMAIN runs' :
                        /\ RunsOf(t)' = {r} /\ runs'[r].status = "completed"
                        /\ tests'[t].outputs = runs'[r].rows
                        /\ UNION runs'[r].rows = tests'[t].inputs
             /\ tests'[t].step # "completed" => RunsOf(t)' = {} /\ tests'[t].outputs = {}
  <2>1. PICK own : own = RunsOf(t)
      OBVIOUS
  <2>2. /\ tests[t].execution = tests[t].step
        /\ tests[t].step = "running" =>
              t \in lost \/ \E q \in Testers : job[q].phase # "idle" /\ job[q].test = t
        /\ tests[t].step = "completed" =>
              \E r \in DOMAIN runs : /\ own = {r} /\ runs[r].status = "completed"
                                    /\ tests[t].outputs = runs[r].rows
                                    /\ UNION runs[r].rows = tests[t].inputs
        /\ tests[t].step # "completed" => own = {} /\ tests[t].outputs = {}
      BY <1>1, <2>1 DEF TraceWhole
  <2>3. RunsOf(t)' = own
    <3>1. \A x : x \in own <=> x \in RunsOf(t)'
        BY <1>2, <1>3, <2>1 DEF RunsOf
    <3> QED
        BY <3>1, SetExtensionality
  <2>5. ASSUME tests[t].step = "running"
        PROVE  t \in lost' \/ \E q \in Testers : job'[q].phase # "idle" /\ job'[q].test = t
    <3>1. CASE t \in lost
        BY <3>1
    <3>2. ASSUME NEW q \in Testers, job[q].phase # "idle", job[q].test = t
          PROVE  t \in lost' \/ \E x \in Testers : job'[x].phase # "idle" /\ job'[x].test = t
      <4>1. CASE q = p
          BY <3>2, <4>1
      <4>2. CASE q # p
        <5>1. job'[q] = job[q]
            BY <4>2 DEF Moved, Processes
        <5> QED
            BY <3>2, <5>1
      <4> QED
          BY <4>1, <4>2
    <3> QED
        BY <2>2, <2>5, <3>1, <3>2
  <2>6. CASE tests[t].step = "completed"
    <3>1. PICK r \in DOMAIN runs : /\ own = {r} /\ runs[r].status = "completed"
                                  /\ tests[t].outputs = runs[r].rows
                                  /\ UNION runs[r].rows = tests[t].inputs
        BY <2>2, <2>6
    <3>2. r \in DOMAIN runs' /\ runs'[r] = runs[r]
        BY <1>3
    <3> QED
        BY <2>2, <2>3, <2>6, <3>1, <3>2
  <2>7. CASE tests[t].step # "completed"
      BY <2>2, <2>3, <2>5, <2>7
  <2> QED
      BY <2>6, <2>7
<1>5. \A r \in DOMAIN runs' : runs'[r].context.step \in {None} \cup DOMAIN tests'
    BY <1>1, <1>3 DEF TraceWhole
<1> QED
    BY <1>4, <1>5 DEF TraceWhole

LEMMA Assembled ==
    ASSUME IInv, NEW p \in Processes, Moved(p),
           p \in Labs => LabOK(p)', p \in Experimenters => ExperimentOK(p)',
           p \in Testers => TestOK(p)',
           \A r \in DOMAIN runs' : Chained(runs', r) /\ Grouped(runs', r),
           TraceWhole'
    PROVE  IInv'
<1>1. Numbers'
    BY NumbersKept
<1>2. ASSUME NEW q \in Labs PROVE LabOK(q)'
    BY LabKept
<1>3. ASSUME NEW q \in Experimenters PROVE ExperimentOK(q)'
    BY ExperimentKept
<1>4. ASSUME NEW q \in Testers PROVE TestOK(q)'
    BY TestKept
<1> QED
    BY <1>1, <1>2, <1>3, <1>4 DEF IInv

\* A step that commits no run and touches no trace.
LEMMA Working ==
    ASSUME IInv, NEW p \in Processes, Moved(p), runs' = runs, tests' = tests, lost \subseteq lost',
           p \in Labs => LabOK(p)', p \in Experimenters => ExperimentOK(p)',
           p \in Testers => TestOK(p)',
           p \in Testers /\ job[p].phase # "idle" =>
               job[p].test \in lost' \/ (job'[p].phase # "idle" /\ job'[p].test = job[p].test)
    PROVE  IInv'
<1>1. \A r \in DOMAIN runs' : Chained(runs', r) /\ Grouped(runs', r)
    BY DEF IInv
<1>2. TraceWhole'
    BY TraceKept
<1> QED
    BY <1>1, <1>2, Assembled

\* A session that becomes idle has nothing left to tell.
LEMMA IdleOK ==
    ASSUME NEW p \in Processes, job'[p] = Idle
    PROVE  LabOK(p)' /\ ExperimentOK(p)' /\ TestOK(p)' /\ Drawn(p)' = {}
BY DEF Idle, LabOK, ExperimentOK, TestOK, Drawn

-----------------------------------------------------------------------------
\* The Pipeline Lab.

\* A session of the Lab goes on, without a commit.
LEMMA LabWorking ==
    ASSUME IInv, NEW p \in Labs, NEW j, job' = [job EXCEPT ![p] = j],
           runs' = runs, tests' = tests, lost' = lost, clock' \in {clock, clock + 1},
           j.phase # "idle", LabOK(p)',
           job[p].phase = "idle" => DOMAIN j.runs = {},
           job[p].phase # "idle" =>
               DOMAIN j.runs \subseteq DOMAIN job[p].runs \cup ((clock + 1) .. clock')
    PROVE  IInv'
<1>1. p \in Processes /\ p \notin Experimenters /\ p \notin Testers
    BY Kinds DEF Processes
<1>2. DOMAIN job = Processes
    BY DEF IInv, Numbers
<1>3. job'[p] = j /\ DOMAIN job' = Processes /\ \A q \in Processes : q # p => job'[q] = job[q]
    BY <1>1, <1>2
<1>4. Drawn(p)' \subseteq Drawn(p) \cup ((clock + 1) .. clock')
    BY <1>1, <1>3 DEF Drawn
<1>5. Moved(p)
    BY <1>3, <1>4 DEF Moved
<1> QED
    BY <1>1, <1>5, Working

LEMMA LabBegins ==
    ASSUME IInv, NEW p \in Labs, LabBegin(p)
    PROVE  IInv'
<1>1. PICK manifest, version, g, j :
         /\ job' = [job EXCEPT ![p] = j] /\ g = <<p, clock>>
         /\ j = [phase |-> "running", stage |-> 1, manifest |-> manifest, version |-> version,
                 group |-> g, last |-> None, runs |-> <<>>]
    BY DEF LabBegin, Set, Group
<1>2. /\ runs' = runs /\ tests' = tests /\ lost' = lost /\ clock' = clock
      /\ job[p].phase = "idle"
    BY DEF LabBegin
<1>3. /\ j.phase = "running" /\ j.stage = 1 /\ j.group = g /\ j.runs = <<>>
    BY <1>1
<1>4. DOMAIN j.runs = {}
    BY <1>3
<1>5. job'[p] = j
    BY <1>1 DEF IInv, Numbers, Processes
<1>6. clock \in Nat /\ DOMAIN runs \subseteq 1 .. clock
    BY DEF IInv, Numbers
<1>7. g \in {p} \X (0 .. clock) /\ g[1] = p /\ g[2] = clock
    BY <1>1, <1>6
<1>8. ASSUME NEW r \in DOMAIN runs, InGroup(runs, r, g) PROVE FALSE
  <2>1. g[1] \in Labs => g[2] < r
      BY <1>8 DEF IInv, Grouped, InGroup
  <2> QED
      BY <1>6, <1>7, <2>1
<1>10. LabShape(j)
    BY <1>1 DEF LabShape
<1>9. LabOK(p)'
    BY <1>2, <1>3, <1>4, <1>5, <1>7, <1>8, <1>10 DEF LabOK
<1> QED
    BY <1>1, <1>2, <1>3, <1>4, <1>9, LabWorking

\* A stage has stored a run: what it must have made for the execution to stay
\* whole.
LEMMA LabStores ==
    ASSUME IInv, NEW p \in Labs, NEW run, NEW s \in 1 .. 4, NEW next \in {"running", "ended"},
           LabStored(p, run, next), next = "running" => run.status = "completed" /\ s < 4,
           job[p].phase = "running", job[p].stage = s,
           run.type = Types[s], run.context.hash = run.context.configuration,
           run.context.environment = "experiment", run.context.group = job[p].group,
           run.context.step = None,
           run.status = "completed" =>
              /\ \/ run.context.configuration.manifest = job[p].manifest
                 \/ s = 1 /\ next = "ended"
              /\ run.version = job[p].version
              /\ s > 1 => /\ run.context.configuration.source = job[p].last
                          /\ Sources(run) \subseteq job[p].runs[job[p].last].rows
              /\ s = 3 => \A c \in run.rows : c.version = job[p].version
    PROVE  IInv'
<1>1. PICK old, new, r :
        /\ old = job[p] /\ r = clock + 1
        /\ job' = [job EXCEPT ![p] = new]
        /\ new = [old EXCEPT
           !.runs = With(@, One(r, run)), !.last = r, !.stage = @ + 1,
           !.phase = next]
    BY DEF LabStored, Set
<1>2. runs' = runs /\ tests' = tests /\ lost' = lost /\ clock' = clock + 1
    BY DEF LabStored, Draw
<1>3. job'[p] = new
    BY <1>1 DEF IInv, Numbers, Processes
<1>4. LabOK(p) /\ clock \in Nat
    BY DEF IInv, Numbers
<1>5. /\ LabShape(old)
      /\ old.group \in {p} \X (0 .. clock)
      /\ \A q \in DOMAIN runs : ~ InGroup(runs, q, old.group)
      /\ \A q \in DOMAIN old.runs : LabRun(old, q)
      /\ s > 1 => /\ old.last \in DOMAIN old.runs
                  /\ old.runs[old.last].type = Types[s - 1]
                  /\ old.runs[old.last].status = "completed"
                  /\ old.runs[old.last].version = old.version
    BY <1>1, <1>4 DEF LabOK
<1>6. DOMAIN old.runs \subseteq 1 .. clock
    BY <1>1, Kinds DEF IInv, Numbers, Processes, Drawn
<1>7. PICK phase, table : /\ phase = new.phase /\ table = With(old.runs, One(r, run))
    OBVIOUS
<1>8. /\ new.runs = table /\ new.last = r /\ new.stage = s + 1 /\ new.manifest = old.manifest
      /\ new.version = old.version /\ new.group = old.group
      /\ new.phase = next
      /\ LabShape(new)
    BY <1>1, <1>5, <1>7 DEF LabShape
<1>9. /\ DOMAIN table = DOMAIN old.runs \cup {r} /\ table[r] = run
      /\ \A q \in DOMAIN old.runs : q # r => table[q] = old.runs[q]
    BY <1>7 DEF With, One
<1>10. r \in Nat /\ r \notin DOMAIN old.runs /\ \A q \in DOMAIN old.runs : q < r /\ q # r
    BY <1>1, <1>4, <1>6
<1>11. ASSUME NEW q \in DOMAIN old.runs PROVE old.runs[q].type # Types[s]
  <2>0. LabRun(old, q) /\ old.stage = s
      BY <1>1, <1>5
  <2>1. PICK i \in 1 .. 4 : i < s /\ old.runs[q].type = Types[i]
      BY <2>0 DEF LabRun, MadeBy
  <2> QED
      BY <2>1, TypesDistinct
<1>12. ASSUME NEW q \in DOMAIN old.runs PROVE LabRun(new, q)
  <2>1. PICK one, context, source : /\ one = old.runs[q] /\ context = one.context
                                    /\ source = context.configuration.source
      OBVIOUS
  <2>2. LabRun(old, q)
      BY <1>5
  <2>3. /\ old.group[2] < q
        /\ context.hash = context.configuration
        /\ context.environment = "experiment" /\ context.group = old.group
        /\ context.step = None
        /\ \E i \in 1 .. 4 : i < s /\ one.type = Types[i]
        /\ \A x \in DOMAIN old.runs : old.runs[x].type = one.type => x = q
        /\ one.status = "completed" => context.configuration.manifest = old.manifest
      BY <1>1, <2>1, <2>2 DEF LabRun, MadeBy, Alone
  <2>4. \A i \in 2 .. 4 :
             one.type = Types[i] /\ one.status = "completed" =>
                /\ source \in DOMAIN old.runs /\ source < q
                /\ old.runs[source].type = Types[i - 1] /\ old.runs[source].status = "completed"
                /\ old.runs[source].version = one.version
                /\ Sources(one) \subseteq old.runs[source].rows
      BY <2>1, <2>2 DEF LabRun, MadeBy
  <2>5. /\ new.runs = table /\ new.runs[q] = one /\ q \in DOMAIN new.runs
        /\ \A x \in DOMAIN old.runs : x \in DOMAIN table /\ table[x] = old.runs[x]
      BY <1>8, <1>9, <1>10, <2>1
  <2>6. \A x \in DOMAIN table : table[x].type = one.type => x = q
      BY <1>9, <1>11, <2>1, <2>3, <2>5
  <2>7. \E i \in 1 .. 4 : i < new.stage /\ one.type = Types[i]
      BY <1>8, <2>3
  <2>8. \A i \in 2 .. 4 :
             one.type = Types[i] /\ one.status = "completed" =>
                /\ source \in DOMAIN table /\ source < q
                /\ table[source].type = Types[i - 1] /\ table[source].status = "completed"
                /\ table[source].version = one.version
                /\ Sources(one) \subseteq table[source].rows
      BY <2>4, <2>5
  <2>9. new.group[2] < q /\ context.group = new.group
        /\ (one.status = "completed" => context.configuration.manifest = new.manifest)
      BY <1>8, <2>3
  <2>10. MadeBy(new, q, one, context, source)
      BY <2>3, <2>5, <2>6, <2>7, <2>8, <2>9 DEF MadeBy
  <2> QED
      BY <2>1, <2>5, <2>10 DEF LabRun
<1>13. ASSUME NEW i \in 2 .. 4, run.type = Types[i], run.status = "completed"
       PROVE  LET source == run.context.configuration.source IN
              /\ source \in DOMAIN table /\ source < r
              /\ table[source].type = Types[i - 1] /\ table[source].status = "completed"
              /\ table[source].version = run.version
              /\ Sources(run) \subseteq table[source].rows
  <2>1. i = s
    <3>1. i \in 1 .. 4 /\ Types[i] = Types[s]
        BY <1>13
    <3> QED
        BY <3>1, TypesDistinct
  <2>2. /\ run.context.configuration.source = old.last /\ run.version = old.version
        /\ Sources(run) \subseteq old.runs[old.last].rows
      BY <1>1, <1>13, <2>1
  <2>3. old.last \in DOMAIN table /\ old.last < r /\ table[old.last] = old.runs[old.last]
      BY <1>5, <1>9, <1>10, <2>1
  <2> QED
      BY <1>5, <2>1, <2>2, <2>3
<1>14. LabRun(new, r)
  <2>1. new.group[2] < r
      BY <1>1, <1>4, <1>5, <1>8
  <2>2. \A x \in DOMAIN table : table[x].type = run.type => x = r
      BY <1>9, <1>10, <1>11
  <2>3. \E i \in 1 .. 4 : i < new.stage /\ run.type = Types[i]
      BY <1>8
  <2>4. run.status = "completed" =>
            run.context.configuration.manifest = new.manifest \/ Alone(new, r)
    <3>1. s = 1 => DOMAIN old.runs = {}
      <4>1. \A q \in DOMAIN old.runs : \E i \in 1 .. 4 : i < s
          BY <1>1, <1>5 DEF LabRun, MadeBy
      <4> QED
          BY <4>1
    <3>2. s = 1 => DOMAIN new.runs = {r}
        BY <1>8, <1>9, <3>1
    <3> QED
        BY <1>1, <1>8, <3>2 DEF Alone
  <2>5. run.context.group = new.group
      BY <1>1, <1>8
  <2>6. PICK source : source = run.context.configuration.source
      OBVIOUS
  <2>7. MadeBy(new, r, run, run.context, source)
      BY <1>8, <1>13, <2>1, <2>2, <2>3, <2>4, <2>5, <2>6 DEF MadeBy
  <2> QED
      BY <1>8, <1>9, <2>6, <2>7 DEF LabRun
<1>15. new.phase = "running" =>
              /\ new.stage \in 1 .. 4
              /\ new.stage > 1 =>
                    /\ new.last \in DOMAIN new.runs
                    /\ new.runs[new.last].type = Types[new.stage - 1]
                    /\ new.runs[new.last].status = "completed"
                    /\ new.runs[new.last].version = new.version
                    /\ new.stage = 4 => \A c \in new.runs[new.last].rows : c.version = new.version
  <2>1. SUFFICES ASSUME new.phase = "running"
                 PROVE  /\ new.stage \in 1 .. 4
                        /\ run.type = Types[new.stage - 1] /\ run.status = "completed"
                        /\ run.version = new.version
                        /\ new.stage = 4 => \A c \in run.rows : c.version = new.version
      BY <1>8, <1>9
  <2>2. run.status = "completed" /\ s < 4
      BY <1>8, <2>1
  <2>3. new.stage \in 1 .. 4 /\ new.stage - 1 = s
      BY <1>8, <2>2
  <2> QED
      BY <1>1, <1>8, <2>2, <2>3
<1>16. new.group \in {p} \X (0 .. clock')
    BY <1>2, <1>4, <1>5, <1>8
<1>17. \A q \in DOMAIN new.runs : LabRun(new, q)
    BY <1>8, <1>9, <1>12, <1>14
<1>18. new.phase \in {"running", "ended"} /\ new.phase # "idle"
    BY <1>8
<1>19. LabOK(p)'
    BY <1>2, <1>3, <1>5, <1>8, <1>15, <1>16, <1>17, <1>18 DEF LabOK
<1>20. DOMAIN new.runs \subseteq DOMAIN job[p].runs \cup ((clock + 1) .. clock')
    BY <1>1, <1>2, <1>4, <1>8, <1>9
<1> QED
    BY <1>1, <1>2, <1>4, <1>18, <1>19, <1>20, LabWorking

\* A stage has run, and the next one follows if it has completed.
LEMMA LabStage ==
    ASSUME IInv, NEW p \in Labs, NEW run, NEW s \in 1 .. 4, LabRan(p, run),
           job[p].phase = "running", job[p].stage = s,
           run.type = Types[s], run.context.hash = run.context.configuration,
           run.context.environment = "experiment", run.context.group = job[p].group,
           run.context.step = None,
           run.status = "completed" =>
              /\ run.context.configuration.manifest = job[p].manifest
              /\ run.version = job[p].version
              /\ s > 1 => /\ run.context.configuration.source = job[p].last
                          /\ Sources(run) \subseteq job[p].runs[job[p].last].rows
              /\ s = 3 => \A c \in run.rows : c.version = job[p].version
    PROVE  IInv'
<1>1. PICK next \in {"running", "ended"} :
         next = IF run.status = "completed" /\ s < 4 THEN "running" ELSE "ended"
    OBVIOUS
<1>2. LabStored(p, run, next) /\ (next = "running" => run.status = "completed" /\ s < 4)
    BY <1>1 DEF LabRan
<1> QED
    BY <1>1, <1>2, LabStores

\* The run that a stage reads is the one that this execution has made before it.
LEMMA PreviousIs ==
    ASSUME IInv, NEW p \in Labs, NEW s \in 2 .. 4, job[p].phase = "running", job[p].stage = s
    PROVE  LET previous == Seen(p)[Previous(p)] IN
           /\ previous = job[p].runs[job[p].last]
           /\ previous.type = Types[s - 1] /\ previous.version = job[p].version
           /\ s = 4 => \A c \in previous.rows : c.version = job[p].version
<1>1. /\ job[p].last \in DOMAIN job[p].runs
      /\ job[p].runs[job[p].last].type = Types[s - 1]
      /\ job[p].runs[job[p].last].version = job[p].version
      /\ s = 4 => \A c \in job[p].runs[job[p].last].rows : c.version = job[p].version
    BY DEF IInv, LabOK
<1>2. Seen(p)[Previous(p)] = job[p].runs[job[p].last]
    BY <1>1 DEF Seen, Previous, With
<1> QED
    BY <1>1, <1>2

\* The context of a stage names its execution and its manifest.
LEMMA LabContextIs ==
    ASSUME IInv, NEW p \in Labs, job[p].phase = "running"
    PROVE  /\ LabContext(p) = [environment |-> "experiment", group |-> job[p].group, step |-> None,
                               configuration |-> [source |-> job[p].last, manifest |-> job[p].manifest],
                               hash |-> [source |-> job[p].last, manifest |-> job[p].manifest]]
           /\ LabContext(p).hash = LabContext(p).configuration
           /\ LabContext(p).environment = "experiment" /\ LabContext(p).group = job[p].group
           /\ LabContext(p).step = None
           /\ LabContext(p).configuration.source = job[p].last
           /\ LabContext(p).configuration.manifest = job[p].manifest
<1>1. job[p].group \in Processes \X Nat
    BY DEF IInv, LabOK, Numbers, Processes
<1>2. job[p].group # None
    BY <1>1, ProcessesAssumption
<1>3. PICK group, last, manifest : group = job[p].group /\ last = job[p].last
                                   /\ manifest = job[p].manifest
    OBVIOUS
<1>4. LabContext(p) = [environment |-> "experiment", group |-> group, step |-> None,
                       configuration |-> [source |-> last, manifest |-> manifest],
                       hash |-> [source |-> last, manifest |-> manifest]]
    BY <1>2, <1>3 DEF LabContext, ManifestOf, Context
<1> QED
    BY <1>3, <1>4

LEMMA LabPerceives ==
    ASSUME IInv, NEW p \in Labs, LabPerceive(p)
    PROVE  IInv'
<1>1. PICK run, blocks : run = Perceived(job[p].version, blocks, LabContext(p)) /\ LabRan(p, run)
    BY DEF LabPerceive
<1>2. job[p].phase = "running" /\ job[p].stage = 1
    BY DEF LabPerceive, Stage
<1>3. PICK version, context : version = job[p].version /\ context = LabContext(p)
    OBVIOUS
<1>4. run.type = Types[1] /\ run.version = job[p].version /\ run.context = LabContext(p)
    BY <1>1, <1>3, PerceivedIs
<1> QED
    BY <1>1, <1>2, <1>4, LabContextIs, LabStage

LEMMA LabInterrupts ==
    ASSUME IInv, NEW p \in Labs, LabInterrupted(p)
    PROVE  IInv'
<1>1. job[p].phase = "running" /\ job[p].stage = 1
    BY DEF LabInterrupted, Stage
<1>2. PICK version, context : version = job[p].version /\ context = LabContext(p)
    OBVIOUS
<1>3. PICK stored : LabStored(p, Untold(Perceived(version, stored, context)), "ended")
    BY <1>2 DEF LabInterrupted
<1>4. PICK whole : whole = Perceived(version, stored, context)
    OBVIOUS
<1>5. whole.version = version /\ whole.status = "completed"
    BY <1>4, PerceivedIs
<1>6. Made(whole, Types[1], job[p].group, job[p].last, job[p].manifest)
    BY <1>1, <1>2, <1>4, LabContextIs DEF Perceived, Made
<1>7. PICK run : run = Untold(whole)
    OBVIOUS
<1>8. /\ run.type = Types[1] /\ run.status = "completed" /\ run.version = version
      /\ run.context.hash = run.context.configuration
      /\ run.context.environment = "experiment"
      /\ run.context.group = job[p].group /\ run.context.step = None
    BY <1>5, <1>6, <1>7, BrokenIs
<1>9. LabStored(p, run, "ended")
    BY <1>3, <1>4, <1>7
<1> QED
    BY <1>1, <1>2, <1>8, <1>9, LabStores

LEMMA LabNormalizes ==
    ASSUME IInv, NEW p \in Labs, LabNormalize(p)
    PROVE  IInv'
<1>1. PICK perception, context, good :
         /\ perception = Seen(p)[Previous(p)] /\ context = LabContext(p)
         /\ good = Normalized(perception, context)
    OBVIOUS
<1>2. PICK run : LabRan(p, run) /\ (run = good \/ run = Failed(good))
    BY <1>1 DEF LabNormalize
<1>3. job[p].phase = "running" /\ job[p].stage = 2
    BY DEF LabNormalize, Stage
<1>4. perception = job[p].runs[job[p].last] /\ perception.version = job[p].version
    BY <1>1, <1>3, PreviousIs
<1>5. /\ good.type = Types[2] /\ good.version = perception.version /\ good.context = context
      /\ good.rows \subseteq perception.rows
      /\ Failed(good).type = Types[2] /\ Failed(good).context = context
      /\ Failed(good).status = "failed"
    BY <1>1, NormalizedIs
<1>6. run.type = Types[2] /\ run.context = LabContext(p)
    BY <1>1, <1>2, <1>5
<1>7. run.status = "completed" => run.version = job[p].version /\ run.rows \subseteq perception.rows
    BY <1>2, <1>4, <1>5
<1>8. Sources(run) = run.rows
    BY <1>6, TypesDistinct DEF Sources
<1> QED
    BY <1>2, <1>3, <1>4, <1>6, <1>7, <1>8, LabContextIs, LabStage

LEMMA LabDiscovers ==
    ASSUME IInv, NEW p \in Labs, LabDiscover(p)
    PROVE  IInv'
<1>1. PICK r, normalization, context, good :
         /\ r = clock + 1 /\ normalization = Seen(p)[Previous(p)] /\ context = LabContext(p)
         /\ good = Discovered(r, normalization, context)
    OBVIOUS
<1>2. PICK none, bad : /\ none = [units |-> 0, candidates |-> 0, skipped |-> 0]
                       /\ bad = [good EXCEPT !.metrics = none]
    OBVIOUS
<1>3. PICK run : LabRan(p, run) /\ (run = good \/ run = Broken(bad))
    BY <1>1, <1>2 DEF LabDiscover
<1>4. job[p].phase = "running" /\ job[p].stage = 3
    BY DEF LabDiscover, Stage
<1>5. normalization = job[p].runs[job[p].last] /\ normalization.version = job[p].version
    BY <1>1, <1>4, PreviousIs
<1>6. /\ good.type = Types[3] /\ good.version = normalization.version
      /\ good.context = context /\ good.status = "completed"
      /\ \A c \in good.rows : c.unit \in normalization.rows /\ c.version = normalization.version
    BY <1>1, DiscoveredIs
<1>7. PICK group, last, manifest :
          group = job[p].group /\ last = job[p].last /\ manifest = job[p].manifest
    OBVIOUS
<1>8. Made(good, Types[3], group, last, manifest)
  <2>1. context = [environment |-> "experiment", group |-> group, step |-> None,
                   configuration |-> [source |-> last, manifest |-> manifest],
                   hash |-> [source |-> last, manifest |-> manifest]]
      BY <1>1, <1>4, <1>7, LabContextIs
  <2>2. PICK rows, metrics : good = Run(Types[3], normalization.version, context,
                                        "completed", rows, metrics)
      BY <1>1, DiscoveredIs
  <2> QED
      BY <2>1, <2>2 DEF Made
<1>12. Made(bad, Types[3], group, last, manifest)
    BY <1>2, <1>8, UnmeasuredIs
<1>9. /\ Broken(bad).type = Types[3] /\ Broken(bad).status = "failed"
      /\ Broken(bad).context.hash = Broken(bad).context.configuration
      /\ Broken(bad).context.environment = "experiment"
      /\ Broken(bad).context.group = job[p].group /\ Broken(bad).context.step = None
    BY <1>7, <1>12, BrokenIs
<1>10. CASE run = good
  <2>1. Sources(run) \subseteq normalization.rows
      BY <1>6, <1>10, TypesDistinct DEF Sources
  <2>2. /\ run.type = Types[3] /\ run.version = job[p].version
        /\ run.context = LabContext(p)
        /\ run.context.configuration.manifest = job[p].manifest
        /\ run.context.configuration.source = job[p].last
        /\ run.context.hash = run.context.configuration
        /\ run.context.environment = "experiment" /\ run.context.group = job[p].group
        /\ run.context.step = None
      BY <1>1, <1>4, <1>5, <1>6, <1>10, LabContextIs
  <2>3. Sources(run) \subseteq job[p].runs[job[p].last].rows
      BY <1>5, <2>1
  <2>4. \A c \in run.rows : c.version = job[p].version
      BY <1>5, <1>6, <1>10
  <2> QED
      BY <1>3, <1>4, <2>2, <2>3, <2>4, LabStage
<1>11. CASE run = Broken(bad)
    BY <1>3, <1>4, <1>9, <1>11, LabStage
<1> QED
    BY <1>3, <1>10, <1>11

LEMMA LabResolves ==
    ASSUME IInv, NEW p \in Labs, LabResolve(p)
    PROVE  IInv'
<1>1. PICK scope, context, good :
         /\ scope = Seen(p)[Previous(p)].rows /\ context = LabContext(p)
         /\ good = Resolved(scope, context)
    OBVIOUS
<1>2. PICK untold, uncounted :
         /\ untold = [good EXCEPT !.context.configuration.source = None,
                                  !.context.hash.source = None]
         /\ uncounted = [untold EXCEPT !.metrics.entities = 0, !.metrics.memberships = 0,
                 !.metrics.evidences = 0, !.metrics.singles = 0, !.metrics.grouped = 0]
    OBVIOUS
<1>3. scope # {} /\ job[p].phase = "running" /\ job[p].stage = 4
    BY <1>1 DEF LabResolve, Stage
<1>4. PICK run : LabRan(p, run) /\ (run = good \/ run = Broken(untold) \/ run = Broken(uncounted))
    BY <1>1, <1>2 DEF LabResolve
<1>5. /\ scope = job[p].runs[job[p].last].rows
      /\ \A c \in scope : c.version = job[p].version
    BY <1>1, <1>3, PreviousIs
<1>6. /\ good.type = Types[4] /\ good.context = context /\ good.status = "completed"
      /\ UNION good.rows = scope
      /\ \A v : scope # {} /\ (\A c \in scope : c.version = v) => good.version = v
  <2>1. good = Resolved(scope, context)
      BY <1>1
  <2>2. ASSUME NEW v, scope # {}, \A c \in scope : c.version = v PROVE good.version = v
      BY ONLY <2>1, <2>2, ResolvedIs
  <2> QED
      BY <2>1, <2>2, ResolvedIs
<1>7. PICK version, rows, metrics : good = Run(Types[4], version, context,
                                               "completed", rows, metrics)
    BY <1>1, ResolvedIs
<1>8. PICK group, last, manifest :
          group = job[p].group /\ last = job[p].last /\ manifest = job[p].manifest
    OBVIOUS
<1>9. context = [environment |-> "experiment", group |-> group, step |-> None,
                 configuration |-> [source |-> last, manifest |-> manifest],
                 hash |-> [source |-> last, manifest |-> manifest]]
    BY <1>1, <1>3, <1>8, LabContextIs
<1>10. Made(good, Types[4], group, last, manifest)
    BY <1>7, <1>9 DEF Made
<1>11. Made(untold, Types[4], group, None, manifest)
    BY <1>2, <1>10, UntoldIs
<1>12. Made(uncounted, Types[4], group, None, manifest)
    BY <1>2, <1>11, UncountedIs
<1>13. ASSUME NEW bad, bad = untold \/ bad = uncounted
       PROVE  /\ Broken(bad).type = Types[4] /\ Broken(bad).status = "failed"
              /\ Broken(bad).context.hash = Broken(bad).context.configuration
              /\ Broken(bad).context.environment = "experiment"
              /\ Broken(bad).context.group = job[p].group /\ Broken(bad).context.step = None
    BY <1>8, <1>11, <1>12, <1>13, BrokenIs
<1>14. CASE run = good
  <2>1. Sources(run) = scope
      BY <1>6, <1>14, TypesDistinct DEF Sources
  <2>2. run.version = job[p].version
      BY <1>3, <1>5, <1>6, <1>14
  <2>3. /\ run.type = Types[4] /\ run.context = LabContext(p)
        /\ run.context.configuration.manifest = job[p].manifest
        /\ run.context.configuration.source = job[p].last
        /\ run.context.hash = run.context.configuration
        /\ run.context.environment = "experiment" /\ run.context.group = job[p].group
        /\ run.context.step = None
      BY <1>1, <1>3, <1>6, <1>14, LabContextIs
  <2>4. Sources(run) \subseteq job[p].runs[job[p].last].rows
      BY <1>5, <2>1
  <2> QED
      BY <1>3, <1>4, <2>2, <2>3, <2>4, LabStage
<1>15. CASE run = Broken(untold) \/ run = Broken(uncounted)
  <2>1. PICK bad : run = Broken(bad) /\ (bad = untold \/ bad = uncounted)
      BY <1>15
  <2> QED
      BY <1>3, <1>4, <1>13, <2>1, LabStage
<1> QED
    BY <1>4, <1>14, <1>15

LEMMA LabStops ==
    ASSUME IInv, NEW p \in Labs, LabStop(p)
    PROVE  IInv'
<1>1. PICK old, new : /\ old = job[p] /\ new = [old EXCEPT !.phase = "ended"]
                      /\ job' = [job EXCEPT ![p] = new]
    BY DEF LabStop, Set
<1>2. /\ runs' = runs /\ tests' = tests /\ lost' = lost /\ clock' = clock
      /\ old.phase = "running"
    BY <1>1 DEF LabStop
<1>3. job'[p] = new
    BY <1>1 DEF IInv, Numbers, Processes
<1>4. /\ LabShape(old) /\ old.group \in {p} \X (0 .. clock)
      /\ \A q \in DOMAIN runs : ~ InGroup(runs, q, old.group)
      /\ \A q \in DOMAIN old.runs : LabRun(old, q)
    BY <1>1, <1>2 DEF IInv, LabOK
<1>5. /\ new.runs = old.runs /\ new.stage = old.stage /\ new.manifest = old.manifest
      /\ new.group = old.group /\ new.phase = "ended" /\ LabShape(new)
    BY <1>1, <1>4 DEF LabShape
<1>6. ASSUME NEW q \in DOMAIN new.runs PROVE LabRun(new, q)
  <2>1. LabRun(old, q)
      BY <1>4, <1>5
  <2> QED
      BY <1>2, <1>5, <2>1 DEF LabRun, MadeBy, Alone
<1>7. LabOK(p)'
    BY <1>2, <1>3, <1>4, <1>5, <1>6 DEF LabOK
<1> QED
    BY <1>1, <1>2, <1>5, <1>7, LabWorking

\* A session becomes idle.
LEMMA SetIdle ==
    ASSUME IInv, NEW p \in Processes, Set(p, Idle)
    PROVE  /\ job'[p] = Idle /\ job'[p].phase = "idle" /\ DOMAIN job' = Processes
           /\ \A q \in Processes : q # p => job'[q] = job[q]
           /\ LabOK(p)' /\ ExperimentOK(p)' /\ TestOK(p)' /\ Drawn(p)' = {}
<1>1. job' = [job EXCEPT ![p] = Idle] /\ DOMAIN job = Processes
    BY DEF Set, IInv, Numbers
<1>2. job'[p] = Idle /\ DOMAIN job' = Processes /\ \A q \in Processes : q # p => job'[q] = job[q]
    BY <1>1
<1>3. Idle.phase = "idle"
    BY DEF Idle
<1> QED
    BY <1>2, <1>3, IdleOK

LEMMA LabCommits ==
    ASSUME IInv, NEW p \in Labs, LabCommit(p)
    PROVE  IInv'
<1>1. p \in Processes /\ p \notin Experimenters /\ p \notin Testers
    BY Kinds DEF Processes
<1>2. /\ job[p].phase = "ended" /\ runs' = With(runs, job[p].runs) /\ Set(p, Idle)
      /\ tests' = tests /\ clock' = clock /\ lost' = lost
    BY DEF LabCommit
<1>3. /\ job'[p].phase = "idle" /\ DOMAIN job' = Processes
      /\ \A q \in Processes : q # p => job'[q] = job[q]
      /\ LabOK(p)' /\ Drawn(p)' = {}
    BY <1>1, <1>2, SetIdle
<1>4. DOMAIN job[p].runs = Drawn(p)
    BY <1>1, <1>2 DEF Drawn
<1>5. Moved(p)
    BY <1>2, <1>3, <1>4 DEF Moved
<1>6. PICK j, base : j = job[p] /\ base = runs
    OBVIOUS
<1>7. /\ DOMAIN base \cap DOMAIN j.runs = {} /\ DOMAIN j.runs \subseteq Nat /\ clock \in Nat
      /\ \A q \in DOMAIN base : Chained(base, q) /\ Grouped(base, q)
    BY <1>1, <1>4, <1>6 DEF IInv, Numbers
<1>8. LabOK(p)
    BY DEF IInv
<1>9. /\ j.group \in {p} \X (0 .. clock)
      /\ \A q \in DOMAIN base : ~ InGroup(base, q, j.group)
      /\ \A q \in DOMAIN j.runs : LabRun(j, q)
    BY <1>2, <1>6, <1>8 DEF LabOK
<1>10. \A q \in DOMAIN j.runs : InGroup(j.runs, q, j.group) /\ j.runs[q].context.step = None
    BY <1>9 DEF LabRun, MadeBy, InGroup
<1>11. PICK table, more, g : table = With(base, more) /\ more = j.runs /\ g = j.group
    OBVIOUS
<1>12. \A q \in DOMAIN base : Chained(table, q) /\ Grouped(table, q)
  <2>1. /\ \A q \in DOMAIN more : InGroup(more, q, g)
        /\ \A q \in DOMAIN base : ~ InGroup(base, q, g)
        /\ DOMAIN base \cap DOMAIN more = {}
      BY <1>7, <1>9, <1>10, <1>11
  <2> QED
      BY <1>7, <1>11, <2>1, ChainedKept, FreshGroup
<1>13. ASSUME NEW r \in DOMAIN j.runs PROVE Chained(table, r) /\ Grouped(table, r)
  <2>1. PICK n \in Nat : n = clock
      BY <1>7
  <2>2. j.group \in {p} \X (0 .. n)
      BY <1>9, <2>1
  <2>3. LET t == With(base, j.runs) IN Chained(t, r) /\ Grouped(t, r)
      BY <1>7, <1>9, <2>2, LabJoins
  <2> QED
      BY <1>11, <2>3
<1>14. DOMAIN table = DOMAIN base \cup DOMAIN more
    BY <1>11 DEF With
<1>15. \A r \in DOMAIN runs' : Chained(runs', r) /\ Grouped(runs', r)
    BY <1>2, <1>6, <1>11, <1>12, <1>13, <1>14
<1>16. \A r \in DOMAIN runs' \ DOMAIN runs : runs'[r].context.step = None
    BY <1>5, <1>1, <1>6, <1>10, RunsKept
<1>17. TraceWhole'
    BY <1>1, <1>2, <1>5, <1>16, TraceKept
<1> QED
    BY <1>1, <1>3, <1>5, <1>15, <1>17, Assembled

-----------------------------------------------------------------------------
\* The discovery experiment.

LEMMA ExperimentDiscovers ==
    ASSUME IInv, NEW p \in Experimenters, ExperimentDiscover(p)
    PROVE  IInv'
<1>1. p \in Processes /\ p \notin Labs /\ p \notin Testers
    BY Kinds DEF Processes
<1>0. PICK n \in DOMAIN runs, commit \in BOOLEAN :
        /\ Completed(n, Types[2])
        /\ LET group == IF runs[n].context.environment = "experiment"
                        THEN runs[n].context.group ELSE <<p, clock>>
           IN job' = [job EXCEPT ![p] =
                        [phase |-> IF commit THEN "keep" ELSE "drop",
                         runs |-> One(clock + 1, Discovered(clock + 1, runs[n],
                                       Context(n, None, group, None)))]]
    BY DEF ExperimentDiscover, Set, Group
<1>2. PICK group, phase, r, source, context, run, more, j :
         /\ Completed(n, Types[2]) /\ source = runs[n] /\ r = clock + 1
         /\ group = IF runs[n].context.environment = "experiment"
                    THEN runs[n].context.group ELSE <<p, clock>>
         /\ phase \in {"keep", "drop"}
         /\ context = Context(n, None, group, None)
         /\ run = Discovered(r, source, context)
         /\ more = One(r, run)
         /\ j = [phase |-> phase, runs |-> more]
         /\ job' = [job EXCEPT ![p] = j]
  <2>1. PICK phase : phase = IF commit THEN "keep" ELSE "drop"
      OBVIOUS
  <2> QED
      BY <1>0, <2>1
<1>3. /\ runs' = runs /\ tests' = tests /\ lost' = lost /\ clock' = clock + 1
      /\ job[p].phase = "idle"
    BY DEF ExperimentDiscover, Draw
<1>4. /\ clock \in Nat /\ DOMAIN runs \subseteq 1 .. clock /\ DOMAIN job = Processes
    BY DEF IInv, Numbers
<1>5. job'[p] = j /\ DOMAIN job' = Processes /\ \A q \in Processes : q # p => job'[q] = job[q]
    BY <1>1, <1>2, <1>4
<1>6. j.phase = phase /\ j.runs = more /\ DOMAIN more = {r} /\ more[r] = run
    BY <1>2, OneIs
<1>7. Drawn(p)' \subseteq Drawn(p) \cup ((clock + 1) .. clock')
    BY <1>1, <1>2, <1>3, <1>4, <1>5, <1>6 DEF Drawn
<1>8. Moved(p)
    BY <1>3, <1>5, <1>7 DEF Moved
<1>9. group # None
  <2>1. CASE runs[n].context.environment = "experiment"
    <3>1. group \in Processes \X Nat
        BY <1>2, <2>1 DEF IInv, Grouped
    <3> QED
        BY <3>1, ProcessesAssumption
  <2>2. CASE runs[n].context.environment # "experiment"
    <3>1. group = <<p, clock>>
        BY <1>2, <2>2
    <3>2. group \in Processes \X Nat
        BY <1>1, <1>4, <3>1
    <3> QED
        BY <3>2, ProcessesAssumption
  <2> QED
      BY <2>1, <2>2
<1>10. /\ run.type = Types[3] /\ run.version = source.version
       /\ run.context = context /\ run.status = "completed"
       /\ \A c \in run.rows : c.unit \in source.rows
    BY <1>2, DiscoveredIs
<1>11. /\ context.hash = context.configuration
       /\ context.configuration = [source |-> n, manifest |-> None]
       /\ context.environment = "experiment"
       /\ context.group = group /\ context.step = None
    BY <1>2, <1>9, ContextIs
<1>12. Sources(run) \subseteq runs[n].rows
    BY <1>2, <1>10, TypesDistinct DEF Sources
<1>13. r \in 1 .. clock' /\ n < r /\ n \in DOMAIN runs'
    BY <1>2, <1>3, <1>4
<1>14. \A q \in DOMAIN runs' : q < r
    BY <1>2, <1>3, <1>4
<1>15. run.context.group = IF runs'[n].context.environment = "experiment"
                           THEN runs'[n].context.group ELSE <<p, r - 1>>
    BY <1>2, <1>3, <1>4, <1>10, <1>11
<1>16. Completed(n, Types[2])'
    BY <1>2, <1>3 DEF Completed
<1>17. ExperimentOK(p)'
  <2>1. /\ run.type = Types[3] /\ run.status = "completed" /\ run.version = runs'[n].version
        /\ Sources(run) \subseteq runs'[n].rows
        /\ run.context.environment = "experiment" /\ run.context.step = None
        /\ run.context.configuration = [source |-> n, manifest |-> None]
        /\ run.context.hash = run.context.configuration
      BY <1>2, <1>3, <1>10, <1>11, <1>12
  <2>2. \A q \in DOMAIN runs' :
              InGroup(runs', q, run.context.group) /\ runs'[q].type = Types[4] => q < r
      BY <1>14
  <2>3. DOMAIN j.runs = {r} /\ j.runs[r] = run /\ j.phase \in {"keep", "drop"}
      BY <1>2, <1>6
  <2> QED
      BY <1>5, <1>13, <1>15, <1>16, <2>1, <2>2, <2>3 DEF ExperimentOK
<1> QED
    BY <1>1, <1>3, <1>8, <1>17, Working

LEMMA ExperimentEnds ==
    ASSUME IInv, NEW p \in Experimenters, ExperimentEnd(p)
    PROVE  IInv'
<1>1. p \in Processes /\ p \notin Labs /\ p \notin Testers
    BY Kinds DEF Processes
<1>2. /\ job[p].phase \in {"keep", "drop"} /\ Set(p, Idle)
      /\ runs' = IF job[p].phase = "keep" THEN With(runs, job[p].runs) ELSE runs
      /\ tests' = tests /\ clock' = clock /\ lost' = lost
    BY DEF ExperimentEnd
<1>3. /\ job'[p].phase = "idle" /\ DOMAIN job' = Processes
      /\ \A q \in Processes : q # p => job'[q] = job[q]
      /\ ExperimentOK(p)' /\ Drawn(p)' = {}
    BY <1>1, <1>2, SetIdle
<1>4. job[p].phase # "idle" /\ DOMAIN job[p].runs = Drawn(p)
    BY <1>1, <1>2 DEF Drawn
<1>5. Moved(p)
    BY <1>2, <1>3, <1>4 DEF Moved
<1>6. CASE job[p].phase = "drop"
    BY <1>1, <1>2, <1>3, <1>5, <1>6, Working
<1>7. CASE job[p].phase = "keep"
  <2>1. PICK base, more : base = runs /\ more = job[p].runs
      OBVIOUS
  <2>2. ExperimentOK(p)
      BY DEF IInv
  <2>3. PICK r \in 1 .. clock, n \in DOMAIN runs :
              LET run == job[p].runs[r] IN
              /\ DOMAIN job[p].runs = {r} /\ n < r
              /\ Completed(n, Types[2])
              /\ run.type = Types[3] /\ run.status = "completed" /\ run.version = runs[n].version
              /\ Sources(run) \subseteq runs[n].rows
              /\ run.context.environment = "experiment" /\ run.context.step = None
              /\ run.context.configuration = [source |-> n, manifest |-> None]
              /\ run.context.hash = run.context.configuration
              /\ run.context.group = IF runs[n].context.environment = "experiment"
                                     THEN runs[n].context.group ELSE <<p, r - 1>>
              /\ \A q \in DOMAIN runs :
                    InGroup(runs, q, run.context.group) /\ runs[q].type = Types[4] => q < r
      BY <1>4, <2>2 DEF ExperimentOK
  <2>4. PICK run : run = more[r]
      OBVIOUS
  <2>5. /\ DOMAIN more = {r} /\ n < r
        /\ base[n].type = Types[2] /\ base[n].status = "completed"
        /\ run.type = Types[3] /\ run.status = "completed" /\ run.version = base[n].version
        /\ Sources(run) \subseteq base[n].rows
        /\ run.context.environment = "experiment" /\ run.context.step = None
        /\ run.context.configuration = [source |-> n, manifest |-> None]
        /\ run.context.hash = run.context.configuration
        /\ run.context.group = IF base[n].context.environment = "experiment"
                               THEN base[n].context.group ELSE <<p, r - 1>>
        /\ \A q \in DOMAIN base :
              InGroup(base, q, run.context.group) /\ base[q].type = Types[4] => q < r
      BY <2>1, <2>3, <2>4 DEF Completed
  <2>6. /\ r \in Nat \ {0} /\ n \in DOMAIN base /\ DOMAIN base \subseteq Nat /\ r \notin DOMAIN base
        /\ \A q \in DOMAIN base : Chained(base, q) /\ Grouped(base, q)
    <3>1. clock \in Nat /\ DOMAIN runs \subseteq 1 .. clock /\ Drawn(p) \cap DOMAIN runs = {}
        BY <1>1 DEF IInv, Numbers
    <3>2. r \in Drawn(p)
        BY <1>4, <2>3
    <3>3. \A q \in DOMAIN runs : Chained(runs, q) /\ Grouped(runs, q)
        BY DEF IInv
    <3> QED
        BY <2>1, <3>1, <3>2, <3>3
  <2>7. LET table == With(base, more) IN
        \A q \in DOMAIN table : Chained(table, q) /\ Grouped(table, q)
      BY <2>4, <2>5, <2>6, ExperimentJoins
  <2>8. \A q \in DOMAIN runs' : Chained(runs', q) /\ Grouped(runs', q)
      BY <1>2, <1>7, <2>1, <2>7
  <2>9. \A q \in DOMAIN runs' \ DOMAIN runs : runs'[q].context.step = None
      BY <1>1, <1>5, <2>1, <2>4, <2>5, RunsKept
  <2>10. TraceWhole'
      BY <1>1, <1>2, <1>5, <2>9, TraceKept
  <2> QED
      BY <1>1, <1>3, <1>5, <2>8, <2>10, Assembled
<1> QED
    BY <1>2, <1>6, <1>7

-----------------------------------------------------------------------------
\* The step test.

LEMMA TestBegins ==
    ASSUME IInv, NEW p \in Testers, TestBegin(p)
    PROVE  IInv'
<1>1. p \in Processes /\ p \notin Labs /\ p \notin Experimenters
    BY Kinds DEF Processes
<1>2. PICK inputs, t, trace, j :
         /\ t = clock + 1 /\ trace = Trace("running", inputs, {})
         /\ tests' = With(tests, One(t, trace))
         /\ j = [phase |-> "traced", test |-> t, outcome |-> None, outputs |-> {}, runs |-> <<>>]
         /\ job' = [job EXCEPT ![p] = j]
    BY DEF TestBegin, CreateTrace, Set
<1>3. /\ job[p].phase = "idle" /\ clock' = clock + 1
      /\ runs' = runs /\ lost' = lost
    BY DEF TestBegin, Draw
<1>4. /\ clock \in Nat /\ DOMAIN job = Processes /\ DOMAIN tests \subseteq 1 .. clock
      /\ DOMAIN runs \subseteq 1 .. clock /\ lost \subseteq DOMAIN tests
    BY DEF IInv, Numbers
<1>5. job'[p] = j /\ DOMAIN job' = Processes /\ \A q \in Processes : q # p => job'[q] = job[q]
    BY <1>1, <1>2, <1>4
<1>6. /\ j.phase = "traced" /\ j.test = t /\ j.outputs = {} /\ DOMAIN j.runs = {} /\ TestShape(j)
    BY <1>2 DEF TestShape
<1>7. /\ trace.execution = "running" /\ trace.step = "running" /\ trace.outputs = {}
    BY <1>2 DEF Trace
<1>8. t \notin DOMAIN tests /\ t \notin DOMAIN runs /\ t \notin lost /\ t # None /\ t \in Nat
  <2>1. t \in Nat /\ t \notin 1 .. clock
      BY <1>2, <1>4
  <2> QED
      BY <1>4, <2>1, ProcessesAssumption
<1>9. /\ DOMAIN tests' = DOMAIN tests \cup {t} /\ tests'[t] = trace
      /\ \A q \in DOMAIN tests : tests'[q] = tests[q]
    BY <1>2, <1>8 DEF With, One
<1>10. DOMAIN tests' \subseteq DOMAIN tests \cup ((clock + 1) .. clock')
    BY <1>2, <1>3, <1>4, <1>9
<1>11. Drawn(p)' \subseteq Drawn(p) \cup ((clock + 1) .. clock')
    BY <1>2, <1>3, <1>4, <1>5, <1>6 DEF Drawn
<1>12. Moved(p)
    BY <1>3, <1>5, <1>9, <1>10, <1>11 DEF Moved
<1>13. TestOK(p)'
    BY <1>3, <1>5, <1>6, <1>7, <1>8, <1>9 DEF TestOK
<1>14. TraceWhole /\ \A r \in DOMAIN runs : Chained(runs, r) /\ Grouped(runs, r)
    BY DEF IInv
<1>15. \A q : RunsOf(q)' = RunsOf(q)
    BY <1>3 DEF RunsOf
<1>16. RunsOf(t) = {}
    BY <1>8, <1>14 DEF RunsOf, TraceWhole
<1>17. ASSUME NEW q \in DOMAIN tests
       PROVE  /\ tests'[q].execution = tests'[q].step
              /\ tests'[q].step = "completed" =>
                    \E r \in DOMAIN runs' : /\ RunsOf(q)' = {r} /\ runs'[r].status = "completed"
                                           /\ tests'[q].outputs = runs'[r].rows
                                           /\ UNION runs'[r].rows = tests'[q].inputs
              /\ tests'[q].step # "completed" => RunsOf(q)' = {} /\ tests'[q].outputs = {}
  <2>1. tests'[q] = tests[q] /\ RunsOf(q)' = RunsOf(q)
      BY <1>9, <1>15
  <2>2. /\ tests[q].execution = tests[q].step
        /\ tests[q].step = "completed" =>
              \E r \in DOMAIN runs : /\ RunsOf(q) = {r} /\ runs[r].status = "completed"
                                    /\ tests[q].outputs = runs[r].rows
                                    /\ UNION runs[r].rows = tests[q].inputs
        /\ tests[q].step # "completed" => RunsOf(q) = {} /\ tests[q].outputs = {}
      BY <1>14 DEF TraceWhole
  <2> QED
      BY <1>3, <2>1, <2>2
<1>18. ASSUME NEW q \in DOMAIN tests, tests'[q].step = "running"
       PROVE  q \in lost' \/ \E x \in Testers : job'[x].phase # "idle" /\ job'[x].test = q
  <2>1. q \in lost \/ \E x \in Testers : job[x].phase # "idle" /\ job[x].test = q
      BY <1>9, <1>14, <1>18 DEF TraceWhole
  <2>2. \A x \in Testers : job[x].phase # "idle" => job'[x] = job[x]
      BY <1>3, <1>5 DEF Processes
  <2> QED
      BY <1>3, <2>1, <2>2
<1>19. job'[p].phase # "idle" /\ job'[p].test = t
    BY <1>5, <1>6
<1>20. TraceWhole'
  <2>1. \A r \in DOMAIN runs' : runs'[r].context.step \in {None} \cup DOMAIN tests'
      BY <1>3, <1>9, <1>14 DEF TraceWhole
  <2>2. ASSUME NEW q \in DOMAIN tests'
        PROVE /\ tests'[q].execution = tests'[q].step
              /\ tests'[q].step = "running" =>
                    q \in lost' \/ \E x \in Testers : job'[x].phase # "idle" /\ job'[x].test = q
              /\ tests'[q].step = "completed" =>
                    \E r \in DOMAIN runs' : /\ RunsOf(q)' = {r} /\ runs'[r].status = "completed"
                                           /\ tests'[q].outputs = runs'[r].rows
                                           /\ UNION runs'[r].rows = tests'[q].inputs
              /\ tests'[q].step # "completed" => RunsOf(q)' = {} /\ tests'[q].outputs = {}
    <3>1. CASE q = t
        BY <1>7, <1>9, <1>15, <1>16, <1>19, <3>1
    <3>2. CASE q \in DOMAIN tests
        BY <1>17, <1>18, <3>2
    <3> QED
        BY <1>9, <3>1, <3>2
  <2> QED
      BY <2>1, <2>2 DEF TraceWhole
<1> QED
    BY <1>1, <1>3, <1>12, <1>13, <1>14, <1>20, Assembled

LEMMA TestRuns ==
    ASSUME IInv, NEW p \in Testers, TestRun(p)
    PROVE  IInv'
<1>1. p \in Processes /\ p \notin Labs /\ p \notin Experimenters
    BY Kinds DEF Processes
<1>2. PICK test, scope, g, context, run, rows, old, new, more, failed :
         /\ old = job[p] /\ test = old.test /\ scope = tests[test].inputs
         /\ g = <<p, test>> /\ context = Context(None, None, g, test)
         /\ run = Resolved(scope, context) /\ more = One(test, run) /\ rows = run.rows
         /\ new = [old EXCEPT !.phase = "ran", !.outcome = "completed",
                              !.outputs = rows, !.runs = more]
         /\ failed = [old EXCEPT !.phase = "ran", !.outcome = "failed"]
    OBVIOUS
<1>3. job' = [job EXCEPT ![p] = new] \/ job' = [job EXCEPT ![p] = failed]
    BY <1>2 DEF TestRun, Set, RolledBack
<1>4. /\ old.phase = "traced" /\ clock' = clock
      /\ runs' = runs /\ tests' = tests /\ lost' = lost
    BY <1>2 DEF TestRun
<1>5. /\ TestShape(old) /\ test \in DOMAIN tests /\ test \notin lost
      /\ tests[test].execution = "running" /\ tests[test].step = "running"
      /\ DOMAIN old.runs = {} /\ old.outputs = {}
  <2>1. TestOK(p)
      BY DEF IInv
  <2> QED
      BY <1>2, <1>4, <2>1 DEF TestOK
<1>6. /\ new.phase = "ran" /\ new.test = test /\ new.outcome = "completed"
      /\ new.outputs = rows /\ new.runs = more /\ TestShape(new)
      /\ failed.phase = "ran" /\ failed.test = test /\ failed.outcome = "failed"
      /\ failed.outputs = old.outputs /\ failed.runs = old.runs /\ TestShape(failed)
    BY <1>2, <1>5 DEF TestShape
<1>7. g # None
  <2>1. test \in Nat
      BY <1>5 DEF IInv, Numbers
  <2>2. g \in Processes \X Nat
      BY <1>1, <1>2, <2>1
  <2> QED
      BY <2>2, ProcessesAssumption
<1>8. /\ run.type = Types[4] /\ run.context = context /\ run.status = "completed"
      /\ UNION run.rows = scope
  <2>1. run = Resolved(scope, context)
      BY <1>2
  <2> QED
      BY <2>1, ResolvedIs
<1>9. /\ context.hash = context.configuration /\ context.environment = "experiment"
      /\ context.group = g /\ context.step = test
  <2>1. context = Context(None, None, g, test)
      BY <1>2
  <2> QED
      BY <1>7, <2>1 DEF Context
<1>10. DOMAIN more = {test} /\ more[test] = run
    BY <1>2, OneIs
<1>11. DOMAIN job = Processes
    BY DEF IInv, Numbers
<1>12. PICK j : (j = new \/ j = failed) /\ job' = [job EXCEPT ![p] = j]
    BY <1>3
<1>13. job'[p] = j /\ DOMAIN job' = Processes /\ \A q \in Processes : q # p => job'[q] = job[q]
    BY <1>1, <1>11, <1>12
<1>14. j.phase = "ran" /\ j.test = test
    BY <1>6, <1>12
<1>15. Drawn(p)' \subseteq Drawn(p)
    BY <1>2, <1>4, <1>13, <1>14 DEF Drawn
<1>16. Moved(p)
    BY <1>4, <1>13, <1>15 DEF Moved
<1>17. TestOK(p)'
  <2>1. CASE j = failed
      BY <1>4, <1>5, <1>6, <1>13, <2>1 DEF TestOK
  <2>2. CASE j = new
    <3>1. /\ j.outcome = "completed" /\ DOMAIN j.runs = {j.test} /\ j.runs[j.test] = run
          /\ TestShape(j) /\ j.outputs = run.rows
        BY <1>2, <1>6, <1>10, <2>2
    <3>2. run.context.group = <<p, j.test>> /\ run.context.step = j.test
        BY <1>2, <1>8, <1>9, <1>14
    <3>3. UNION run.rows = tests[j.test].inputs
        BY <1>2, <1>8, <1>14
    <3> QED
        BY <1>4, <1>5, <1>8, <1>9, <1>13, <1>14, <3>1, <3>2, <3>3 DEF TestOK
  <2> QED
      BY <1>12, <2>1, <2>2
<1> QED
    BY <1>1, <1>2, <1>4, <1>13, <1>14, <1>16, <1>17, Working

LEMMA TestEnds ==
    ASSUME IInv, NEW p \in Testers, TestEnd(p)
    PROVE  IInv'
<1>1. p \in Processes /\ p \notin Labs /\ p \notin Experimenters
    BY Kinds DEF Processes
<1>2. PICK j, base, more, test, old : /\ j = job[p] /\ base = runs /\ more = j.runs
                                      /\ test = j.test /\ old = tests[test]
    OBVIOUS
<1>3. /\ j.phase = "ran" /\ runs' = With(base, more) /\ Set(p, Idle)
      /\ clock' = clock /\ lost' = lost
      /\ tests' = [tests EXCEPT ![test] = Trace(j.outcome, @.inputs, j.outputs)]
    BY <1>2 DEF TestEnd, EndTrace
<1>4. /\ job'[p].phase = "idle" /\ DOMAIN job' = Processes
      /\ \A q \in Processes : q # p => job'[q] = job[q]
      /\ TestOK(p)' /\ Drawn(p)' = {}
    BY <1>1, <1>3, SetIdle
<1>5. TestOK(p) /\ Drawn(p) = {test}
    BY <1>2, <1>3 DEF IInv, Drawn
<1>6. /\ test \in DOMAIN tests /\ test \notin lost
      /\ tests[test].execution = "running" /\ tests[test].step = "running"
      /\ \/ j.outcome = "failed" /\ DOMAIN j.runs = {} /\ j.outputs = {}
         \/ /\ j.outcome = "completed" /\ DOMAIN j.runs = {test}
            /\ LET run == j.runs[test] IN
                    /\ run.type = Types[4] /\ run.status = "completed"
                    /\ run.context.hash = run.context.configuration
                    /\ run.context.environment = "experiment"
                    /\ run.context.group = <<p, test>> /\ run.context.step = test
                    /\ run.rows = j.outputs /\ UNION run.rows = tests[test].inputs
    BY <1>2, <1>3, <1>5 DEF TestOK
<1>7. PICK trace : /\ trace = Trace(j.outcome, old.inputs, j.outputs)
                   /\ DOMAIN tests' = DOMAIN tests /\ tests'[test] = trace
                   /\ \A t \in DOMAIN tests : t # test => tests'[t] = tests[t]
    BY <1>2, <1>3, <1>6
<1>8. /\ trace.execution = j.outcome /\ trace.step = j.outcome
      /\ trace.inputs = tests[test].inputs /\ trace.outputs = j.outputs
    BY <1>2, <1>7 DEF Trace
<1>9. Moved(p)
    BY <1>2, <1>3, <1>4, <1>5, <1>6, <1>7 DEF Moved
<1>10. /\ TraceWhole /\ Numbers
       /\ \A q \in DOMAIN base : Chained(base, q) /\ Grouped(base, q)
    BY <1>2 DEF IInv
<1>11. /\ test \in Nat /\ test \notin DOMAIN base /\ test # None
       /\ \A t \in DOMAIN tests : t # None
    BY <1>1, <1>2, <1>5, <1>6, <1>10, ProcessesAssumption DEF Numbers
<1>12. /\ \A q \in DOMAIN base : q \in DOMAIN runs' /\ runs'[q] = base[q]
       /\ \A q \in DOMAIN runs' \ DOMAIN base : q = test /\ q \in DOMAIN more
                                                  /\ runs'[q] = more[q]
       /\ DOMAIN runs' = DOMAIN base \cup DOMAIN more
    BY <1>2, <1>3, <1>6, <1>11 DEF With
<1>13. RunsOf(test) = {}
    BY <1>6, <1>10 DEF TraceWhole
<1>14. ASSUME NEW t \in DOMAIN tests, t # test PROVE RunsOf(t)' = RunsOf(t)
  <2>1. ASSUME NEW q \in DOMAIN runs' \ DOMAIN base PROVE runs'[q].context.step = test
    <3>1. q \in DOMAIN j.runs /\ q = test /\ runs'[q] = j.runs[q]
        BY <1>2, <1>12, <2>1
    <3>2. j.runs[test].context.step = test
        BY <1>6, <3>1
    <3> QED
        BY <3>1, <3>2
  <2>2. \A q : q \in RunsOf(t)' <=> q \in RunsOf(t)
      BY <1>2, <1>12, <1>14, <2>1 DEF RunsOf
  <2> QED
      BY <2>2, SetExtensionality
<1>15. ASSUME NEW t \in DOMAIN tests, t # test
       PROVE  /\ tests'[t].execution = tests'[t].step
              /\ tests'[t].step = "running" =>
                    t \in lost' \/ \E x \in Testers : job'[x].phase # "idle" /\ job'[x].test = t
              /\ tests'[t].step = "completed" =>
                    \E r \in DOMAIN runs' : /\ RunsOf(t)' = {r} /\ runs'[r].status = "completed"
                                           /\ tests'[t].outputs = runs'[r].rows
                                           /\ UNION runs'[r].rows = tests'[t].inputs
              /\ tests'[t].step # "completed" => RunsOf(t)' = {} /\ tests'[t].outputs = {}
  <2>1. tests'[t] = tests[t] /\ RunsOf(t)' = RunsOf(t)
      BY <1>7, <1>14, <1>15
  <2>2. /\ tests[t].execution = tests[t].step
        /\ tests[t].step = "running" =>
              t \in lost \/ \E x \in Testers : job[x].phase # "idle" /\ job[x].test = t
        /\ tests[t].step = "completed" =>
              \E r \in DOMAIN runs : /\ RunsOf(t) = {r} /\ runs[r].status = "completed"
                                    /\ tests[t].outputs = runs[r].rows
                                    /\ UNION runs[r].rows = tests[t].inputs
        /\ tests[t].step # "completed" => RunsOf(t) = {} /\ tests[t].outputs = {}
      BY <1>10 DEF TraceWhole
  <2>3. ASSUME tests[t].step = "running"
        PROVE  t \in lost' \/ \E x \in Testers : job'[x].phase # "idle" /\ job'[x].test = t
    <3>1. ASSUME NEW x \in Testers, job[x].phase # "idle", job[x].test = t
          PROVE  job'[x].phase # "idle" /\ job'[x].test = t
      <4>1. x # p
          BY <1>2, <1>15, <3>1
      <4>2. job'[x] = job[x]
          BY <1>4, <4>1 DEF Processes
      <4> QED
          BY <3>1, <4>2
    <3> QED
        BY <1>3, <2>2, <2>3, <3>1
  <2>4. ASSUME tests[t].step = "completed"
        PROVE  \E r \in DOMAIN runs' : /\ RunsOf(t) = {r} /\ runs'[r].status = "completed"
                                       /\ tests[t].outputs = runs'[r].rows
                                       /\ UNION runs'[r].rows = tests[t].inputs
      BY <1>2, <1>12, <2>2, <2>4
  <2> QED
      BY <2>1, <2>2, <2>3, <2>4
<1>16. \A q \in DOMAIN more : InGroup(more, q, <<p, test>>)
    BY <1>2, <1>6 DEF InGroup
<1>17. ASSUME NEW q \in DOMAIN base, InGroup(base, q, <<p, test>>) PROVE FALSE
  <2>0. PICK g : g = <<p, test>>
      OBVIOUS
  <2>1. g = <<p, test>> /\ g[1] = p /\ g[2] = test
      BY <2>0
  <2>2. q = g[2]
      BY <1>10, <1>17, <2>1 DEF Grouped, InGroup
  <2> QED
      BY <1>11, <2>1, <2>2
<1>18. DOMAIN base \cap DOMAIN more = {}
    BY <1>2, <1>6, <1>11
<1>19. PICK table : table = With(base, more)
    OBVIOUS
<1>20. \A q \in DOMAIN base : Chained(table, q) /\ Grouped(table, q)
  <2>1. PICK g : g = <<p, test>>
      OBVIOUS
  <2>2. /\ \A q \in DOMAIN more : InGroup(more, q, g)
        /\ \A q \in DOMAIN base : ~ InGroup(base, q, g)
      BY <1>16, <1>17, <2>1
  <2> QED
      BY <1>10, <1>18, <1>19, <2>2, ChainedKept, FreshGroup
<1>21. /\ trace.execution = trace.step /\ trace.step # "running"
       /\ trace.step = "completed" =>
             \E r \in DOMAIN runs' : /\ RunsOf(test)' = {r} /\ runs'[r].status = "completed"
                                    /\ trace.outputs = runs'[r].rows
                                    /\ UNION runs'[r].rows = trace.inputs
       /\ trace.step # "completed" => RunsOf(test)' = {} /\ trace.outputs = {}
       /\ \A q \in DOMAIN more : Chained(table, q) /\ Grouped(table, q)
       /\ \A q \in DOMAIN more : runs'[q].context.step = test
  <2>1. \A q \in DOMAIN base : runs'[q].context.step # test
      BY <1>2, <1>12, <1>13 DEF RunsOf
  <2>2. CASE j.outcome = "failed" /\ DOMAIN j.runs = {} /\ j.outputs = {}
    <3>1. DOMAIN runs' = DOMAIN base
        BY <1>2, <1>12, <2>2
    <3>2. RunsOf(test)' = {}
        BY <2>1, <3>1 DEF RunsOf
    <3> QED
        BY <1>2, <1>8, <2>2, <3>2
  <2>3. CASE j.outcome # "failed"
    <3>1. PICK run : run = j.runs[test]
        OBVIOUS
    <3>2. /\ j.outcome = "completed" /\ DOMAIN j.runs = {test}
          /\ run.type = Types[4] /\ run.status = "completed"
          /\ run.context.hash = run.context.configuration
          /\ run.context.environment = "experiment"
          /\ run.context.group = <<p, test>> /\ run.context.step = test
          /\ run.rows = j.outputs /\ UNION run.rows = tests[test].inputs
        BY <1>6, <2>3, <3>1
    <3>3. test \in DOMAIN runs' /\ runs'[test] = run /\ DOMAIN runs' = DOMAIN base \cup {test}
        BY <1>2, <1>3, <3>1, <3>2 DEF With
    <3>4. RunsOf(test)' = {test}
      <4>1. \A q : q \in RunsOf(test)' <=> q \in {test}
          BY <2>1, <3>2, <3>3 DEF RunsOf
      <4> QED
          BY <4>1, SetExtensionality
    <3>5. Chained(table, test) /\ Grouped(table, test)
      <4>1. DOMAIN more = {test} /\ more[test] = run
          BY <1>2, <3>1, <3>2
      <4>2. \A q \in DOMAIN base : ~ InGroup(base, q, <<p, test>>)
          BY <1>17
      <4>3. LET t == With(base, more) IN Chained(t, test) /\ Grouped(t, test)
          BY <1>11, <3>2, <4>1, <4>2, TestJoins
      <4> QED
          BY <1>19, <4>3
    <3>6. DOMAIN more = {test}
        BY <1>2, <3>2
    <3> QED
        BY <1>8, <3>2, <3>3, <3>4, <3>5, <3>6
  <2> QED
      BY <1>6, <2>2, <2>3
<1>22. \A r \in DOMAIN runs' : Chained(runs', r) /\ Grouped(runs', r)
    BY <1>3, <1>12, <1>19, <1>20, <1>21
<1>23. \A r \in DOMAIN runs' : runs'[r].context.step \in {None} \cup DOMAIN tests'
    BY <1>2, <1>6, <1>7, <1>10, <1>12, <1>21 DEF TraceWhole
<1>24. TraceWhole'
  <2>1. ASSUME NEW t \in DOMAIN tests'
        PROVE /\ tests'[t].execution = tests'[t].step
              /\ tests'[t].step = "running" =>
                    t \in lost' \/ \E x \in Testers : job'[x].phase # "idle" /\ job'[x].test = t
              /\ tests'[t].step = "completed" =>
                    \E r \in DOMAIN runs' : /\ RunsOf(t)' = {r} /\ runs'[r].status = "completed"
                                           /\ tests'[t].outputs = runs'[r].rows
                                           /\ UNION runs'[r].rows = tests'[t].inputs
              /\ tests'[t].step # "completed" => RunsOf(t)' = {} /\ tests'[t].outputs = {}
    <3>1. CASE t = test
        BY <1>7, <1>21, <3>1
    <3>2. CASE t # test
        BY <1>7, <1>15, <3>2
    <3> QED
        BY <3>1, <3>2
  <2> QED
      BY <1>23, <2>1 DEF TraceWhole
<1> QED
    BY <1>1, <1>4, <1>9, <1>22, <1>24, Assembled

-----------------------------------------------------------------------------
\* The other steps.

LEMMA Crashes ==
    ASSUME IInv, NEW p \in Processes, Crash(p)
    PROVE  IInv'
<1>1. /\ job[p].phase # "idle" /\ Set(p, Idle)
      /\ lost' = IF p \in Testers THEN lost \cup {job[p].test} ELSE lost
      /\ runs' = runs /\ tests' = tests /\ clock' = clock
    BY DEF Crash
<1>2. /\ job'[p].phase = "idle" /\ DOMAIN job' = Processes
      /\ \A q \in Processes : q # p => job'[q] = job[q]
      /\ LabOK(p)' /\ ExperimentOK(p)' /\ TestOK(p)' /\ Drawn(p)' = {}
    BY <1>1, SetIdle
<1>3. p \in Testers => job[p].test \in DOMAIN tests /\ job[p].test \in Drawn(p)
    BY <1>1 DEF IInv, TestOK, Drawn
<1>4. lost \subseteq lost' /\ lost' \subseteq lost \cup (Drawn(p) \cap DOMAIN tests)
    BY <1>1, <1>3
<1>5. Moved(p)
    BY <1>1, <1>2, <1>4 DEF Moved
<1>6. p \in Testers => job[p].test \in lost'
    BY <1>1
<1> QED
    BY <1>1, <1>2, <1>4, <1>5, <1>6, Working

LEMMA Same ==
    ASSUME IInv, runs' = runs, tests' = tests, clock' = clock, job' = job, lost' = lost
    PROVE  IInv'
<1>1. Numbers'
    BY DEF IInv, Numbers, Drawn
<1>2. ASSUME NEW p \in Labs PROVE LabOK(p)'
    BY DEF IInv, LabOK
<1>3. ASSUME NEW p \in Experimenters PROVE ExperimentOK(p)'
  <2>1. ExperimentOK(p)
      BY DEF IInv
  <2> QED
      BY <2>1 DEF ExperimentOK, Completed
<1>4. ASSUME NEW p \in Testers PROVE TestOK(p)'
    BY DEF IInv, TestOK
<1>5. TraceWhole'
  <2>1. \A t : RunsOf(t)' = RunsOf(t)
      BY DEF RunsOf
  <2>2. TraceWhole
      BY DEF IInv
  <2>3. ASSUME NEW t \in DOMAIN tests
        PROVE /\ tests'[t].execution = tests'[t].step
              /\ tests'[t].step = "running" =>
                    t \in lost' \/ \E x \in Testers : job'[x].phase # "idle" /\ job'[x].test = t
              /\ tests'[t].step = "completed" =>
                    \E r \in DOMAIN runs' : /\ RunsOf(t)' = {r} /\ runs'[r].status = "completed"
                                           /\ tests'[t].outputs = runs'[r].rows
                                           /\ UNION runs'[r].rows = tests'[t].inputs
              /\ tests'[t].step # "completed" => RunsOf(t)' = {} /\ tests'[t].outputs = {}
      BY <2>1, <2>2 DEF TraceWhole
  <2>4. \A r \in DOMAIN runs' : runs'[r].context.step \in {None} \cup DOMAIN tests'
      BY <2>2 DEF TraceWhole
  <2> QED
      BY <2>3, <2>4 DEF TraceWhole
<1>6. \A r \in DOMAIN runs' : Chained(runs', r) /\ Grouped(runs', r)
    BY DEF IInv
<1> QED
    BY <1>1, <1>2, <1>3, <1>4, <1>5, <1>6 DEF IInv

LEMMA Starts == Init => IInv
<1> SUFFICES ASSUME Init PROVE IInv
    OBVIOUS
<1>1. /\ runs = Stored /\ tests = <<>> /\ clock = Cardinality(DOMAIN Stored)
      /\ job = [p \in Processes |-> Idle] /\ lost = {}
    BY DEF Init
<1>2. /\ clock \in Nat /\ DOMAIN runs = 1 .. clock
      /\ \A r \in DOMAIN runs :
            Chained(runs, r) /\ Grouped(runs, r) /\ runs[r].context.step = None
    BY <1>1, StoredAssumption, FS_CardinalityType
<1>3. \A p \in Processes : job[p].phase = "idle"
    BY <1>1 DEF Idle
<1>4. DOMAIN tests = {}
    BY <1>1
<1>5. Numbers
    BY <1>1, <1>2, <1>3, <1>4 DEF Numbers, Drawn
<1>6. /\ \A p \in Labs : LabOK(p)
      /\ \A p \in Experimenters : ExperimentOK(p)
      /\ \A p \in Testers : TestOK(p)
    BY <1>3 DEF LabOK, ExperimentOK, TestOK, Processes
<1>7. TraceWhole
    BY <1>2, <1>4 DEF TraceWhole
<1> QED
    BY <1>2, <1>5, <1>6, <1>7 DEF IInv

LEMMA Steps == IInv /\ [Next]_vars => IInv'
<1> SUFFICES ASSUME IInv, [Next]_vars PROVE IInv'
    OBVIOUS
<1>1. ASSUME NEW p \in Labs, LabBegin(p) \/ LabStep(p) \/ Crash(p) PROVE IInv'
  <2>1. p \in Processes
      BY DEF Processes
  <2> QED
      BY <1>1, <2>1, LabBegins, LabPerceives, LabInterrupts, LabNormalizes, LabDiscovers, LabResolves,
         LabStops, LabCommits, Crashes DEF LabStep
<1>2. ASSUME NEW p \in Experimenters, ExperimentDiscover(p) \/ ExperimentEnd(p) \/ Crash(p)
      PROVE  IInv'
  <2>1. p \in Processes
      BY DEF Processes
  <2> QED
      BY <1>2, <2>1, ExperimentDiscovers, ExperimentEnds, Crashes
<1>3. ASSUME NEW p \in Testers, TestBegin(p) \/ TestRun(p) \/ TestEnd(p) \/ Crash(p)
      PROVE  IInv'
  <2>1. p \in Processes
      BY DEF Processes
  <2> QED
      BY <1>3, <2>1, TestBegins, TestRuns, TestEnds, Crashes
<1>4. CASE Save
    BY <1>4, Same DEF Save
<1>5. CASE UNCHANGED vars
    BY <1>5, Same DEF vars
<1> QED
    BY <1>1, <1>2, <1>3, <1>4, <1>5 DEF Next

\* The inductive invariant holds in every behaviour.
THEOREM Invariance == Spec => []IInv
BY Starts, Steps, PTL DEF Spec

-----------------------------------------------------------------------------
\* The properties.

\* A completed run of an experiment was made from the rows of one completed run
\* of the stage before, and the runs of the Lab from the same execution and the
\* same manifest, whatever was saved, run or interrupted meanwhile.
THEOREM WholeChains == Spec => []ChainWhole
<1>1. IInv => ChainWhole
    BY DEF IInv, ChainWhole
<1> QED
    BY <1>1, Invariance, PTL

\* The trace of a step test tells the whole of it, and one that has failed or
\* was interrupted has stored nothing.
THEOREM WholeTraces == Spec => []TraceWhole
<1>1. IInv => TraceWhole
    BY DEF IInv
<1> QED
    BY <1>1, Invariance, PTL

\* A set of run numbers has a first one.
LEMMA FirstIs ==
    ASSUME NEW S, S \subseteq Nat, S # {}
    PROVE  Min(S) \in S /\ \A y \in S : Min(S) <= y
<1> DEFINE R == StrictSubsetOrdering(Nat)
           D == FiniteSubsetsOf(Nat)
           T == {0 .. (x - 1) : x \in S}
<1>1. IsWellFoundedOn(R, D)
    BY FS_StrictSubsetOrderingWellFounded
<1>2. T \subseteq D /\ T # {}
  <2>1. \A x \in S : x \in Nat /\ 0 .. (x - 1) \subseteq Nat /\ IsFiniteSet(0 .. (x - 1))
      BY FS_Interval
  <2>2. \A t \in T : t \in D
      BY <2>1 DEF FiniteSubsetsOf
  <2>3. PICK x : x \in S
      OBVIOUS
  <2>4. 0 .. (x - 1) \in T
      BY <2>3
  <2> QED
      BY <2>2, <2>4
<1>3. PICK t \in T : \A u \in T : ~ (<<u, t>> \in R)
    BY <1>1, <1>2, WFMin
<1>4. PICK x \in S : t = 0 .. (x - 1)
    OBVIOUS
<1>5. ASSUME NEW y \in S PROVE x <= y
  <2>1. SUFFICES ASSUME y < x PROVE FALSE
      OBVIOUS
  <2>2. PICK u : u = 0 .. (y - 1)
      OBVIOUS
  <2>3. u \in T
      BY <2>2
  <2>4. u \subseteq t /\ u # t /\ u \subseteq Nat /\ t \subseteq Nat
    <3>1. x \in Nat /\ y \in Nat
        OBVIOUS
    <3>2. y \in t /\ y \notin u
        BY <1>4, <2>1, <2>2, <3>1
    <3> QED
        BY <1>4, <2>1, <2>2, <3>1, <3>2
  <2>5. <<u, t>> \in R
      BY <2>4 DEF StrictSubsetOrdering
  <2> QED
      BY <1>3, <2>3, <2>5
<1> QED
    BY <1>5 DEF Min

\* The page of an execution shows one chain, although experiments join its
\* group: a resolution it shows was made from the first discovery, because an
\* experiment comes too late to be one.
THEOREM OneChain == Spec => []PageTellsOneChain
<1>1. ASSUME IInv PROVE PageTellsOneChain
  <2>1. SUFFICES ASSUME NEW g \in Groups, NEW v \in Versions, NEW i \in 2 .. 4,
                        Shown(g, v, Types[i - 1]) # None, Shown(g, v, Types[i]) # None,
                        runs[Shown(g, v, Types[i])].status = "completed"
                 PROVE  runs[Shown(g, v, Types[i])].context.configuration.source
                          = Shown(g, v, Types[i - 1])
      BY DEF PageTellsOneChain
  <2>2. PICK earlier, later, run, source :
           /\ earlier = Shown(g, v, Types[i - 1]) /\ later = Shown(g, v, Types[i])
           /\ run = runs[later] /\ source = run.context.configuration.source
      OBVIOUS
  <2>3. DOMAIN runs \subseteq Nat
      BY <1>1 DEF IInv, Numbers
  <2>4. ASSUME NEW type, Shown(g, v, type) # None
        PROVE  LET r == Shown(g, v, type) IN
               /\ r \in DOMAIN runs /\ InGroup(runs, r, g)
               /\ runs[r].type = type /\ runs[r].version = v
               /\ \A q \in DOMAIN runs :
                     InGroup(runs, q, g) /\ runs[q].type = type /\ runs[q].version = v => r <= q
    <3>1. PICK found : found = {r \in OfGroup(g) : runs[r].type = type /\ runs[r].version = v}
        OBVIOUS
    <3>2. found # {} /\ Shown(g, v, type) = Min(found)
        BY <2>4, <3>1 DEF Shown
    <3>3. found \subseteq Nat
        BY <2>3, <3>1 DEF OfGroup
    <3>4. Min(found) \in found /\ \A q \in found : Min(found) <= q
        BY <3>2, <3>3, FirstIs
    <3>5. \A q : q \in found <=> /\ q \in DOMAIN runs /\ InGroup(runs, q, g)
                                 /\ runs[q].type = type /\ runs[q].version = v
        BY <3>1 DEF OfGroup, InGroup
    <3> QED
        BY <3>2, <3>4, <3>5
  <2>5. /\ earlier \in DOMAIN runs /\ InGroup(runs, earlier, g)
        /\ runs[earlier].type = Types[i - 1] /\ runs[earlier].version = v
        /\ \A q \in DOMAIN runs :
              InGroup(runs, q, g) /\ runs[q].type = Types[i - 1] /\ runs[q].version = v
              => earlier <= q
      BY <2>1, <2>2, <2>4
  <2>6. /\ later \in DOMAIN runs /\ InGroup(runs, later, g)
        /\ run.type = Types[i] /\ run.version = v /\ run.status = "completed"
      BY <2>1, <2>2, <2>4
  <2>7. /\ Chained(runs, later) /\ Grouped(runs, later) /\ Grouped(runs, earlier)
      BY <1>1, <2>5, <2>6 DEF IInv
  <2>8. source <= earlier /\ InGroup(runs, source, g)
      BY <2>2, <2>5, <2>6, <2>7 DEF Grouped, InGroup
  <2>9. run.context.step = None
    <3>1. SUFFICES ASSUME run.context.step # None PROVE FALSE
        OBVIOUS
    <3>2. g[1] \in Testers /\ later = g[2] /\ earlier = g[2]
        BY <2>2, <2>5, <2>6, <2>7, <3>1 DEF Grouped, InGroup
    <3>3. Types[i] = Types[i - 1]
        BY <2>2, <2>5, <2>6, <3>2
    <3>4. i \in 1 .. 4 /\ i - 1 \in 1 .. 4 /\ i # i - 1
        OBVIOUS
    <3> QED
        BY <3>3, <3>4, TypesDistinct
  <2>10. /\ source \in DOMAIN runs /\ runs[source].type = Types[i - 1]
         /\ runs[source].version = v
      BY <2>2, <2>6, <2>7, <2>9 DEF Chained, InGroup
  <2>11. earlier <= source
      BY <2>5, <2>8, <2>10
  <2>12. source \in Nat /\ earlier \in Nat
      BY <2>3, <2>5, <2>10
  <2>13. source = earlier
      BY <2>8, <2>11, <2>12
  <2> QED
      BY <2>2, <2>13
<1> QED
    BY <1>1, Invariance, PTL

\* Entity resolution parts the candidates of its scope: every candidate is in
\* one entity and no other, with those of its type that declare its value; one
\* that declares none is alone.
THEOREM EntitiesPart ==
    ASSUME NEW scope
    PROVE  /\ UNION Entities(scope) = scope
           /\ \A e, f \in Entities(scope) : e # f => e \cap f = {}
           /\ \A c, d \in scope :
                 (\E e \in Entities(scope) : c \in e /\ d \in e)
                   <=> c = d \/ (c.type = d.type /\ c.value = d.value /\ c.value # None)
<1>1. \A e \in Entities(scope), c \in scope :
          c \in e => e = {d \in scope : EntityKey(d) = EntityKey(c)}
  <2>1. SUFFICES ASSUME NEW e \in Entities(scope), NEW c \in scope, c \in e
                 PROVE  e = {d \in scope : EntityKey(d) = EntityKey(c)}
      OBVIOUS
  <2>2. PICK b \in scope : e = {d \in scope : EntityKey(d) = EntityKey(b)}
      BY DEF Entities
  <2>3. EntityKey(c) = EntityKey(b)
      BY <2>1, <2>2
  <2> QED
      BY <2>2, <2>3
<1>2. UNION Entities(scope) = scope
    BY EntitiesUnion
<1>3. ASSUME NEW e \in Entities(scope), NEW f \in Entities(scope), e # f, e \cap f # {}
      PROVE  FALSE
  <2>1. PICK c : c \in e /\ c \in f
      BY <1>3
  <2>2. c \in scope
      BY <1>2, <2>1
  <2> QED
      BY <1>1, <1>3, <2>1, <2>2
<1>4. ASSUME NEW c \in scope, NEW d \in scope
      PROVE  EntityKey(c) = EntityKey(d)
               <=> c = d \/ (c.type = d.type /\ c.value = d.value /\ c.value # None)
  <2>2. EntityKey(c) = IF c.value = None THEN <<c>> ELSE <<c.type, c.value>>
      BY DEF EntityKey
  <2>3. EntityKey(d) = IF d.value = None THEN <<d>> ELSE <<d.type, d.value>>
      BY DEF EntityKey
  <2>4. CASE c.value = None /\ d.value = None
      BY <2>2, <2>3, <2>4
  <2>5. CASE c.value # None /\ d.value # None
      BY <2>2, <2>3, <2>5
  <2>6. CASE c.value = None /\ d.value # None
      BY <2>2, <2>3, <2>6
  <2>7. CASE c.value # None /\ d.value = None
      BY <2>2, <2>3, <2>7
  <2> QED
      BY <2>4, <2>5, <2>6, <2>7
<1>5. ASSUME NEW c \in scope, NEW d \in scope
      PROVE  (\E e \in Entities(scope) : c \in e /\ d \in e) <=> EntityKey(c) = EntityKey(d)
  <2>1. {x \in scope : EntityKey(x) = EntityKey(c)} \in Entities(scope)
      BY DEF Entities
  <2> QED
      BY <1>1, <2>1
<1> QED
    BY <1>2, <1>3, <1>4, <1>5

-----------------------------------------------------------------------------
\* The figures of a run and its rows.

\* A function that is one to one and reaches all of a set counts it.
LEMMA SameSize ==
    ASSUME NEW S, NEW T, NEW f \in [S -> T], IsFiniteSet(S),
           \A a, b \in S : f[a] = f[b] => a = b,
           \A t \in T : \E a \in S : f[a] = t
    PROVE  IsFiniteSet(T) /\ Cardinality(T) = Cardinality(S)
<1>1. f \in Bijection(S, T)
    BY DEF Bijection, Injection, IsInjective, Surjection
<1>2. ExistsBijection(S, T)
    BY <1>1 DEF ExistsBijection
<1> QED
    BY <1>2, FS_Bijection

\* The elements of a finite set can be numbered.
LEMMA Numbering ==
    ASSUME NEW S, IsFiniteSet(S)
    PROVE  /\ Cardinality(S) \in Nat
           /\ \E f \in [S -> 1 .. Cardinality(S)] :
                /\ \A a, b \in S : f[a] = f[b] => a = b
                /\ \A i \in 1 .. Cardinality(S) : \E a \in S : f[a] = i
<1> DEFINE n == Cardinality(S)
<1>1. n \in Nat
    BY FS_CardinalityType
<1>2. IsFiniteSet(1 .. n) /\ Cardinality(1 .. n) = n
    BY <1>1, FS_Interval
<1>3. ExistsBijection(S, 1 .. n)
    BY <1>2, FS_SameCardinalityBij
<1> QED
    BY <1>1, <1>3 DEF ExistsBijection, Bijection, Injection, IsInjective, Surjection

\* The occurrences by type and value add up to the rows of a run: numbering
\* those of each value apart counts each row once.
LEMMA TotalIs ==
    ASSUME NEW run, IsFiniteSet(run.rows)
    PROVE  Total(Occurrences(run)) = Cardinality(run.rows)
<1> DEFINE S == run.rows
           K == {<<c.type, Value(c)>> : c \in S}
           Class(k) == {c \in S : <<c.type, Value(c)>> = k}
           n(k) == Cardinality(Class(k))
           Good(k, f) == /\ f \in [Class(k) -> 1 .. n(k)]
                         /\ \A a, b \in Class(k) : f[a] = f[b] => a = b
                         /\ \A i \in 1 .. n(k) : \E a \in Class(k) : f[a] = i
           num == [k \in K |-> CHOOSE f : Good(k, f)]
           U == UNION {{k} \X (1 .. n(k)) : k \in K}
           g == [c \in S |-> <<<<c.type, Value(c)>>, num[<<c.type, Value(c)>>][c]>>]
<1>1. Total(Occurrences(run)) = Cardinality(U)
  <2>1. DOMAIN Occurrences(run) = K /\ \A k \in K : Occurrences(run)[k] = n(k)
      BY DEF Occurrences
  <2>2. \A k \in K : {k} \X (1 .. Occurrences(run)[k]) = {k} \X (1 .. n(k))
      BY <2>1
  <2>3. {{k} \X (1 .. Occurrences(run)[k]) : k \in DOMAIN Occurrences(run)}
           = {{k} \X (1 .. n(k)) : k \in K}
    <3> HIDE DEF K, n
    <3> QED
      BY <2>1
  <2> QED
      BY <2>3 DEF Total
<1>2. \A k \in K : Good(k, num[k])
  <2>1. SUFFICES ASSUME NEW k \in K PROVE Good(k, num[k])
      OBVIOUS
  <2>2. IsFiniteSet(Class(k))
      BY FS_Subset
  <2>3. \E f : Good(k, f)
    <3> HIDE DEF Class
    <3>1. \E f \in [Class(k) -> 1 .. Cardinality(Class(k))] :
             /\ \A a, b \in Class(k) : f[a] = f[b] => a = b
             /\ \A i \in 1 .. Cardinality(Class(k)) : \E a \in Class(k) : f[a] = i
        BY <2>2, Numbering
    <3> QED
        BY <3>1
  <2> HIDE DEF Good
  <2> QED
      BY <2>3
<1>3. \A c \in S : /\ <<c.type, Value(c)>> \in K /\ c \in Class(<<c.type, Value(c)>>)
                   /\ g[c] = <<<<c.type, Value(c)>>, num[<<c.type, Value(c)>>][c]>>
    OBVIOUS
<1>4. g \in [S -> U]
  <2>1. SUFFICES ASSUME NEW c \in S PROVE g[c] \in U
      OBVIOUS
  <2>2. PICK k \in K : k = <<c.type, Value(c)>> /\ c \in Class(k) /\ g[c] = <<k, num[k][c]>>
      BY <1>3
  <2>3. num[k] \in [Class(k) -> 1 .. n(k)]
      BY <1>2
  <2> HIDE DEF K, Class, n, g, num, Good
  <2>4. g[c] \in {k} \X (1 .. n(k))
      BY <2>2, <2>3
  <2> QED
      BY <2>4
<1>5. ASSUME NEW c \in S, NEW d \in S, g[c] = g[d] PROVE c = d
  <2>1. PICK k \in K : k = <<c.type, Value(c)>> /\ c \in Class(k) /\ g[c] = <<k, num[k][c]>>
      BY <1>3
  <2>2. PICK l \in K : l = <<d.type, Value(d)>> /\ d \in Class(l) /\ g[d] = <<l, num[l][d]>>
      BY <1>3
  <2>3. \A a, b \in Class(k) : num[k][a] = num[k][b] => a = b
      BY <1>2
  <2> HIDE DEF K, Class, n, g, num, Good
  <2>4. <<k, num[k][c]>> = <<l, num[l][d]>>
      BY <1>5, <2>1, <2>2
  <2>5. k = l /\ num[k][c] = num[k][d]
      BY <2>4
  <2> QED
      BY <2>1, <2>2, <2>3, <2>5
<1>6. ASSUME NEW m \in U PROVE \E c \in S : g[c] = m
  <2>1. PICK k \in K : m \in {k} \X (1 .. n(k))
    <3> HIDE DEF K, n
    <3> QED
      OBVIOUS
  <2>2. PICK i \in 1 .. n(k) : m = <<k, i>>
    <3> HIDE DEF n, K
    <3> QED
      BY <2>1
  <2>3. \A j \in 1 .. n(k) : \E a \in Class(k) : num[k][a] = j
      BY <1>2
  <2>4. \A c \in Class(k) : c \in S /\ <<c.type, Value(c)>> = k
      OBVIOUS
  <2> HIDE DEF K, Class, n, g, num, Good
  <2>5. PICK c \in Class(k) : num[k][c] = i
      BY <2>3
  <2> QED
      BY <1>3, <2>2, <2>4, <2>5
<1> HIDE DEF S, U, g
<1>7. IsFiniteSet(S)
    BY DEF S
<1>8. Cardinality(U) = Cardinality(S)
    BY <1>4, <1>5, <1>6, <1>7, SameSize
<1> QED
    BY <1>1, <1>8 DEF S

\* A value that a run shows occurs.
LEMMA OccursIs ==
    ASSUME NEW run, IsFiniteSet(run.rows), NEW k \in DOMAIN Occurrences(run)
    PROVE  Occurrences(run)[k] \in Nat /\ Occurrences(run)[k] > 0
<1> DEFINE class == {c \in run.rows : <<c.type, Value(c)>> = k}
<1>1. k \in {<<c.type, Value(c)>> : c \in run.rows} /\ Occurrences(run)[k] = Cardinality(class)
    BY DEF Occurrences
<1>2. class # {}
    BY <1>1
<1>3. IsFiniteSet(class)
    BY FS_Subset
<1> HIDE DEF class
<1>4. Cardinality(class) \in Nat /\ Cardinality(class) # 0
    BY <1>2, <1>3, FS_CardinalityType, FS_EmptySet
<1> QED
    BY <1>1, <1>4

OneChange(before, after, k) ==
    \E x \in Changes : \A c \in Changes : k \in Changed(before, after, c) <=> c = x

\* Every value has one change, and a change that compares two counts is of a
\* value that both runs show.
LEMMA ChangedIs ==
    ASSUME NEW before, NEW after,
           \A k \in DOMAIN before : before[k] \in Nat /\ before[k] > 0,
           \A k \in DOMAIN after : after[k] \in Nat /\ after[k] > 0,
           NEW k \in DOMAIN before \cup DOMAIN after
    PROVE  /\ OneChange(before, after, k)
           /\ \A c \in {"increased", "decreased", "unchanged"} :
                 k \in Changed(before, after, c) => k \in DOMAIN before \cap DOMAIN after
<1>1. PICK m, n : m = Count(before, k) /\ n = Count(after, k)
    OBVIOUS
<1>2. /\ m \in Nat /\ n \in Nat
      /\ m > 0 <=> k \in DOMAIN before
      /\ n > 0 <=> k \in DOMAIN after
    BY <1>1 DEF Count
<1>3. /\ k \in Changed(before, after, "added") <=> m = 0
      /\ k \in Changed(before, after, "removed") <=> m > 0 /\ n = 0
      /\ k \in Changed(before, after, "increased") <=> m > 0 /\ n > m
      /\ k \in Changed(before, after, "decreased") <=> n > 0 /\ n < m
      /\ k \in Changed(before, after, "unchanged") <=> n = m
    BY <1>1 DEF Changed
<1>4. m > 0 \/ n > 0
    BY <1>2
<1>5. CASE m = 0
    BY <1>2, <1>3, <1>4, <1>5 DEF Changes, OneChange
<1>6. CASE m > 0 /\ n = 0
    BY <1>2, <1>3, <1>6 DEF Changes, OneChange
<1>7. CASE m > 0 /\ n > m
    BY <1>2, <1>3, <1>7 DEF Changes, OneChange
<1>8. CASE n > 0 /\ n < m
    BY <1>2, <1>3, <1>8 DEF Changes, OneChange
<1>9. CASE n = m
    BY <1>2, <1>3, <1>4, <1>9 DEF Changes, OneChange
<1> QED
    BY <1>2, <1>4, <1>5, <1>6, <1>7, <1>8, <1>9

LEMMA ComparedIs ==
    ASSUME NEW a, NEW b, IsFiniteSet(a.rows), IsFiniteSet(b.rows)
    PROVE  Compared(a, b)
<1>1. PICK before, after : before = Occurrences(a) /\ after = Occurrences(b)
    OBVIOUS
<1>2. /\ \A k \in DOMAIN before : before[k] \in Nat /\ before[k] > 0
      /\ \A k \in DOMAIN after : after[k] \in Nat /\ after[k] > 0
    BY <1>1, OccursIs
<1>3. ASSUME NEW k \in DOMAIN before \cup DOMAIN after
      PROVE  Cardinality({c \in Changes : k \in Changed(before, after, c)}) = 1
  <2>1. PICK x \in Changes : \A c \in Changes : k \in Changed(before, after, c) <=> c = x
    <3>1. OneChange(before, after, k)
        BY <1>2, ChangedIs
    <3> QED
        BY <3>1 DEF OneChange
  <2>2. {c \in Changes : k \in Changed(before, after, c)} = {x}
      BY <2>1
  <2> QED
      BY <2>2, FS_Singleton
<1>4. \A c : Changed(before, after, c) \subseteq DOMAIN before \cup DOMAIN after
    BY DEF Changed
<1>5. \A c \in {"increased", "decreased", "unchanged"} :
         Changed(before, after, c) \subseteq DOMAIN before \cap DOMAIN after
    BY <1>2, <1>4, ChangedIs
<1>6. PICK changed : changed = [c \in Changes |-> Changed(before, after, c)]
    OBVIOUS
<1>7. \A c \in Changes : changed[c] = Changed(before, after, c)
    BY <1>6
<1>8. {"increased", "decreased", "unchanged"} \subseteq Changes
    BY DEF Changes, OneChange
<1>9. \A k \in DOMAIN before \cup DOMAIN after :
         Cardinality({c \in Changes : k \in changed[c]}) = 1
  <2>1. \A k : {c \in Changes : k \in changed[c]}
                 = {c \in Changes : k \in Changed(before, after, c)}
      BY <1>7
  <2> QED
      BY <1>3, <2>1
<1>10. \A c \in {"increased", "decreased", "unchanged"} :
          changed[c] \subseteq DOMAIN before \cap DOMAIN after
    BY <1>5, <1>7, <1>8
<1> QED
    BY <1>1, <1>6, <1>9, <1>10 DEF Compared

\* What holds of every run that the services make.
Fits(run) == Sound(run) /\ (run.type = Types[3] => Detected(run))

LEMMA FailedFits ==
    ASSUME NEW run, run.rows = {}, run.status = "failed"
    PROVE  Fits(run)
BY FS_EmptySet DEF Fits, Sound, Detected

LEMMA PerceivedFits ==
    ASSUME NEW version, NEW blocks, NEW context, IsFiniteSet(blocks),
           blocks \subseteq DOMAIN Detections
    PROVE  Fits(Perceived(version, blocks, context))
<1>1. PICK run : run = Perceived(version, blocks, context)
    OBVIOUS
<1>2. run.type = Types[1] /\ run.rows = blocks
    BY <1>1, PerceivedIs
<1> QED
    BY <1>1, <1>2, TypesDistinct DEF Fits, Sound, Told

\* Every block with text is a unit, and every other is skipped.
LEMMA NormalizedFits ==
    ASSUME NEW perception, NEW context, IsFiniteSet(perception.rows),
           perception.rows \subseteq DOMAIN Detections
    PROVE  /\ Fits(Normalized(perception, context))
           /\ Fits(Failed(Normalized(perception, context)))
<1> DEFINE rows == perception.rows
           units == rows \ Blank
           metrics == [blocks |-> Cardinality(rows), units |-> Cardinality(units),
                       skipped |-> Cardinality(rows \cap Blank)]
<1>1. PICK good : good = Run(Types[2], perception.version, context, "completed", units, metrics)
    OBVIOUS
<1>2. PICK run : run = Normalized(perception, context)
    OBVIOUS
<1>3. run = IF units = {} THEN Failed(good) ELSE good
    BY <1>1, <1>2 DEF Normalized
<1>4. /\ good.type = Types[2] /\ good.rows = units /\ good.metrics = metrics
      /\ Failed(good).rows = {} /\ Failed(good).status = "failed"
    BY <1>1, RunIs
<1>5. /\ IsFiniteSet(units) /\ units \subseteq DOMAIN Detections
      /\ Cardinality(units) + Cardinality(rows \cap Blank) = Cardinality(rows)
      /\ Cardinality(units) \in Nat /\ Cardinality(rows) \in Nat
  <2>1. IsFiniteSet(units) /\ Cardinality(units) = Cardinality(rows) - Cardinality(rows \cap Blank)
      BY FS_Difference
  <2>2. IsFiniteSet(rows \cap Blank)
      BY FS_Intersection
  <2>3. /\ Cardinality(rows) \in Nat /\ Cardinality(rows \cap Blank) \in Nat
        /\ Cardinality(units) \in Nat
      BY <2>1, <2>2, FS_CardinalityType
  <2> QED
      BY <2>1, <2>3
<1>6. Fits(good)
  <2>1. /\ good.metrics.units = Cardinality(good.rows)
        /\ good.metrics.units + good.metrics.skipped = good.metrics.blocks
      BY <1>4, <1>5
  <2> QED
      BY <1>4, <1>5, <2>1, TypesDistinct DEF Fits, Sound, Told
<1>7. Failed(run).rows = {} /\ Failed(run).status = "failed"
  <2>1. CASE run = good
      BY <1>4, <2>1
  <2>2. CASE run = Failed(good)
    <3>1. run = Run(Types[2], perception.version, context, "failed", {}, good.metrics)
        BY <1>1, <2>2 DEF Failed, Run
    <3> QED
        BY <3>1, RunIs
  <2> QED
      BY <1>3, <2>1, <2>2
<1> QED
    BY <1>2, <1>3, <1>4, <1>6, <1>7, FailedFits

\* Two reports with one key are not both the first of it, and there is a first.
LEMMA FirstReport ==
    ASSUME NEW units, NEW u \in DOMAIN Detections
    PROVE  /\ \A i, j \in DOMAIN Detections[u] :
                 First(units, u, i) /\ First(units, u, j) /\ Key(u, i) = Key(u, j) => i = j
           /\ \A i \in DOMAIN Detections[u] :
                 \E j \in DOMAIN Detections[u] : First(units, u, j) /\ Key(u, j) = Key(u, i)
<1>1. PICK n \in Nat : DOMAIN Detections[u] = 1 .. n
    BY DetectionsAssumption, FS_CardinalityType
<1>2. ASSUME NEW i \in 1 .. n, NEW j \in 1 .. n,
             First(units, u, i), First(units, u, j), Key(u, i) = Key(u, j)
      PROVE  i = j
  <2>1. CASE i < j
    <3>1. i \in 1 .. (j - 1)
        BY <2>1
    <3> QED
        BY <1>2, <3>1 DEF First
  <2>2. CASE j < i
    <3>1. j \in 1 .. (i - 1)
        BY <2>2
    <3> QED
        BY <1>2, <3>1 DEF First
  <2> QED
      BY <2>1, <2>2
<1>3. ASSUME NEW i \in 1 .. n
      PROVE  \E j \in 1 .. n : First(units, u, j) /\ Key(u, j) = Key(u, i)
  <2>1. PICK J : J = {j \in 1 .. n : Key(u, j) = Key(u, i)}
      OBVIOUS
  <2>2. J \subseteq Nat /\ J # {}
      BY <2>1
  <2>3. PICK m \in J : \A j \in J : m <= j
      BY <2>2, FirstIs
  <2>4. m \in 1 .. n /\ Key(u, m) = Key(u, i)
      BY <2>1
  <2>5. ASSUME NEW j \in 1 .. (m - 1) PROVE Key(u, j) # Key(u, m)
    <3>1. SUFFICES ASSUME Key(u, j) = Key(u, m) PROVE FALSE
        OBVIOUS
    <3>2. j \in 1 .. n /\ ~ (m <= j)
        BY <2>4
    <3>3. j \in J
        BY <2>1, <2>4, <3>1, <3>2
    <3> QED
        BY <2>3, <3>2, <3>3
  <2> QED
      BY <2>4, <2>5 DEF First
<1> QED
    BY <1>1, <1>2, <1>3

\* A discovery has one candidate for the first report of each key.
LEMMA DiscoveredFits ==
    ASSUME NEW r, NEW normalization, NEW context, IsFiniteSet(normalization.rows),
           normalization.rows \subseteq DOMAIN Detections
    PROVE  Fits(Discovered(r, normalization, context))
<1> DEFINE v == normalization.version
           units == normalization.rows
           reports == {{u} \X DOMAIN Detections[u] : u \in units}
           found == UNION reports
           kept == {f \in found : First(units, f[1], f[2])}
           rows == {Candidate(r, f[1], f[2], v) : f \in kept}
           metrics == [units |-> Cardinality(units), candidates |-> Cardinality(kept),
                       skipped |-> Cardinality({u \in units : \A f \in kept : f[1] # u})]
<1>1. PICK run : run = Discovered(r, normalization, context)
    OBVIOUS
<1>2. run = Run(Types[3], v, context, "completed", rows, metrics)
    BY <1>1 DEF Discovered
<1>3. run.type = Types[3] /\ run.rows = rows /\ run.metrics = metrics
    BY <1>2, RunIs
<1>4. \A f \in kept : /\ f[1] \in units /\ f[1] \in DOMAIN Detections
                      /\ f[2] \in DOMAIN Detections[f[1]]
                      /\ f = <<f[1], f[2]>> /\ First(units, f[1], f[2])
    OBVIOUS
<1>5. \A u \in units : \A i \in DOMAIN Detections[u] : First(units, u, i) => <<u, i>> \in kept
  <2>1. SUFFICES ASSUME NEW u \in units, NEW i \in DOMAIN Detections[u], First(units, u, i)
                 PROVE  <<u, i>> \in kept
      OBVIOUS
  <2>2. {u} \X DOMAIN Detections[u] \in reports /\ <<u, i>> \in {u} \X DOMAIN Detections[u]
      OBVIOUS
  <2>3. <<u, i>> \in found
      BY <2>2
  <2> QED
      BY <2>1, <2>3
<1>6. IsFiniteSet(kept)
  <2>1. ASSUME NEW u \in units PROVE IsFiniteSet({u} \X DOMAIN Detections[u])
      BY DetectionsAssumption, FS_Singleton, FS_Product
  <2>2. PICK f : f = [u \in units |-> {u} \X DOMAIN Detections[u]]
      OBVIOUS
  <2>3. f \in Surjection(units, reports)
      BY <2>2 DEF Surjection
  <2>4. IsFiniteSet(reports)
      BY <2>3, FS_Surjection
  <2>5. \A t \in reports : IsFiniteSet(t)
      BY <2>1
  <2>6. IsFiniteSet(found)
      BY <2>4, <2>5, FS_UNION
  <2>7. kept \in SUBSET found
      OBVIOUS
  <2> HIDE DEF kept, found
  <2> QED
      BY <2>6, <2>7, FS_Subset
<1>7. \A u, i : LET c == Candidate(r, u, i, v)
                IN  c.unit = u /\ <<c.at, c.type, c.raw>> = Key(u, i)
    BY DEF Candidate, Key
<1>8. \A f, g \in kept :
         f[1] = g[1] /\ Key(f[1], f[2]) = Key(g[1], g[2]) => f = g
  <2> HIDE DEF kept
  <2>1. SUFFICES ASSUME NEW f \in kept, NEW g \in kept, f[1] = g[1],
                        Key(f[1], f[2]) = Key(g[1], g[2])
                 PROVE  f = g
      OBVIOUS
  <2>2. PICK u \in DOMAIN Detections : u = f[1]
      BY <1>4
  <2>3. /\ f[2] \in DOMAIN Detections[u] /\ g[2] \in DOMAIN Detections[u]
        /\ First(units, u, f[2]) /\ First(units, u, g[2]) /\ Key(u, f[2]) = Key(u, g[2])
      BY <1>4, <2>1, <2>2
  <2>4. f[2] = g[2]
      BY <2>3, FirstReport
  <2> QED
      BY <1>4, <2>1, <2>4
<1>9. \A c \in rows : \E f \in kept : /\ c = Candidate(r, f[1], f[2], v) /\ c.unit = f[1]
                                      /\ <<c.at, c.type, c.raw>> = Key(f[1], f[2])
    BY <1>7
<1>10. \A f \in kept : /\ Candidate(r, f[1], f[2], v) \in rows
                       /\ Candidate(r, f[1], f[2], v).unit = f[1]
                       /\ LET c == Candidate(r, f[1], f[2], v)
                          IN  <<c.at, c.type, c.raw>> = Key(f[1], f[2])
    BY <1>7
<1> HIDE DEF kept, rows
<1>11. IsFiniteSet(rows) /\ Cardinality(rows) = Cardinality(kept)
  <2>1. PICK h : h = [f \in kept |-> Candidate(r, f[1], f[2], v)]
      OBVIOUS
  <2>2. h \in [kept -> rows]
      BY <1>10, <2>1
  <2>3. \A f, g \in kept : h[f] = h[g] => f = g
    <3>1. SUFFICES ASSUME NEW f \in kept, NEW g \in kept, h[f] = h[g] PROVE f = g
        OBVIOUS
    <3>2. Candidate(r, f[1], f[2], v) = Candidate(r, g[1], g[2], v)
        BY <2>1, <3>1
    <3>3. f[1] = g[1] /\ Key(f[1], f[2]) = Key(g[1], g[2])
        BY <1>10, <3>2
    <3> QED
        BY <1>8, <3>3
  <2>4. \A c \in rows : \E f \in kept : h[f] = c
      BY <1>9, <2>1
  <2> QED
      BY <1>6, <2>2, <2>3, <2>4, SameSize
<1>12. Detected(run)
  <2>1. SUFFICES ASSUME NEW u \in {c.unit : c \in rows}
                 PROVE  Cardinality({c \in rows : c.unit = u})
                          = Cardinality({Key(u, i) : i \in DOMAIN Detections[u]})
      BY <1>3 DEF Detected
  <2>2. u \in units /\ u \in DOMAIN Detections
    <3>1. PICK c \in rows : u = c.unit
        OBVIOUS
    <3> QED
        BY <1>4, <1>9, <3>1
  <2>3. PICK X, Y : X = {c \in rows : c.unit = u}
                    /\ Y = {Key(u, i) : i \in DOMAIN Detections[u]}
      OBVIOUS
  <2>4. PICK h : h = [c \in X |-> <<c.at, c.type, c.raw>>]
      OBVIOUS
  <2>5. \A c \in X : \E f \in kept : /\ c = Candidate(r, f[1], f[2], v) /\ f[1] = u
                                     /\ h[c] = Key(u, f[2])
    <3>1. SUFFICES ASSUME NEW c \in X
                   PROVE  \E f \in kept : /\ c = Candidate(r, f[1], f[2], v) /\ f[1] = u
                                          /\ h[c] = Key(u, f[2])
        OBVIOUS
    <3>2. c \in rows /\ c.unit = u /\ h[c] = <<c.at, c.type, c.raw>>
        BY <2>3, <2>4
    <3>3. PICK f \in kept : /\ c = Candidate(r, f[1], f[2], v) /\ c.unit = f[1]
                            /\ <<c.at, c.type, c.raw>> = Key(f[1], f[2])
        BY <1>9, <3>2
    <3> QED
        BY <3>2, <3>3
  <2>6. h \in [X -> Y]
    <3>1. \A c \in X : h[c] \in Y
        BY <1>4, <2>3, <2>5
    <3> QED
        BY <2>4, <3>1
  <2>7. \A c, d \in X : h[c] = h[d] => c = d
    <3>1. SUFFICES ASSUME NEW c \in X, NEW d \in X, h[c] = h[d] PROVE c = d
        OBVIOUS
    <3>2. PICK f \in kept : /\ c = Candidate(r, f[1], f[2], v) /\ f[1] = u
                            /\ h[c] = Key(u, f[2])
        BY <2>5
    <3>3. PICK g \in kept : /\ d = Candidate(r, g[1], g[2], v) /\ g[1] = u
                            /\ h[d] = Key(u, g[2])
        BY <2>5
    <3>4. f[1] = g[1] /\ Key(f[1], f[2]) = Key(g[1], g[2])
        BY <3>1, <3>2, <3>3
    <3> QED
        BY <1>8, <3>2, <3>3, <3>4
  <2>8. \A y \in Y : \E c \in X : h[c] = y
    <3>1. SUFFICES ASSUME NEW i \in DOMAIN Detections[u]
                   PROVE  \E c \in X : h[c] = Key(u, i)
        BY <2>3
    <3>2. PICK j \in DOMAIN Detections[u] : First(units, u, j) /\ Key(u, j) = Key(u, i)
        BY <2>2, FirstReport
    <3>3. <<u, j>> \in kept
        BY <1>5, <2>2, <3>2
    <3>4. PICK c : c = Candidate(r, u, j, v)
        OBVIOUS
    <3>5. c \in rows /\ c.unit = u /\ <<c.at, c.type, c.raw>> = Key(u, j)
      <4>1. PICK f : f = <<u, j>>
          OBVIOUS
      <4>2. f \in kept /\ f[1] = u /\ f[2] = j
          BY <3>3, <4>1
      <4> QED
          BY <1>7, <1>10, <3>4, <4>2
    <3> QED
        BY <2>3, <2>4, <3>2, <3>5
  <2>9. IsFiniteSet(X)
      BY <1>11, <2>3, FS_Subset
  <2>10. Cardinality(Y) = Cardinality(X)
      BY <2>6, <2>7, <2>8, <2>9, SameSize
  <2> QED
      BY <2>3, <2>10
<1>13. run.metrics.skipped = run.metrics.units - Cardinality({c.unit : c \in rows})
  <2>1. PICK W : W = {c.unit : c \in rows}
      OBVIOUS
  <2>2. \A u : u \in W <=> \E f \in kept : f[1] = u
      BY <1>9, <1>10, <2>1
  <2>3. W \subseteq units
      BY <1>4, <2>2
  <2>4. {u \in units : \A f \in kept : f[1] # u} = units \ W
      BY <2>2
  <2>5. units \cap W = W
      BY <2>3
  <2>6. Cardinality(units \ W) = Cardinality(units) - Cardinality(units \cap W)
      BY FS_Difference
  <2>7. run.metrics.skipped = Cardinality(units \ W) /\ run.metrics.units = Cardinality(units)
      BY <1>3, <2>4
  <2> QED
      BY <2>1, <2>5, <2>6, <2>7
<1>14. run.metrics.candidates = Total(Occurrences(run))
  <2>1. Total(Occurrences(run)) = Cardinality(run.rows)
      BY <1>3, <1>11, TotalIs
  <2> QED
      BY <1>3, <1>11, <2>1
<1> QED
    BY <1>1, <1>3, <1>11, <1>12, <1>13, <1>14, TypesDistinct DEF Fits, Sound, Told

\* A resolution has one membership for each candidate of its scope.
LEMMA ResolvedFits ==
    ASSUME NEW scope, NEW context, IsFiniteSet(scope)
    PROVE  Fits(Resolved(scope, context))
<1> DEFINE Class(c) == {d \in scope : EntityKey(d) = EntityKey(c)}
<1>1. PICK groups : groups = Entities(scope)
    OBVIOUS
<1>2. PICK run : run = Resolved(scope, context)
    OBVIOUS
<1>3. PICK version : run = Run(Types[4], version, context, "completed", groups,
            [candidates |-> Cardinality(scope), entities |-> Cardinality(groups),
             memberships |-> Cardinality(scope), evidences |-> Cardinality(scope),
             singles |-> Cardinality({g \in groups : Cardinality(g) = 1}),
             grouped |-> Cardinality({g \in groups : Cardinality(g) > 1}),
             versions |-> Cardinality({c.version : c \in scope})])
    BY <1>1, <1>2 DEF Resolved
<1>4. /\ run.type = Types[4] /\ run.rows = groups
      /\ run.metrics = [candidates |-> Cardinality(scope), entities |-> Cardinality(groups),
             memberships |-> Cardinality(scope), evidences |-> Cardinality(scope),
             singles |-> Cardinality({g \in groups : Cardinality(g) = 1}),
             grouped |-> Cardinality({g \in groups : Cardinality(g) > 1}),
             versions |-> Cardinality({c.version : c \in scope})]
    BY <1>3, RunIs
<1>5. /\ \A c \in scope : Class(c) \in groups /\ c \in Class(c)
      /\ \A e \in groups : e \subseteq scope /\ e # {} /\ \A c \in e : e = Class(c)
  <2>1. \A c \in scope : Class(c) \in groups /\ c \in Class(c)
      BY <1>1 DEF Entities
  <2>2. ASSUME NEW e \in groups PROVE e \subseteq scope /\ e # {} /\ \A c \in e : e = Class(c)
    <3>1. PICK b \in scope : e = Class(b)
        BY <1>1 DEF Entities
    <3>2. b \in e
        BY <3>1
    <3>3. ASSUME NEW c \in e PROVE e = Class(c)
      <4>1. EntityKey(c) = EntityKey(b)
          BY <3>1
      <4> QED
          BY <3>1, <4>1
    <3> QED
        BY <3>1, <3>2, <3>3
  <2> QED
      BY <2>1, <2>2
<1>6. PICK M : M = UNION {e \X {e} : e \in groups}
    OBVIOUS
<1>7. /\ \A e \in groups : \A c \in e : <<c, e>> \in M
      /\ \A m \in M : m[2] \in groups /\ m[1] \in m[2] /\ m = <<m[1], m[2]>>
    BY <1>6
<1> HIDE DEF Class
<1>8. Cardinality(M) = Cardinality(scope)
  <2>1. PICK h : h = [c \in scope |-> <<c, Class(c)>>]
      OBVIOUS
  <2>2. h \in [scope -> M]
      BY <1>5, <1>7, <2>1
  <2>3. \A c, d \in scope : h[c] = h[d] => c = d
      BY <2>1
  <2>4. \A m \in M : \E c \in scope : h[c] = m
    <3>1. SUFFICES ASSUME NEW m \in M PROVE \E c \in scope : h[c] = m
        OBVIOUS
    <3>2. m[2] \in groups /\ m[1] \in m[2] /\ m = <<m[1], m[2]>>
        BY <1>7
    <3>3. m[1] \in scope /\ m[2] = Class(m[1])
        BY <1>5, <3>2
    <3> QED
        BY <2>1, <3>2, <3>3
  <2> QED
      BY <2>2, <2>3, <2>4, SameSize
<1>9. ASSUME NEW e \in groups
      PROVE  /\ Cardinality({m \in M : m[2] = e}) = Cardinality(e)
             /\ Cardinality(e) \in Nat /\ Cardinality(e) > 0
  <2>1. PICK N : N = {m \in M : m[2] = e}
      OBVIOUS
  <2>2. PICK h : h = [c \in e |-> <<c, e>>]
      OBVIOUS
  <2>3. h \in [e -> N]
      BY <1>7, <2>1, <2>2
  <2>4. \A c, d \in e : h[c] = h[d] => c = d
      BY <2>2
  <2>5. \A m \in N : \E c \in e : h[c] = m
      BY <1>7, <2>1, <2>2
  <2>6. IsFiniteSet(e) /\ e # {}
      BY <1>5, FS_Subset
  <2>7. Cardinality(N) = Cardinality(e)
      BY <2>3, <2>4, <2>5, <2>6, SameSize
  <2>8. Cardinality(e) \in Nat /\ Cardinality(e) # 0
      BY <2>6, FS_CardinalityType, FS_EmptySet
  <2> QED
      BY <2>1, <2>7, <2>8
<1>10. {m[1].version : m \in M} = {c.version : c \in scope}
  <2>1. \A m \in M : m[1] \in scope
      BY <1>5, <1>7
  <2>2. \A c \in scope : \E m \in M : m[1] = c
    <3>1. SUFFICES ASSUME NEW c \in scope PROVE \E m \in M : m[1] = c
        OBVIOUS
    <3>2. PICK m : m = <<c, Class(c)>>
        OBVIOUS
    <3> QED
        BY <1>5, <1>7, <3>2
  <2> QED
      BY <2>1, <2>2
<1>11. /\ {e \in groups : Cardinality({m \in M : m[2] = e}) <= 1}
            = {g \in groups : Cardinality(g) = 1}
       /\ {e \in groups : Cardinality({m \in M : m[2] = e}) > 1}
            = {g \in groups : Cardinality(g) > 1}
    BY <1>9
<1>12. run.metrics = Counts(run)
  <2>1. Counts(run) =
           [candidates |-> run.metrics.candidates, entities |-> Cardinality(groups),
            memberships |-> Cardinality(M), evidences |-> Cardinality(M),
            singles |-> Cardinality({e \in groups : Cardinality({m \in M : m[2] = e}) <= 1}),
            grouped |-> Cardinality({e \in groups : Cardinality({m \in M : m[2] = e}) > 1}),
            versions |-> Cardinality({m[1].version : m \in M})]
      BY <1>4, <1>6 DEF Counts
  <2>2. run.metrics.candidates = Cardinality(scope)
      BY <1>4
  <2> QED
      BY <1>4, <1>8, <1>10, <1>11, <2>1, <2>2
<1>13. /\ \A e, f \in groups : e # f => e \cap f = {}
       /\ UNION groups = scope
       /\ \A c, d \in scope :
             (\E e \in groups : {c, d} \subseteq e)
               <=> c = d \/ (c.type = d.type /\ c.value = d.value /\ c.value # None)
  <2>1. /\ UNION groups = scope
        /\ \A e, f \in groups : e # f => e \cap f = {}
        /\ \A c, d \in scope :
              (\E e \in groups : c \in e /\ d \in e)
                <=> c = d \/ (c.type = d.type /\ c.value = d.value /\ c.value # None)
      BY <1>1, EntitiesPart
  <2> QED
      BY <2>1
<1>14. Told(run)
  <2>1. run.type # Types[1] /\ run.type # Types[2] /\ run.type # Types[3]
      BY <1>4, TypesDistinct
  <2>2. run.rows = groups
      BY <1>4
  <2>3. /\ \A e, f \in run.rows : e # f => e \cap f = {}
        /\ \A c, d \in UNION run.rows :
              (\E e \in run.rows : {c, d} \subseteq e)
                <=> c = d \/ (c.type = d.type /\ c.value = d.value /\ c.value # None)
      BY ONLY <1>13, <2>2
  <2> QED
      BY ONLY <1>12, <2>1, <2>3 DEF Told
<1> QED
    BY <1>2, <1>4, <1>14, TypesDistinct DEF Fits, Sound

-----------------------------------------------------------------------------
\* Every run fits what its rows show, committed or not; the stored ones need
\* not have been found by the detectors of today.
Held(r, run) ==
    Sound(run) /\ (run.type = Types[3] /\ r \notin DOMAIN Stored => Detected(run))
JobRows(p, j) ==
    j.phase # "idle" =>
        /\ \A r \in DOMAIN j.runs : Fits(j.runs[r])
        /\ p \in Labs => j.version \in Versions
RowsOK ==
    /\ \A r \in DOMAIN runs : Held(r, runs[r])
    /\ \A p \in Processes : JobRows(p, job[p])
    /\ \A t \in DOMAIN tests : IsFiniteSet(tests[t].inputs)

\* What a step of one session must show.
LEMMA RowsKept ==
    ASSUME IInv, RowsOK, NEW p \in Processes, NEW j, Set(p, j), JobRows(p, j),
           \/ runs' = runs
           \/ runs' = With(runs, job[p].runs) /\ job[p].phase # "idle",
           \A t \in DOMAIN tests' : IsFiniteSet(tests'[t].inputs)
    PROVE  RowsOK'
<1>1. \A q \in Processes : job'[q] = IF q = p THEN j ELSE job[q]
    BY DEF Set, IInv, Numbers
<1>2. \A q \in Processes : JobRows(q, job'[q])
    BY <1>1 DEF RowsOK
<1>3. \A r \in DOMAIN runs' : Held(r, runs'[r])
  <2>1. CASE runs' = runs
      BY <2>1 DEF RowsOK
  <2>2. CASE runs' = With(runs, job[p].runs) /\ job[p].phase # "idle"
    <3>1. \A r \in DOMAIN job[p].runs : Fits(job[p].runs[r])
        BY <2>2 DEF RowsOK, JobRows
    <3>2. \A r \in DOMAIN job[p].runs : Held(r, job[p].runs[r])
        BY <3>1 DEF Held, Fits
    <3>3. \A r \in DOMAIN runs : Held(r, runs[r])
        BY DEF RowsOK
    <3> QED
        BY <2>2, <3>2, <3>3 DEF With
  <2> QED
      BY <2>1, <2>2
<1> QED
    BY <1>2, <1>3 DEF RowsOK

LEMMA IdleRows == \A p : JobRows(p, Idle)
BY DEF JobRows, Idle

LEMMA LabBeginRows ==
    ASSUME IInv, RowsOK, NEW p \in Labs, LabBegin(p)
    PROVE  RowsOK'
<1>0. PICK manifest \in Manifests, version \in Versions :
         Set(p, [phase |-> "running", stage |-> 1, manifest |-> manifest, version |-> version,
                 group |-> Group(p), last |-> None, runs |-> <<>>])
    BY DEF LabBegin
<1>1. PICK j :
         /\ Set(p, j)
         /\ j = [phase |-> "running", stage |-> 1, manifest |-> manifest, version |-> version,
                 group |-> Group(p), last |-> None, runs |-> <<>>]
    BY <1>0
<1>2. DOMAIN j.runs = {} /\ j.version = version
    BY <1>1
<1>3. JobRows(p, j)
    BY <1>2 DEF JobRows
<1>4. p \in Processes /\ runs' = runs /\ tests' = tests
    BY DEF LabBegin, Processes
<1> QED
    BY <1>1, <1>3, <1>4, RowsKept DEF RowsOK

\* A stage has stored a run.
LEMMA LabStoredRows ==
    ASSUME IInv, RowsOK, NEW p \in Labs, NEW run, NEW next, LabStored(p, run, next), job[p].phase = "running",
           Fits(run)
    PROVE  RowsOK'
<1>1. PICK old, new, r :
        /\ old = job[p] /\ r = clock + 1 /\ Set(p, new)
        /\ new = [old EXCEPT
           !.runs = With(@, One(r, run)), !.last = r, !.stage = @ + 1,
           !.phase = next]
    BY DEF LabStored
<1>2. LabShape(old)
    BY <1>1 DEF IInv, LabOK
<1>3. new.runs = With(old.runs, One(r, run)) /\ new.version = old.version
    BY <1>1, <1>2 DEF LabShape
<1>4. JobRows(p, old) /\ old.phase # "idle"
    BY <1>1 DEF RowsOK, Processes
<1>5. \A q \in DOMAIN new.runs : Fits(new.runs[q])
    BY <1>3, <1>4 DEF With, One, JobRows
<1>6. JobRows(p, new)
    BY <1>3, <1>4, <1>5 DEF JobRows
<1>7. p \in Processes /\ runs' = runs /\ tests' = tests
    BY DEF LabStored, Processes
<1> QED
    BY <1>1, <1>6, <1>7, RowsKept DEF RowsOK

LEMMA LabRanRows ==
    ASSUME IInv, RowsOK, NEW p \in Labs, NEW run, LabRan(p, run), job[p].phase = "running",
           Fits(run)
    PROVE  RowsOK'
BY LabStoredRows DEF LabRan

\* The run that a stage reads.
LEMMA PreviousFits ==
    ASSUME IInv, RowsOK, NEW p \in Labs, NEW s \in 2 .. 4, job[p].phase = "running",
           job[p].stage = s
    PROVE  LET previous == Seen(p)[Previous(p)] IN
           /\ IsFiniteSet(previous.rows)
           /\ s \in {2, 3} => previous.rows \subseteq DOMAIN Detections
<1>1. PICK previous : previous = Seen(p)[Previous(p)]
    OBVIOUS
<1>2. previous = job[p].runs[job[p].last] /\ previous.type = Types[s - 1]
    BY <1>1, PreviousIs
<1>3. job[p].last \in DOMAIN job[p].runs
    BY DEF IInv, LabOK
<1>4. Fits(previous)
    BY <1>2, <1>3 DEF RowsOK, JobRows, Processes
<1>5. CASE s = 2
    BY <1>1, <1>2, <1>4, <1>5, TypesDistinct DEF Fits, Sound
<1>6. CASE s = 3
    BY <1>1, <1>2, <1>4, <1>6, TypesDistinct DEF Fits, Sound
<1>7. CASE s = 4
    BY <1>1, <1>2, <1>4, <1>7, TypesDistinct DEF Fits, Sound
<1> QED
    BY <1>5, <1>6, <1>7

LEMMA LabPerceiveRows ==
    ASSUME IInv, RowsOK, NEW p \in Labs, LabPerceive(p)
    PROVE  RowsOK'
<1>1. job[p].phase = "running"
    BY DEF LabPerceive, Stage
<1>2. job[p].version \in Versions
    BY <1>1 DEF RowsOK, JobRows, Processes
<1>3. PICK blocks \in Perceptions[job[p].version] :
         LabRan(p, Perceived(job[p].version, blocks, LabContext(p)))
    BY DEF LabPerceive
<1>4. IsFiniteSet(blocks) /\ blocks \subseteq DOMAIN Detections
    BY <1>2, DetectionsAssumption
<1>5. PICK run : run = Perceived(job[p].version, blocks, LabContext(p))
    OBVIOUS
<1>6. Fits(run)
    BY <1>4, <1>5, PerceivedFits
<1> QED
    BY <1>1, <1>3, <1>5, <1>6, LabRanRows

LEMMA LabInterruptRows ==
    ASSUME IInv, RowsOK, NEW p \in Labs, LabInterrupted(p)
    PROVE  RowsOK'
<1>1. job[p].phase = "running"
    BY DEF LabInterrupted, Stage
<1>2. job[p].version \in Versions
    BY <1>1 DEF RowsOK, JobRows, Processes
<1>3. PICK blocks \in Perceptions[job[p].version] : \E stored \in Before(blocks) :
         LabStored(p, Untold(Perceived(job[p].version, stored, LabContext(p))), "ended")
    BY DEF LabInterrupted
<1>11. PICK stored \in Before(blocks) :
         LabStored(p, Untold(Perceived(job[p].version, stored, LabContext(p))), "ended")
    BY <1>3
<1>4. stored \subseteq blocks
    BY DEF Before
<1>5. IsFiniteSet(stored) /\ stored \subseteq DOMAIN Detections
    BY <1>2, <1>4, DetectionsAssumption, FS_Subset
<1>6. PICK whole : whole = Perceived(job[p].version, stored, LabContext(p))
    OBVIOUS
<1>7. Made(whole, Types[1], job[p].group, job[p].last, job[p].manifest)
    BY <1>1, <1>6, LabContextIs DEF Perceived, Made
<1>8. PICK run : run = Untold(whole)
    OBVIOUS
<1>9. run.type = Types[1] /\ run.rows = stored
    BY <1>6, <1>7, <1>8, BrokenIs, PerceivedIs
<1>10. Fits(run)
    BY <1>5, <1>9, TypesDistinct DEF Fits, Sound, Told
<1> QED
    BY <1>1, <1>6, <1>8, <1>10, <1>11, LabStoredRows

LEMMA LabNormalizeRows ==
    ASSUME IInv, RowsOK, NEW p \in Labs, LabNormalize(p)
    PROVE  RowsOK'
<1>1. PICK perception, context, good :
         /\ perception = Seen(p)[Previous(p)] /\ context = LabContext(p)
         /\ good = Normalized(perception, context)
    OBVIOUS
<1>2. PICK run : LabRan(p, run) /\ (run = good \/ run = Failed(good))
    BY <1>1 DEF LabNormalize
<1>3. job[p].phase = "running" /\ job[p].stage = 2
    BY DEF LabNormalize, Stage
<1>4. IsFiniteSet(perception.rows) /\ perception.rows \subseteq DOMAIN Detections
    BY <1>1, <1>3, PreviousFits
<1>5. Fits(good) /\ Fits(Failed(good))
    BY <1>1, <1>4, NormalizedFits
<1> QED
    BY <1>2, <1>3, <1>5, LabRanRows

LEMMA LabDiscoverRows ==
    ASSUME IInv, RowsOK, NEW p \in Labs, LabDiscover(p)
    PROVE  RowsOK'
<1>1. PICK r, normalization, context, good :
         /\ r = clock + 1 /\ normalization = Seen(p)[Previous(p)] /\ context = LabContext(p)
         /\ good = Discovered(r, normalization, context)
    OBVIOUS
<1>2. PICK none, bad : /\ none = [units |-> 0, candidates |-> 0, skipped |-> 0]
                       /\ bad = [good EXCEPT !.metrics = none]
    OBVIOUS
<1>3. PICK run : LabRan(p, run) /\ (run = good \/ run = Broken(bad))
    BY <1>1, <1>2 DEF LabDiscover
<1>4. job[p].phase = "running" /\ job[p].stage = 3
    BY DEF LabDiscover, Stage
<1>5. IsFiniteSet(normalization.rows) /\ normalization.rows \subseteq DOMAIN Detections
    BY <1>1, <1>4, PreviousFits
<1>6. Fits(good)
    BY <1>1, <1>5, DiscoveredFits
<1>7. PICK group, last, manifest :
          group = job[p].group /\ last = job[p].last /\ manifest = job[p].manifest
    OBVIOUS
<1>8. Made(good, Types[3], group, last, manifest)
  <2>1. context = [environment |-> "experiment", group |-> group, step |-> None,
                   configuration |-> [source |-> last, manifest |-> manifest],
                   hash |-> [source |-> last, manifest |-> manifest]]
      BY <1>1, <1>4, <1>7, LabContextIs
  <2>2. PICK rows, metrics : good = Run(Types[3], normalization.version, context,
                                        "completed", rows, metrics)
      BY <1>1, DiscoveredIs
  <2> QED
      BY <2>1, <2>2 DEF Made
<1>9. Made(bad, Types[3], group, last, manifest)
    BY <1>2, <1>8, UnmeasuredIs
<1>10. Broken(bad).rows = {} /\ Broken(bad).status = "failed"
    BY <1>9, BrokenIs
<1>11. Fits(run)
    BY <1>3, <1>6, <1>10, FailedFits
<1> QED
    BY <1>3, <1>4, <1>11, LabRanRows

LEMMA LabResolveRows ==
    ASSUME IInv, RowsOK, NEW p \in Labs, LabResolve(p)
    PROVE  RowsOK'
<1>1. PICK scope, context, good :
         /\ scope = Seen(p)[Previous(p)].rows /\ context = LabContext(p)
         /\ good = Resolved(scope, context)
    OBVIOUS
<1>2. PICK untold, uncounted :
         /\ untold = [good EXCEPT !.context.configuration.source = None,
                                  !.context.hash.source = None]
         /\ uncounted = [untold EXCEPT !.metrics.entities = 0, !.metrics.memberships = 0,
                 !.metrics.evidences = 0, !.metrics.singles = 0, !.metrics.grouped = 0]
    OBVIOUS
<1>3. job[p].phase = "running" /\ job[p].stage = 4
    BY DEF LabResolve, Stage
<1>4. PICK run : LabRan(p, run) /\ (run = good \/ run = Broken(untold) \/ run = Broken(uncounted))
    BY <1>1, <1>2 DEF LabResolve
<1>5. IsFiniteSet(scope)
    BY <1>1, <1>3, PreviousFits
<1>6. Fits(good)
    BY <1>1, <1>5, ResolvedFits
<1>7. PICK version, rows, metrics : good = Run(Types[4], version, context,
                                               "completed", rows, metrics)
    BY <1>1, ResolvedIs
<1>8. PICK group, last, manifest :
          group = job[p].group /\ last = job[p].last /\ manifest = job[p].manifest
    OBVIOUS
<1>9. context = [environment |-> "experiment", group |-> group, step |-> None,
                 configuration |-> [source |-> last, manifest |-> manifest],
                 hash |-> [source |-> last, manifest |-> manifest]]
    BY <1>1, <1>3, <1>8, LabContextIs
<1>10. Made(good, Types[4], group, last, manifest)
    BY <1>7, <1>9 DEF Made
<1>11. Made(untold, Types[4], group, None, manifest)
    BY <1>2, <1>10, UntoldIs
<1>12. Made(uncounted, Types[4], group, None, manifest)
    BY <1>2, <1>11, UncountedIs
<1>13. /\ Broken(untold).rows = {} /\ Broken(untold).status = "failed"
       /\ Broken(uncounted).rows = {} /\ Broken(uncounted).status = "failed"
    BY <1>11, <1>12, BrokenIs
<1>14. Fits(run)
    BY <1>4, <1>6, <1>13, FailedFits
<1> QED
    BY <1>3, <1>4, <1>14, LabRanRows

LEMMA LabStopRows ==
    ASSUME IInv, RowsOK, NEW p \in Labs, LabStop(p)
    PROVE  RowsOK'
<1>1. PICK old, new : old = job[p] /\ new = [old EXCEPT !.phase = "ended"] /\ Set(p, new)
    BY DEF LabStop
<1>2. LabShape(old) /\ old.phase = "running"
    BY <1>1 DEF LabStop, IInv, LabOK
<1>3. new.runs = old.runs /\ new.version = old.version
    BY <1>1, <1>2 DEF LabShape
<1>4. JobRows(p, old)
    BY <1>1 DEF RowsOK, Processes
<1>5. JobRows(p, new)
    BY <1>2, <1>3, <1>4 DEF JobRows
<1>6. p \in Processes /\ runs' = runs /\ tests' = tests
    BY DEF LabStop, Processes
<1> QED
    BY <1>1, <1>5, <1>6, RowsKept DEF RowsOK

LEMMA LabCommitRows ==
    ASSUME IInv, RowsOK, NEW p \in Labs, LabCommit(p)
    PROVE  RowsOK'
<1>1. /\ Set(p, Idle) /\ runs' = With(runs, job[p].runs) /\ job[p].phase # "idle"
      /\ tests' = tests /\ p \in Processes
    BY DEF LabCommit, Processes
<1> QED
    BY <1>1, IdleRows, RowsKept DEF RowsOK

LEMMA ExperimentDiscoverRows ==
    ASSUME IInv, RowsOK, NEW p \in Experimenters, ExperimentDiscover(p)
    PROVE  RowsOK'
<1>0. PICK n \in DOMAIN runs : \E phase, context, run, j :
         /\ Completed(n, Types[2]) /\ run = Discovered(clock + 1, runs[n], context)
         /\ j = [phase |-> phase, runs |-> One(clock + 1, run)] /\ Set(p, j)
    BY DEF ExperimentDiscover
<1>1. PICK phase, context, run, j :
         /\ Completed(n, Types[2]) /\ run = Discovered(clock + 1, runs[n], context)
         /\ j = [phase |-> phase, runs |-> One(clock + 1, run)] /\ Set(p, j)
    BY <1>0
<1>2. IsFiniteSet(runs[n].rows) /\ runs[n].rows \subseteq DOMAIN Detections
    BY <1>1, TypesDistinct DEF RowsOK, Held, Sound, Completed
<1>3. Fits(run)
    BY <1>1, <1>2, DiscoveredFits
<1>4. j.runs = One(clock + 1, run)
    BY <1>1
<1>5. p \in Processes /\ p \notin Labs
    BY Kinds DEF Processes
<1>6. JobRows(p, j)
  <2>1. \A q \in DOMAIN One(clock + 1, run) : One(clock + 1, run)[q] = run
      BY DEF One
  <2>2. \A q \in DOMAIN j.runs : Fits(j.runs[q])
      BY <1>3, <1>4, <2>1
  <2> QED
      BY <1>5, <2>2 DEF JobRows
<1>7. runs' = runs /\ tests' = tests
    BY DEF ExperimentDiscover
<1> QED
    BY <1>1, <1>5, <1>6, <1>7, RowsKept DEF RowsOK

LEMMA ExperimentEndRows ==
    ASSUME IInv, RowsOK, NEW p \in Experimenters, ExperimentEnd(p)
    PROVE  RowsOK'
<1>1. /\ Set(p, Idle) /\ job[p].phase # "idle" /\ tests' = tests /\ p \in Processes
      /\ runs' = runs \/ runs' = With(runs, job[p].runs)
    BY DEF ExperimentEnd, Processes
<1> QED
    BY <1>1, IdleRows, RowsKept DEF RowsOK

\* The candidates that are stored are finitely many.
LEMMA CandidatesFinite ==
    ASSUME IInv, RowsOK
    PROVE  IsFiniteSet(Candidates)
<1>1. PICK found, rows : /\ found = {q \in DOMAIN runs : runs[q].type = Types[3]}
                         /\ rows = {runs[r].rows : r \in found}
    OBVIOUS
<1>2. IsFiniteSet(found)
  <2>1. clock \in Nat /\ found \subseteq 1 .. clock
      BY <1>1 DEF IInv, Numbers
  <2>2. IsFiniteSet(1 .. clock)
      BY <2>1, FS_Interval
  <2> QED
      BY <2>1, <2>2, FS_Subset
<1>3. PICK f : f = [r \in found |-> runs[r].rows]
    OBVIOUS
<1>4. f \in Surjection(found, rows)
    BY <1>1, <1>3 DEF Surjection
<1>5. IsFiniteSet(rows)
    BY <1>2, <1>4, FS_Surjection
<1>6. \A x \in rows : IsFiniteSet(x)
    BY <1>1, TypesDistinct DEF RowsOK, Held, Sound
<1>7. IsFiniteSet(UNION rows)
    BY <1>5, <1>6, FS_UNION
<1>8. Candidates = UNION rows
    BY <1>1 DEF Candidates
<1> QED
    BY <1>7, <1>8

LEMMA TestBeginRows ==
    ASSUME IInv, RowsOK, NEW p \in Testers, TestBegin(p)
    PROVE  RowsOK'
<1>1. PICK inputs, trace, j :
         /\ inputs \subseteq Candidates
         /\ trace = Trace("running", inputs, {})
         /\ tests' = With(tests, One(clock + 1, trace))
         /\ j = [phase |-> "traced", test |-> clock + 1, outcome |-> None, outputs |-> {},
                 runs |-> <<>>]
         /\ Set(p, j)
    BY DEF TestBegin, CreateTrace
<1>2. IsFiniteSet(inputs)
    BY <1>1, CandidatesFinite, FS_Subset
<1>3. trace.inputs = inputs
    BY <1>1 DEF Trace
<1>4. \A t \in DOMAIN tests' : tests'[t] = trace \/ (t \in DOMAIN tests /\ tests'[t] = tests[t])
    BY <1>1 DEF With, One
<1>5. \A t \in DOMAIN tests' : IsFiniteSet(tests'[t].inputs)
    BY <1>2, <1>3, <1>4 DEF RowsOK
<1>6. DOMAIN j.runs = {} /\ p \notin Labs /\ p \in Processes
    BY <1>1, Kinds DEF Processes
<1>7. JobRows(p, j)
    BY <1>6 DEF JobRows
<1>8. runs' = runs
    BY DEF TestBegin
<1> QED
    BY <1>1, <1>5, <1>6, <1>7, <1>8, RowsKept

LEMMA TestRunRows ==
    ASSUME IInv, RowsOK, NEW p \in Testers, TestRun(p)
    PROVE  RowsOK'
<1>1. PICK test, scope, context, run, rows, old, new, failed :
         /\ old = job[p] /\ test = old.test /\ scope = tests[test].inputs
         /\ context = Context(None, None, <<p, test>>, test)
         /\ run = Resolved(scope, context) /\ rows = run.rows
         /\ new = [old EXCEPT !.phase = "ran", !.outcome = "completed",
                              !.outputs = rows, !.runs = One(test, run)]
         /\ failed = [old EXCEPT !.phase = "ran", !.outcome = "failed"]
    OBVIOUS
<1>2. PICK j : (j = new \/ j = failed) /\ Set(p, j)
    BY <1>1 DEF TestRun, RolledBack
<1>3. TestShape(old) /\ test \in DOMAIN tests /\ old.phase # "idle"
    BY <1>1 DEF TestRun, IInv, TestOK
<1>4. /\ new.runs = One(test, run) /\ failed.runs = old.runs
    BY <1>1, <1>3 DEF TestShape
<1>5. IsFiniteSet(scope)
    BY <1>1, <1>3 DEF RowsOK
<1>6. Fits(run)
    BY <1>1, <1>5, ResolvedFits
<1>7. p \notin Labs /\ p \in Processes
    BY Kinds DEF Processes
<1>8. JobRows(p, old)
    BY <1>1, <1>7 DEF RowsOK
<1>9. JobRows(p, new) /\ JobRows(p, failed)
  <2>1. \A q \in DOMAIN new.runs : Fits(new.runs[q])
    <3>1. \A q \in DOMAIN One(test, run) : One(test, run)[q] = run
        BY DEF One
    <3> QED
        BY <1>4, <1>6, <3>1
  <2>2. \A q \in DOMAIN failed.runs : Fits(failed.runs[q])
      BY <1>3, <1>4, <1>8 DEF JobRows
  <2> QED
      BY <1>7, <2>1, <2>2 DEF JobRows
<1>10. JobRows(p, j)
    BY <1>2, <1>9
<1>11. runs' = runs /\ tests' = tests
    BY DEF TestRun
<1> QED
    BY <1>2, <1>7, <1>10, <1>11, RowsKept DEF RowsOK

LEMMA TestEndRows ==
    ASSUME IInv, RowsOK, NEW p \in Testers, TestEnd(p)
    PROVE  RowsOK'
<1>1. PICK test, old, trace, outcome, outputs :
         /\ test = job[p].test /\ old = tests[test]
         /\ outcome = job[p].outcome /\ outputs = job[p].outputs
         /\ trace = Trace(outcome, old.inputs, outputs)
    OBVIOUS
<1>2. /\ Set(p, Idle) /\ runs' = With(runs, job[p].runs) /\ job[p].phase # "idle"
      /\ tests' = [tests EXCEPT ![test] = trace]
    BY <1>1 DEF TestEnd, EndTrace
<1>3. trace.inputs = old.inputs
    BY <1>1 DEF Trace
<1>4. test \in DOMAIN tests
    BY <1>1, <1>2 DEF IInv, TestOK
<1>5. \A t \in DOMAIN tests' : IsFiniteSet(tests'[t].inputs)
    BY <1>1, <1>2, <1>3, <1>4 DEF RowsOK
<1>6. p \in Processes
    BY DEF Processes
<1> QED
    BY <1>2, <1>5, <1>6, IdleRows, RowsKept

LEMMA RowsStart ==
    ASSUME Init
    PROVE  RowsOK
<1>1. runs = Stored /\ tests = <<>> /\ job = [p \in Processes |-> Idle]
    BY DEF Init
<1>2. \A r \in DOMAIN Stored : Held(r, Stored[r])
    BY StoredAssumption DEF Held
<1>3. \A p \in Processes : JobRows(p, job[p])
    BY <1>1, IdleRows
<1>4. DOMAIN tests = {}
    BY <1>1
<1> QED
    BY <1>1, <1>2, <1>3, <1>4 DEF RowsOK

LEMMA RowsStep ==
    ASSUME IInv, RowsOK, [Next]_vars
    PROVE  RowsOK'
<1>1. ASSUME NEW p \in Processes, Crash(p) PROVE RowsOK'
  <2>1. Set(p, Idle) /\ runs' = runs /\ tests' = tests
      BY <1>1 DEF Crash
  <2> QED
      BY <2>1, IdleRows, RowsKept DEF RowsOK
<1>2. ASSUME NEW p \in Labs, LabBegin(p) \/ LabStep(p) \/ Crash(p) PROVE RowsOK'
  <2>1. p \in Processes
      BY DEF Processes
  <2> QED
      BY <1>1, <1>2, <2>1, LabBeginRows, LabPerceiveRows, LabInterruptRows, LabNormalizeRows,
         LabDiscoverRows, LabResolveRows, LabStopRows, LabCommitRows DEF LabStep
<1>3. ASSUME NEW p \in Experimenters, ExperimentDiscover(p) \/ ExperimentEnd(p) \/ Crash(p)
      PROVE  RowsOK'
  <2>1. p \in Processes
      BY DEF Processes
  <2> QED
      BY <1>1, <1>3, <2>1, ExperimentDiscoverRows, ExperimentEndRows
<1>4. ASSUME NEW p \in Testers, TestBegin(p) \/ TestRun(p) \/ TestEnd(p) \/ Crash(p)
      PROVE  RowsOK'
  <2>1. p \in Processes
      BY DEF Processes
  <2> QED
      BY <1>1, <1>4, <2>1, TestBeginRows, TestRunRows, TestEndRows
<1>5. CASE Save \/ UNCHANGED vars
  <2>1. runs' = runs /\ tests' = tests /\ job' = job
      BY <1>5 DEF Save, vars
  <2> QED
      BY <2>1 DEF RowsOK
<1> QED
    BY <1>2, <1>3, <1>4, <1>5 DEF Next

LEMMA RowsInvariance == Spec => [](IInv /\ RowsOK)
<1>1. Init => IInv /\ RowsOK
    BY Starts, RowsStart
<1>2. (IInv /\ RowsOK) /\ [Next]_vars => (IInv /\ RowsOK)'
    BY Steps, RowsStep
<1> QED
    BY <1>1, <1>2, PTL DEF Spec

\* What a completed run says it has done is what its rows show to the readers,
\* whatever the detectors report, whichever stage fails and whoever reads.
THEOREM FiguresAgree == Spec => []CountsAgree
<1>1. ASSUME RowsOK PROVE CountsAgree
  <2>1. SUFFICES ASSUME NEW r \in DOMAIN runs, runs[r].status = "completed"
                 PROVE  /\ Told(runs[r])
                        /\ runs[r].type = Types[3] =>
                              /\ r \notin DOMAIN Stored => Detected(runs[r])
                              /\ \A q \in DOMAIN runs :
                                    runs[q].type = Types[3] => Compared(runs[q], runs[r])
      BY DEF CountsAgree
  <2>2. \A q \in DOMAIN runs : Held(q, runs[q])
      BY <1>1 DEF RowsOK
  <2>3. Told(runs[r]) /\ (runs[r].type = Types[3] /\ r \notin DOMAIN Stored => Detected(runs[r]))
      BY <2>1, <2>2 DEF Held, Sound
  <2>4. \A q \in DOMAIN runs : runs[q].type = Types[3] => IsFiniteSet(runs[q].rows)
      BY <2>2, TypesDistinct DEF Held, Sound
  <2>5. \A q \in DOMAIN runs :
           runs[q].type = Types[3] /\ runs[r].type = Types[3] => Compared(runs[q], runs[r])
      BY <2>4, ComparedIs
  <2> QED
      BY <2>3, <2>5
<1> QED
    BY <1>1, RowsInvariance, PTL

=============================================================================
