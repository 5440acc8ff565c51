# Kaliok V2: verification project

Kaliok V2 is the backend of a documentary RAG: it reads files into versions of
documents, perceives their pages (OCR, layout), normalises and indexes them,
composes and versions the pipelines that do it, and answers questions from what
is stored. A FastAPI application, a Django user interface (the Lab) and
command-line tools share one PostgreSQL database through SQLModel sessions.

Almost everything that can go wrong in this code goes wrong *between*
transactions. Sessions run READ COMMITTED; what keeps two writers apart is an
occasional `FOR UPDATE`, the row locks of `UPDATE`s, a few unique indexes, and
otherwise nothing. Several services read a state, do minutes of work, and act on
what they read. This project models those services as processes whose
transactions are cut where the code's statements can interleave, checks them
with TLC on small instances, and proves the invariants of eight of them with
TLAPS for any number of processes and rows. The algorithms that need no database
(corpora, fusion, reranking, scoring) are operators checked against what they
promise, over bounded inputs.

Paths below are relative to the repository (`src/kaliok/...`, `tools/...`).

1. Contents - 2. Inventory - 3. Models and code - 4. Runs - 5. Disagreements -
6. Proofs - 7. Not modelled - 8. Plan

## 1. Contents

| Module | What it is |
| --- | --- |
| `PerceptionStore` | the perception generations of one document version: `index_document`, Lab experiments, Docling |
| `VersionHistory` | what versions of a document promise to readers (abstract) |
| `DocumentVersions` | the two writers of documents and versions; implements `VersionHistory` |
| `ConfigurationRevisions` | the revisions of one configuration profile, and executions that read them |
| `PipelineRevisions` | the revisions of one pipeline, step tests and the production view |
| `PipelineComposition` | the links between bindings and nodes of one draft, their projection, their audit trail, and the step tests that reference them |
| `DocumentPipeline` | the chain of processing runs (perception, normalization, discovery, resolution) and its three callers |
| `EvaluationCampaigns` | questions, their attempts, and the campaigns that repeat them |
| `RagRuntime` | a request for an answer: index test, indexing, retrieval, generation |
| `DoclingCorpora` | the four corpora that the experiments build from a Docling document |
| `QaBenchmark` | the question benchmark, on those corpora and on what is indexed |
| `MC*` | instances of each for TLC (symmetry, values that a cfg cannot write) |
| `*_proofs` | theorems and their proofs, for nine of the specifications; `Answers_proofs` is about two of them, `RagRuntime` and `QaBenchmark` (whose `Init`, `Next` and `Spec` are called `QBInit`, `QBNext` and `QBSpec` for that reason) |

Names follow the source where TLA+ allows it. A definition whose comment begins
with "mutant" is a plausible wrong version of the definition that follows it;
`PROJECT.json` says with which property TLC notices the difference. No
specification uses it.

## 2. Inventory of the system

For each part: the state it keeps, its operations, with whom it interacts, what
is hard, and what makes it correct. The status is the one of `PROJECT.json`.

### Documents

**Document indexing** (`indexing/service.py`) - *modelled*.
State: `Document`, `DocumentVersion`, `Page`, `ContentBlock`, `DocumentChunk`,
`ChunkContentBlock`, embeddings, `ProcessingRun`. One operation,
`index_document`, in two transactions with the reading, OCR, cutting and
embedding of the file between them. It creates a document and a version, or
finds a version and, by its perception state (`missing`, `partial`,
`page_metadata_missing`, `perception_stale`, `complete`), backfills, enriches,
refreshes or refuses. Hard: the state is read long before it is used, nothing is
locked but the rows that are updated, and the schema does not forbid duplicates.
Correct when: pages are promoted together, links follow the promotion, the
promoted text is the stored chunks' text, a complete version stays complete, one
version is current.

**Docling perception** (`indexing/docling.py`) - *modelled*. Adds a non-current
perception from a Docling JSON document under `FOR UPDATE` of the version row,
idempotent by fingerprint. Correct when a document is stored once per version
and never promoted.

**Content normalization** (`normalization/service.py`) - *modelled*. From the
blocks of the current perception (or of an explicit run) to units, in a run with
a savepoint; called by `index_document` in its own transaction and by the Lab.
Several generations of one version coexist. Correct when the units of production
come from the promoted perception, and a failed run leaves no unit.

**Entity discovery** (`discovery/`) - *partly*, **entity resolution**
(`entity_resolution/`) - *modelled*. A discovery run turns units into candidates
(duplicates of one span once); a resolution run groups candidates of one type and
declared value into entities. Callers: the Lab, the experiment script (dry run
or not), the step test. Hard: which earlier run a stage reads, counts stored
beside the rows they count, savepoints whose run survives. Correct when a run is
made from one completed run of the stage before, its figures are those of its
rows, and a page never shows a run made from another one than it shows.

**Ingestion** (`ingestion/`, `api/ingestion.py`) - *partly*. `store` under `FOR
UPDATE` of the `Document` row: look-up of the content, retirement of the current
version, next number, insertion. Correct when the versions of a document are a
history with one current, latest entry.

**Reading and OCR** (`documents/`, `ocr/`) - *partly*: the adapter that puts a
Docling document in reading order. **Cleaning, chunking, deduplication** - *not
modelled*: heuristics on words. What they return to the writers is a constant of
`PerceptionStore`: the possible `Segmentations` of a file and its `DoclingDocs`.

### Pipelines

**Pipeline persistence** (`pipeline/persistence.py`, `manifest.py`) - *partly*.
State: `PipelineRevision` (status, hash of the manifest, reason),
`PipelineBinding`, capabilities, dependencies, links to the nodes of a template.
Operations: save, reset from the active revision, new revision, activate, load a
manifest. Hard: the decision about a revision is taken on a row loaded earlier
in the session; the ORM writes, hence locks, only the columns that change; a
save replaces all bindings. Correct when a revision's bindings are those of one
save, the hash is theirs, an active revision is immutable and unique.

**Composition** (`pipeline/composition.py`, `composer.py`) - *modelled*. Links
between bindings and template nodes, one selected per node, their projection to
the older capability table, one audit event per edit. The service commits
nothing: its caller edits, projects and commits. Hard: a session keeps what it
has read, an `UPDATE` writes only what it believes changed, the `UPDATE`s of one
flush meet a partial unique index in key order, the projection deletes and
inserts rows that another session replaces. Correct when the structure stays
valid, the projection and the trail follow the links, and a step test that looked
a link up records a step of it only while it is there.

**Step testing and execution provenance** (`pipeline/step_testing.py`,
`execution/service.py`) - *modelled* and *partly*. A trace (execution, step,
inputs) is committed as `running`; the runtime and the outputs are in a
savepoint; the end is a second commit. Hard: a process that dies between the two
commits, a failure after rows were written, a link that a save deletes. Correct
when a trace tells the whole of a test, and a step keeps what it references.

**Pipeline runtime and Lab** (`pipeline/runtime.py`, `real_registry.py`,
`ui/core_ui/views.py`) - *modelled* and *partly*. An execution runs the stages
that a manifest binds, each on the run of the stage before, in one transaction
that the view commits even after an exception.

**Catalogue, comparison and production view** (`pipeline/components.py`,
`registry.py`, `comparison.py`, `production.py`) - *partly*: the production view
as a reader. The rest is static data and reports.

### Answers

**Configuration profiles** (`configuration/service.py`, `bootstrap.py`) -
*modelled*. Revisions of a profile: `create_from`, `activate`,
`ConfigurationReader`. Hard: activation is two `UPDATE`s under a partial unique
index on rows loaded before; a reader makes one query per setting. Correct when
one revision is active and an attempt's snapshot is its revision's settings.

**RAG orchestration and embeddings** (`rag/`, `rag_runtime/`, `embeddings/`,
`api/rag.py`) - *modelled* and *partly*. A request selects the current version,
looks whether its normalized units are indexed, indexes them if not, commits,
retrieves and generates. Hard: what is looked up in one statement and written in
another; two requests that index the same units; a version or a normalization
that comes in meanwhile; the table of chunks shared with `index_document`.
Correct when an index is stored whole and answers use all of it that they should.

**Evaluation** (`qa/`, `api/evaluation.py`) - *partly* (the labels of a suite
are left out). Attempts numbered per question, committed as `processing` and
then ended; campaigns that run every question on every revision. Hard: number
races, a dead process, a campaign run twice, a session that is unusable after a
refused insertion. Correct when numbers are dense, no path leaves an attempt
open, and the report accounts for the plan.

**Retrieval, fusion and benchmark** (`retrieval/`,
`experiments/docling_retrieval.py`, `tools/qa_benchmark.py`) - *partly*. Corpora
of units with local context, reciprocal rank fusion, a judge of answerability,
two rerankers with their fallback, scores. Hard: boundaries of the windows, a
fallback that must not change the order, a series that counts another set of
questions than its neighbour. Correct when no text is lost or doubled, scores
are those of the questions, and a fusion is fair to what every method prefers.

### Around them

**Resources, credentials and audit** (`resources/`, `audit/`) - *partly*: the
audit record in the transaction of an edit. **Storage schema and migrations**
(`storage/`, `migrations/`) - *partly*: the tables and constraints that the
modelled services rely on. **HTTP API** - *partly*: the transactions of its
requests; request and response formats are not modelled. **Tools** - *partly*:
the question benchmark. **Observability** - *not modelled*: tracing.

`PROJECT.json` lists the hazards, each at its line, with the properties that
catch it, or why none does.

## 3. How the models correspond to the code

Common to all: a process is a call or request with its own session. Its record
(`job`, `call`, `editor`, `activator`, `saver`, ...) holds what the session has
read and what it has written without committing. Committed rows are the other
variables. An action is the code between two points where another transaction
may be seen: a statement that reads, a statement that may wait for a lock, the
commit. Locks are guards on the records of the other processes. `Fail`-like
actions are exceptions, lost connections and killed processes: PostgreSQL rolls
back, the record is dropped.

### PerceptionStore

One `DocumentVersion` that exists.

| Code | Model |
| --- | --- |
| `index_document`, first transaction | `Inspect` |
| reading and cutting of the file, state read again | `Recheck(w, c)`, with any segmentation `c` |
| backfill, enrichment, refresh: perception, links, normalization, flushed | `Store`, `StoreRefused` |
| commit, exceptions, process death | `Commit`, `Fail` |
| Lab execution: perception without promotion, normalization, commit of the view | `LabStore`, `LabCommit`, `Abandon` |
| `store_docling_perception` | `DoclingStore`, `DoclingCommit`, `Abandon` |
| `get_perception_storage_state`, `get_index_storage_state` | operators of those names, `IndexComplete` |

`Page` rows have an identity beyond their number, so that two transactions can
insert the same page twice, as the schema allows. `content` is a history
variable: what a run perceived.

Abstractions: `page_count` is set and is the file's; every page has a block and
every text page one chunk; the queries that compute a perception state are one
step; one engine version of Docling and a fingerprint always present; a Docling
call that finds its run holds the lock for no time; the file does not change
between two readings by one call. The final `UPDATE` of the version row only
delays other callers.

### DocumentVersions and VersionHistory

One external file name. `Look`, `CreateDocument`, `LookAgain`, `Select`,
`Update`, `Insert`, `Commit` are the statements of `index_document` on a content
that has no version; `Lock`, `New`, `Write`, `Commit` those of
`PostgresDocumentStore.store` and its request. Several `Document` rows may exist
for the name, since nothing forbids it (`Known = FALSE` starts without any).

`VersionHistory` says what a reader expects: contents are appended with growing
numbers and the last one alone is current. `History` in `DocumentVersions` maps
the rows to it.

Abstractions: a call that finds a version writes nothing here (the rest of it is
`PerceptionStore`); the source row is part of `documents`; the locks of a flush
are taken at once; content units are left out.

### ConfigurationRevisions

One profile. `Number`, `InsertRevision`, `Create` are `create_from`; `Get`,
`SelectActive`, `Retire`, `Activate` are `activate`; `LoadRevision`,
`ReadSetting` (once per setting), `RecordAttempt` are an execution. The unique
index on the active revision is `IndexAllows`, the one on the number
`NumberFree`. `Get` keeps the status as loaded: SQLAlchemy writes a column only
if its value differs from the loaded one (`Changes`), and does not refresh it.

`Reactivation = FALSE` says that no request asks for the revision it finds
active. The page offers activation on drafts only; the API does not refuse it.
With `TRUE`, TLC finds a profile without active revision: the request for the
active revision, overtaken by another activation, retires the new one and writes
nothing on its own.

Abstractions: a number identifies a revision; the last `UPDATE` and the commit
of `activate` are one step; the catalogue of settings is constant.

### PipelineRevisions

One pipeline.

| Code | Model |
| --- | --- |
| the Lab view's reading of the draft or the active revision | `FindDraft`, `FindForReset`, `FindForNew` |
| `clone_active_to_draft` | `LateDraft`, `LoadManifest` |
| `save_revision` | `InsertRevision`, or `UpdateRow` then `ReplaceBindings` |
| the view's commit | `Commit` |
| `activate` | `Get`, `SelectActive`, `Activate`, `ActivateFails` |
| `RagComposerStepTestService`, `create_step` | `SelectBinding`, `CreateStep` |
| `build_current_production_manifest` | `FindActive`, `LoadActive` |

The rows of bindings that a save inserts are one value, `Rows(by, comp)`: the
save that inserted them and the composition they make. A save deletes the rows
it has selected; the constraint on `(pipeline_revision_id, position)` refuses it
if others remain (`PositionsFree`). A row of a revision is locked only if a
column changes (`Updates`, `HoldsRow`). `uuid` is the order of the random
primary keys, by which SQLAlchemy sorts the `UPDATE`s of a flush.

Abstractions: a composition is what the hash identifies, for a given number;
`UPDATE` of the row and `SELECT` of the bindings, and `DELETE` and `INSERT` of
them, are one step each; `Get` reads the revision and its manifest together; the
flush and the commit of `activate` are merged; the template revision does not
change; links exist on the rows left by the migration only, because a save
deletes them and the service that adds links has no caller outside the tests.
Each request is made once.

Three constants choose between the code as it is called today and as it may be:
`Reactivation` as above (`activate` has no such test either), `OneAtATime`
(saves that wait for one another, as one user of the Lab does), and `uuid`, any
order or a fixed one.

### PipelineComposition

One draft revision, any number of editors. `Begin` is the call of a mutator with
what its session reads first; `Query` the candidates of
`select_binding_for_node`; `FlushAdd`, `FlushRemove`, `FlushUpdate`,
`FlushSelect` the statements of the flush, with the foreign key, the check
constraint (selected implies enabled) and the partial unique index on the
selected link of a node; `ProjectRead`, `ProjectBlock`, `ProjectWrite` are
`project_legacy_capabilities`; `Commit`, `Rollback`, `Abort` the caller's.
`view` is the identity map of the session: a row it holds is not refreshed by a
later query (`Reading`), and an `UPDATE` carries the differences from it
(`Updated`). A `DELETE` that waits for a row another transaction deletes finds
nothing after that one's commit, and does not see the row inserted instead.
`told` is what replaying the committed audit events gives, `StructureErrors` the
structural part of `validate_pipeline_composition`.

The `Test...` actions are `RagComposerStepTestService.execute` up to its first
commit, beside the editors: it selects the links of a node (`TestLink`), then
the binding of the one that it found (`TestBinding`), and when it creates the step
the link once more (`TestRecord`), each a statement of its own; it refuses a step that is not enabled,
not provided, or of another capability than `entity_resolution`, and missing
inputs (`TestRefused`, `Testable`), inserts the step, whose foreign key locks
the link, and commits (`TestCommit`). An editor that removes a link
waits for a test that has recorded a step of it and then fails (`Recording`,
`Referenced`); a test waits for an editor that removes it (`Removing`).

`crossed` is a history variable: some commit changed a row that another open
session held, or came after that session had read the links to project. With
two such transactions the projection or the trail can differ from the links; the
properties say that nothing else makes them differ, and no more: what happens
when commits do cross is described in section 5.

Abstractions: the priority of a link only orders lists; what a step test does
after its first commit is in `DocumentPipeline`, and saves beside step tests are
in `PipelineRevisions`; a link configuration is one of a few
values; SQLAlchemy's order of statements in a flush and PostgreSQL's waiting
rules are assumed, as described above.

### DocumentPipeline

The functions `Perceived`, `Normalized`, `Discovered`, `Resolved` and `Failed`
give the run, with its rows and metrics, that the four services leave (a
perception gives no metrics); the actions say who calls them. A perception run
is inserted as completed before its rows: `LabInterrupted` is the exception that
a page which is missing raises after that (`indexing/service.py:694`, `:846`), and
the Lab commits the run with the blocks of the pages before. `LabBegin` ... `LabCommit` are
`rag_laboratory_pipeline`, which commits after an error as well
(`views.py:1306`); `ExperimentDiscover`, `ExperimentEnd` the experiment, which
joins the group of an experiment's normalization and rolls back a dry run;
`TestBegin`, `TestRun`, `TestEnd` the two commits of a step test with the
savepoint between them; `Crash` a process that stops; `Save` a draft that is
saved meanwhile. `Stored` are runs that exist: of indexing, of an earlier
execution, and of another version.

The operators under "What the readers make of the committed runs" are the page
of an execution (`Shown`), the groups and the comparison of two discoveries
(`Occurrences`, `Changed`), and the counts of a resolution (`Counts`).

Abstractions: what detectors report of a unit is the constant `Detections`; the
order of rows in a run, `attach_processing_run`, `pipeline_revision_id` and the
loading of the dictionary are left out; a run's number is the moment it starts.

### EvaluationCampaigns

| Code | Model |
| --- | --- |
| `EvaluationSuiteService`, `create` | `CreateQuestion`, `add_question`, `remove_question`, `create` |
| `run_campaign`: reading, `running` committed, loop, end | `Start`, `Begin`, `Complete`, `FailRun`, `Return` |
| `RagExecutionService.execute`: preparation, number, attempt, answer | `Unprepared`, `Prepare`, `InsertAttempt`, `RefuseAttempt`, `Answer`, `FailAnswer` |
| `answer_question_with_vector_retrieval` | `Ask`, `create_attempt`, `add_evidence`, `complete_attempt` |
| process death | `CrashRun`, `CrashAsk` |

`seen` is the status the session believes the campaign has: an assignment of the
same value writes nothing. `RefuseAttempt` follows the code exactly: the commit
fails outside the `try` of `execute`, nothing rolls the session back, and the
record of the error raises in its turn. `lost` and `abandoned` are history
variables: what a dead process leaves open.

Abstractions: an answer brings all its evidence rows or none; a suite exists and
its labels are left out; a question is asked by vector retrieval when it is
created, which is the only caller.

### RagRuntime

One document, several sessions. `Create` is the factory's first call of
`provide`; `CheckUnits`, `CheckChunks` are `normalized_version_is_indexed`;
`Source` ... `Commit` are `index`, one unit at a time, each looked up and then
inserted with its embedding; `Retrieve`, `Generate` the answer. Inserting a key
that another open transaction has inserted waits for its end (`HoldsChunk`,
`HoldsEmbedding`), and then fails if that one committed. `NewVersion`,
`Normalize` and `IndexState` are the rest of the system as it meets the table:
a PDF version has semantic chunks of its own, which count for `index_document`
and for the limit of the retrieval, and no link to a block is made here.

What the model shows, and is easy to miss in the code: `index` resolves the
*current* version again, so a request can index another version than the one it
answers from; a second non-empty generation of units makes a version impossible
to index (indices must be 0, 1, ...), and the API answers 400; the limit of the
nearest chunks is applied before the other strategy's chunks are dropped; and the
search goes through an approximate (HNSW) index over the embeddings of all
documents and models, of whose finds it keeps those of the version and the model
(`embeddings/service.py:33`). `Nearest` is therefore any set of up to `top_k`
chunks of the version, the empty one included, and no property says how many
sources an answer has.

Abstractions: no observer; scores and texts; the reranking, which only orders.

### DoclingCorpora and QaBenchmark

A document is a sequence of items with label, size, page, layer and parent; a
text is its length. `Blocks` is `document_content_from_docling`
(`documents/docling_adapter.py`) followed by `load_docling_source_blocks`; `V1`
to `V4` are the builders of `experiments/docling_retrieval.py` and `V1Whole` ...
`V4Local` what they promise. `QaBenchmark` is `tools/qa_benchmark.py`: `Parse`
(the checks of the command line), `IndexFile`, `Load`, `Build`, one `Ask...` per
kind of benchmark, `Judge`, `RerankOllama`, `RerankBge`, `Count`, `Report`.

Facts of the code kept in the model: after an error a reranker falls back on the
order of the fusion, and its rank is then none beyond the last candidate; a V3
unit of a list that crosses pages carries the page of its group; the first form
of a composite compares only the section of the introduction with the first
child; an HTTP envelope that is not an object stops the program at the judge,
and an answer that is not JSON is a technical error there and an error of
protocol at the reranker. With `max_chars = 2` and a section the cutting of a
long text never ends: `LimitsAssumption` excludes it, as the callers use 700 and
1000.

Abstractions: texts have no blanks, so a cut is at the limit; the titles of two
sections differ; where the code has floats, scores are whole numbers (sixtieths rounded
down for the reciprocal ranks, exact multiples of a common fraction for RRF); passages of the
candidates, durations and printing are left out, and with them the retrieval
diagnostic, which only prints. V2 has no caller but the tests.

## 4. Runs

Eleven runs pass and one records a disagreement. Each ends in less than three
minutes with two workers.

| Run | Shows |
| --- | --- |
| `perception_upgrade` | On a version with page rows, two `index_document`, a Lab execution, two Docling conversions, with failures: the pages are promoted together, the units follow the promotion, "complete" is for good. |
| `perception_liveness` | From a version without page rows or with stale ones, with two possible segmentations: links and promoted text are right, and every call returns. |
| `version_stores` | API requests alone: one current version; the refinement of `VersionHistory`. |
| `config_profiles` | Two creations, two activations and an execution: one active revision, reproducible attempts. |
| `pipeline_lab` | Two requests of the Lab, an activation, a step test, the production view: the bindings of one save, kept links. |
| `pipeline_serial` | Saves in turn beside two activations, for every order of the keys: one active revision, every hash right. |
| `composition_edits` | Two editors of one draft, statement by statement, beside a step test and its activation: a valid structure, a projection and a trail that follow the links, recorded steps whose links stay, no wait without end. |
| `document_pipeline` | A Lab execution, an experiment and a step test with failing stages, dry runs and dead processes: whole chains, figures of normalizations, discoveries and resolutions that are those of their rows, traces that tell everything, pages that show one chain, tests that end. |
| `qa_campaigns` | Two runs of one campaign beside a vector question and edits of the suite, with failing answers and one dead process: dense numbers, owned attempts, a report that accounts for the plan, a status that settles, runs that end. |
| `rag_answers` | Two requests and a campaign on a text and on a PDF, a new version, a new normalization, crashes: whole indexes, answers only once an index is whole and from sources of one generation, requests that end. |
| `docling_benchmark` | Every command line, about ten thousand documents, three questions: whole corpora, scores that account for the questions, fair fusions, an end that the accepted arguments cannot prevent. |
| `rag_reindex` (violation) | A question about an indexed PDF makes `index_document` report its index as incomplete. |

**Bounds.** Every hazard of the stores involves two writers, or two and a
bystander. Two calls of each kind that share rows are therefore enough to
interleave them, and the bystanders (Lab, Docling, reader, view) are one or two.
Two pages, one of them with text, distinguish "some page" from "every page".
Three or four numbers: the rows a start needs and the ones two writers create.
Two compositions, values, configurations or segmentations tell "mine" from "the
other's".

- `PipelineComposition`: two editors and a step test, two transactions of them in
  all (`MaxEdits`), from every state that the migration may leave on two nodes
  and two bindings; a third transaction meets only states that two leave, or that
  are among the initial ones.
- `DocumentPipeline`: seven runs exist (`MCStored`) and four more may be started
  (`MaxRuns = 11`), that is a whole execution of the Lab, or parts of several
  interleaved; a step test counts for three of them (`TestWeight`), so that one
  test goes on beside one other run. Two units, three reports with one duplicate
  span and one repeated value, one blank block.
- `EvaluationCampaigns`: one question is enough for the races on a number and
  two revisions for the aggregates; two runs of the campaign, five attempts, one
  crash.
- `RagRuntime`: versions of zero or two units, so that an index can be partial;
  two versions and two generations in all. Three generations were checked for
  the safety properties apart from the recorded run (610,688 states).
- `QaBenchmark`: all documents of up to four items of six kinds and of up to two
  of fourteen; two of them are asked about (`Asked`), with three questions,
  three chunks and three pages. The limits of sizes are scaled down so that one
  short text fits, two merge, and a long one is cut; `RetrievalLimit` is 3 (10 in
  the code), `JudgeTopK` 2, `CandidateLimit` 2 (5), `RrfK` the code's 60. Documents
  of six items were checked by random simulation as well.

`Runs`, `Ids`, `Documents`, `Numbers` and the `Max...` constants bound the
insertions: an action that finds no fresh row is not enabled. Deadlock is not
checked where the rows run out or each request is made once: there the model
stops because the requests are over. The theorems do not depend on the bounds.

**Symmetry** is declared on sets whose elements the modules only compare for
equality, and in no run that checks liveness.

**Fairness** is assumed of calls that have begun only; none makes a caller call,
fail or crash.

- `PerceptionStore`: weak fairness of reading on and of committing, since nothing
  in the code waits for another caller except row locks; strong fairness of
  `Store`, the step that waits for locks, because PostgreSQL queues the waiters
  of a row and the lock can be taken by others in between.
- `PipelineComposition`: weak fairness of each session's step. Whoever waits for
  a row is woken by the end of the transaction that holds it.
- `DocumentPipeline`, `EvaluationCampaigns`, `RagRuntime`: weak fairness of each
  request that is being served; calls to Ollama have timeouts (300 s), and the
  locks of a transaction are given back when it ends or its process dies.
- `QaBenchmark`: weak fairness of `QBNext`: one process.

## 5. Disagreements

Places where the code does not do what a document, a comment or a test of the
repository says, or what its own other parts rely on. The first is recorded as a
run and under `findings`; the others follow from the models by the change named.

1. **A question un-indexes a PDF** (`rag_reindex`). The chunks that a request of
   the API stores for normalized units have no link to a content block, and
   `index_document` counts all chunks of a version: called again for the file,
   it finds an incomplete index and refuses, where a test (`tests/test_indexing_complete_detection.py:130`)
   expects `already_indexed` of a version that was indexed completely.
2. **Duplicate pages** (`indexing/service.py:1600`). Two backfills of a version
   without page rows insert every page twice; the version is then `partial` for
   ever. `perception_liveness` starts there and shows that the calls return all
   the same.
3. **Two current versions** (`indexing/service.py:1709`). Two `index_document`
   calls on one file name with two contents leave two current versions; with
   only API requests as writers this cannot happen (`StoresKeepOneCurrent`). With
   `Indexers` non-empty in `VersionStores.cfg`, TLC finds it.
4. **The hash of another save** (`pipeline/persistence.py:648`). A save whose
   columns do not differ from what it loaded writes no column of the row; if
   another save commits in between, its bindings stay under the other's hash.
   With `OneAtATime = FALSE` in `PipelineSerial.cfg`, `HashMatches` fails.
5. **No save after a step test** (`pipeline/persistence.py:668`,
   `storage/models.py:2209`). A save deletes the links of the draft; the foreign
   key of an `ExecutionStep` forbids it, so a draft that was tested can no longer
   be saved. What the models show right is that the step keeps its link.
6. **Activation by the order of random keys** (`pipeline/persistence.py:831`). The
   `UPDATE`s of one flush are sorted by primary key; if the new revision's key
   sorts first, the partial unique index refuses the activation. Whatever the
   order, one revision stays active (`StaysActive`, `pipeline_serial`).
7. **Embeddings of another model** (`indexing/service.py:1384`). A refresh or a
   backfill trusts embeddings that it has not looked at. With `Embedded = FALSE`
   in `PerceptionUpgrade.cfg` a call returns "indexed" for an index that every
   later call refuses.
8. **Reactivation of the active revision** (`configuration/service.py:454`). The
   page offers activation on drafts only, the API does not refuse it. Overtaken
   by another activation, such a request retires the new revision and writes
   nothing on its own: with `Reactivation = TRUE` in `ConfigProfiles.cfg`,
   `HasActive` fails.
9. **A save after the activation** (`pipeline/persistence.py:654`). A save that
   read the draft before its activation replaces the bindings of what is now
   active; `ActiveKept` holds until an activation, and no longer.
10. **Projection, trail and selection** (`pipeline/composition.py:281`). Two
    transactions that miss each other's change (`crossed`) can commit a projection,
    or an audit trail, that is not the one of the links; nothing repairs the first
    but a later projection. The selection itself may be lost: an editor who selects
    the link that was selected when it read, after another has selected a second
    one, deselects that one and writes nothing to its own; the node is left without
    a selected link, and the audit event names one.
11. **An answer from a version that was not indexed** (`rag_runtime/factory.py:69`). If
    a version comes in between the two times that a request resolves the current
    one, the new version is indexed and the answer is looked for in the old one. It
    says `indexed_now` and has no source, though the version it indexed has units.
12. **Several rows of one model** (`rag_runtime/postgres.py:38`). Two first requests
    insert two rows of the same embedding model, and later reads take either of
    them: a search for the one without embeddings finds nothing.
13. **Completed, but interrupted** (`indexing/service.py:694`, `:846`). A perception of
    the Lab that stops at a page stays, as a completed run with the blocks of the
    pages before it and without its manifest (`LabInterrupted`).

## 6. Proofs

| Module | Theorems |
| --- | --- |
| `PerceptionStore_proofs` | `Invariance`, `TypeCorrect` (`TypeOK`), `LinksFollowPromotion` (`PromotedLinksCurrent`), `ContentFollowsChunks` (`PromotedContentMatches`), `ExperimentsStayAside`, `DoclingIdempotent`, `WholePromotions` (`PromotedTogether`), `UnitsFromPromotion` (`UnitsFollowPromotion`), `StaysComplete` (`CompleteForGood`) |
| `DocumentVersions_proofs` | `TypeCorrect` (`TypeOK`), `AlwaysCurrent`, `StoresKeepOneCurrent` (`OneCurrentVersion`), `StoresNumberUniquely`, `StoresKeepLatest`, `StoresImplementHistory` (`ImplementsHistory`) |
| `ConfigurationRevisions_proofs` | `TypeCorrect` (`TypeOK`), `OneActive` (`AtMostOneActive`), `StaysActive`, `Reproducible` (`AttemptsReproducible`), `Immutable` |
| `PipelineRevisions_proofs` | `TypeCorrect` (`TypeOK`), `BindingsWhole` (`OneComposition`), `StepLinksKept` (`StepsKeepLinks`), `SerialHashes` (`HashMatches`), `StaysActive` (`OneActive`), `ProductionViewLoads`, `ActiveKept` |
| `EvaluationCampaigns_proofs` | `TypeCorrect` (`TypeOK`), `NumbersStayDense` (`NumbersDense`), `AttemptsOwned` (`OpenAttemptsOwned`), `CampaignsSettle` (`SettledCampaigns`), `ReportsAddUp` (`ReportAccounts`) |
| `PipelineComposition_proofs` | `Invariance`, `StructureValid` (`StaysValid`), `TrailExplains` (`AuditExplains`), `TraceableSteps` (`StepsTraceable`) |
| `DocumentPipeline_proofs` | `Invariance`, `WholeChains` (`ChainWhole`), `WholeTraces` (`TraceWhole`), `OneChain` (`PageTellsOneChain`), `FiguresAgree` (`CountsAgree`), `EntitiesPart` |
| `Answers_proofs` | `Invariance`, `WholeIndexes` (`IndexWhole`), `AnswersStandOnIndex` (`AnswersFromIndex`), `BenchmarkInvHolds`, `ScoresAddUp` (`ScoresAccount`) |

In brackets the property of a run that the theorem states for all instances.

For each specification one inductive invariant `IInv`, and for each theorem that
it implies the property. The proof that a step preserves it has one case per
action. The only assumptions are the named `ASSUME`s on the constants and those
a theorem states.

**PerceptionStore_proofs.** `PromotedLinksCurrent` is not inductive: a commit
deletes the links that the transaction had selected, so one must know that those
are still all the links of the pages it promotes (`LinksReplaced`), which holds
because of the locks on the page rows (`PromotionsDisjoint`). Similarly
`PromotedContentMatches` needs that the buffered content was compared with the
stored chunks (`ContentChecked`) and that chunks never change; `DoclingStoredOnce`
needs that nobody else is between its look-up and its commit
(`DoclingExclusive`). Two more invariants are about the number of rows.
`PromotionsWhole`: a promotion covers as many rows as the version has page
numbers, so in a version with that many rows it covers them all, which gives
`PromotedTogether` from any start. `RowsKept`: a version that starts with one row
per page keeps exactly those rows, hence every refresh promotes all of them and
normalizes exactly its own blocks (`UnitsFromPromotion`), and what is complete
stays so (`StaysComplete`). These two assume `"missing" \notin StartStates`: two
backfills of a version without rows duplicate its pages (section 5,
disagreement 2), and then neither holds. `Shapes` sorts the steps into those that
read, write and publish, so that each of these proofs has few cases.

**DocumentVersions_proofs.** With both writers: a commit inserts a current row in
the document whose rows it retires (`SeenInDocument`, `DocumentsCommitted`),
hence `NeverWithoutCurrent`. With `Indexers = {}` a second invariant says that
the holder of the document's lock has seen exactly the committed versions, and
gives the one current version, unique numbers and contents, the latest version,
and the refinement of `VersionHistory` step by step.

**ConfigurationRevisions_proofs.** `AtMostOneActive` for any requests, from the
index. `HasActive` under `~Reactivation`, from what an activation is about to
write (`RetiresOthers`). `AttemptsReproducible` from `ReadsOneRevision`: what was
read so far is from the revision loaded first, whose settings do not change.
`RevisionsImmutable` from `NumbersReserved`.

**PipelineRevisions_proofs.** `SaneSave` relates the record of a save to the
tables: a save about to commit has deleted all committed rows of its revision,
no step references them, and no other save about to commit has the same target
(`Exclusive`). This gives `OneComposition` and `StepsKeepLinks` for any number of
requests of every kind. Under `OneAtATime` the row loaded is the row stored
(`SerialHashes`); under `~Reactivation` one revision is active, whatever the
order of the keys (`StaysActive`); and until an activation the targets of the
saves are drafts, so the active revision and what the view has found stay
(`ActiveKept`, `ProductionViewLoads`).

**EvaluationCampaigns_proofs.** All the safety properties of `qa_campaigns`, for any number
of runs, vector questions, campaigns and revisions. The invariant says of a run
that has read a number that it is at most one past the attempts of its question
(`SaneJob`), so that a number which the unique constraint still lets in is the
next one: `NumbersDense`, with the lemma `NewRow` on the cardinality of the
attempts of a question. `OpenAttemptsOwned` needs that an attempt has one owner
(`OneOwner`: two calls never answer the same attempt, nor one that a dead process
left). `SettledCampaigns` needs `WillSettle`: of a campaign that says "running",
some run is still to end which does not believe it completed already, because a
run forgets what it has seen with each commit. Arithmetic on the items of a plan
(`QuotientBound`) shows that an item which is not over has a question and a
revision. `ReportAccounts` has an invariant of its own, `Accounts`: because the plan
lists the items of one revision after those of the other, of `d` items that are
over a fixed number belongs to the k-th revision (`Over`, `OverStep`), and the
completed results and the errors of a revision are that many (`Tally`). It holds
across the steps of others since no call ends or reopens an attempt that it does
not own (`EndedRowsKept`, from `OpenAttemptsOwned`) and a plan that a run may have
read is never rewritten (`PlansKept`).

**PipelineComposition_proofs.** Any number of editors, bindings, nodes and edits.
`RowsOK` is what the constraints promise of the rows, for validation. That two
selected links of a node cannot meet needs more: a transaction that has written
holds its rows and its entry of the index alone (`Apart`), and with the rows it
has written, laid over those stored, a node has one selected link (`Chosen`),
which stays true when another transaction commits because of `Apart`. What
`StaysValid` and `AuditExplains` say of a commit is carried by `Fits`: a
transaction that no commit has overtaken has in its view the rows as it will
leave them, writes what its audit event will tell (`Tells`: a selection writes
the chosen link, and of the others only the selection), has found the rows of the
projected table that are stored, and then replaces them by the projection of the
links as it leaves them (`ProjectionOf`). A commit makes every other transaction
either late or independent of what it wrote (`CommittedOthers`). `TraceableSteps` has an
invariant of its own, `TInv`: the link of a step that is recorded or committed is
there and nobody is removing it (`Held`), which a removal cannot change because it
waits for the one and fails for the other, and no other edit deletes a row; and
what a step test has read of its binding stays true, since its node, capability
and component do not change. `CompositionAssumption` makes the bindings and
nodes finite; `BackfillAssumption` says of the links that the migration leaves
what the constraints and its single, empty configuration give.

**DocumentPipeline_proofs.** Each executing session has drawn numbers that nobody
else has, and its uncommitted runs are described by what it knows: `LabOK` says
that an execution has one run for each stage it is past, each made from the run
of the stage before, in a group that no committed run has; `ExperimentOK` that a
discovery was made from a committed normalization and is later than every
resolution of the group it joins; `TestOK` that a step test has one running trace
and, once run, one resolution of exactly its inputs. `Chained` and `Grouped` say
it of the committed runs; that an interrupted perception names no manifest does
not matter to them, since no run follows it (`Alone`). `Grouped` is what `PageTellsOneChain` needs: the page
shows the first discovery of a group, and because an experiment joins a group
only after the execution that made it has ended, a resolution of the group was
made from an earlier discovery than any experiment's (`OneChain`, by the minimum
of a set of numbers, `FirstIs`). `EntitiesPart` is about `Entities` itself: the
rows of a resolution partition its scope, whatever the types and values.

`CountsAgree` needs a second invariant, `RowsOK`, on top of `IInv`: `Held` says of
every committed run, and `Fits` of every run that a session still holds, that it
has finitely many rows and that its metrics are the sizes of the sets they name.
A sum over units or groups is never folded: `Total` is the size of a disjoint
union (`TotalIs`), so that it is compared with the number of rows by a bijection
(`SameSize`). The step that is not obvious is the discovery's: the accepted
reports of a unit are those that no earlier report repeats, so that spans and
accepted reports correspond one to one by the first report on each span
(`FirstReport`, `Numbering`). `ComparedIs` shows for any two discoveries that each
value has exactly one kind of change, and that the kinds which compare two counts
are about values of both.

In both proofs the lemmas `...Kept` say that what a session knows survives the
commits of the others, because numbers are never reused. `ProcessesAssumption`
names the three kinds of sessions apart; `StoredAssumption` says of the stored
runs what this module proves of every run it adds (except `Detected`, as the
detectors may have been others then), so that the theorems hold after any
earlier executions. `DetectionsAssumption` says that a reading gives finitely
many blocks, on each of which the detectors answer with a list.

**Answers_proofs, RagRuntime.** `IndexWhole` speaks of the chunks of a version, whoever has
written them. The invariant (`WholeFirst`) says which generation they are: the
first one of the version that has units. `Progress` says of a request that
writes that the units it has taken from its queue, which holds those of the
first generations, have distinct positions and each its chunk and embedding,
stored or about to be; so a queue that is emptied was of one generation only.
The position check and the one commit at the end of a write suffice; that a
writer waits for the other's keys decides who fails and is not used.
`AnswersStandOnIndex` needs in addition what a session knows of the version that it
asks about (`AnswerOK`): a request that comes to its question has found, or
committed, chunks of it, and what a search gives are chunks of its version with
the id of a unit. Both stay true because chunks are never deleted, and by
`WholeFirst` such chunks are the whole generation.

**Answers_proofs, QaBenchmark.** `ScoresAccount` speaks of the moments between two
questions; in the midst of one its parts are ahead of each other. `BenchmarkInv`
says by how much: the classic benchmark scores the ranks when it has asked
(`Heard`), the others when they count, and the matrix has the verdict from the
judge's reply on (`Settled`). The lemmas `ScoreAdds`, `GateAdds` and `GateErrs`
say that one call of `add_rank` or of `AnswerabilityMetrics.add`, or one error,
is one observation more, in terms of `Tally`, which counts the observations in a
set. That the printed lists are as long as the matrix says (`ReportKeeps`) rests
on two facts: a question is asked once, so that the questions of a list are as
many as its observations (`HavingTally`), and evidence is judged only where
question and judge say yes (`Fair`), so that the two lists share none. The proof
uses of a search only that its result is a list: the ranks are natural numbers
(`RanksAreNumbers`), whatever the order.

**Checked by TLC only.** `CorporaWhole` and `FusionFair`: they are about what
sorting, splitting and ranking make of a corpus, operators that are folds or
choose a sorted sequence, so that to prove them takes induction over data. And
the liveness properties, which are out of the prover's reach. Every other
property of a passing run is stated by a theorem.


## 7. Not modelled

- *Cleaning, chunking, deduplication, lexical scoring, readability, OCR, detectors*:
  decisions about words and pixels. With texts as lengths or model values nothing
  of them would be left; their results are constants of the modules that store
  them (`Segmentations`, `Detections`, `Nearness`, `Chunks`).
- *Docling's and Ollama's services, the database server*: external. They answer or
  fail in every way that the callers distinguish.
- *Resources, credentials, sanitization*: single-row requests and string rules; the
  audit record of an edit is modelled where it matters, in `PipelineComposition`.
- *Bootstrap of templates and of the catalogue, migrations*: scripts that run
  alone. What they leave is the initial state of the models.
- *Ingestors other than plain text*: parsers of a file into units, without state.
- *Provenance and production readers, pages, JSON payloads, tracing*: queries and
  presentation, except where a property is about what they show.

## 8. Plan

The four stores, the composition, the chain of runs, the campaigns, the answers
and the experiments are modelled. What would be next, in this order:

1. Content units of the ingestors, as further writers of `RagRuntime`'s table.
2. Resources with their credentials and audit record.

The number of runs is kept near a dozen: one per module and distinct question,
and runs of a module are merged when one instance can answer both questions.
