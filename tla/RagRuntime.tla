----------------------------- MODULE RagRuntime -----------------------------
(***************************************************************************)
(* Answering a question about a document (rag_runtime/, rag/orchestrator,  *)
(* embeddings/).  A request of the API (api/rag.py) selects the current    *)
(* version, looks whether its normalized units are indexed, indexes them   *)
(* if not (one chunk and one embedding per unit), commits, retrieves and   *)
(* generates.  A campaign (qa/rag_execution.py) only retrieves and         *)
(* generates.  Meanwhile a new version of the document may come in, the    *)
(* Lab may normalize a version again, and index_document may be called     *)
(* again for a file whose own index, of semantic chunks, shares the table. *)
(*                                                                         *)
(* A transaction sees what is committed, and its own rows; inserting a key *)
(* that another open transaction has inserted waits for its end.  Left     *)
(* out: what the texts say, scores, and the events for an observer, which  *)
(* the API does not give.                                                  *)
(***************************************************************************)
EXTENDS Naturals, FiniteSets, Sequences

CONSTANTS
    Requests,        \* calls of answer_question
    Attempts,        \* executions of a campaign's question
    Kinds,           \* of the document: "txt", or "pdf", which indexing stores
    Semantic,        \* number of semantic chunks of a PDF version
    Sizes,           \* numbers of units that a normalization can give
    TopK,            \* rag.retrieval.top_k of the active configuration
    MaxVersions, MaxGenerations   \* bounds

ASSUME RagAssumption ==
    /\ Requests \cap Attempts = {}
    /\ "indexing" \notin Requests \cup Attempts
    /\ Semantic \in Nat \ {0} /\ TopK \in Nat \ {0} /\ Sizes \subseteq Nat

Sessions == Requests \cup Attempts

VARIABLES
    kind,        \* the document's kind
    generations, \* for each version, the sizes of its generations of units
    chunks,      \* committed DocumentChunk rows
    models,      \* committed EmbeddingModel rows, named by who inserted them
    embedded,    \* committed ChunkEmbedding rows: <<chunk, model>>
    job          \* what each session is doing

vars == <<kind, generations, chunks, models, embedded, job>>

Versions == 1 .. Len(generations)
\* The last version stored is the current one (see DocumentVersions).
Current == Len(generations)

\* A unit is <<version, generation, unit_index>>; its chunk has the same id.
Generation(v, g) == {<<v, g, i>> : i \in 0 .. generations[v][g] - 1}
UnitsOf(v) == UNION {Generation(v, g) : g \in DOMAIN generations[v]}
SemanticChunks(v) == {<<v, 0, i>> : i \in 0 .. Semantic - 1}
ChunksOf(v) == {c \in chunks : c[1] = v}
\* The strategy "normalized-content-unit", whose chunks have a unit's id.
NormalizedChunks(v) == {c \in ChunksOf(v) : c[2] # 0}

NewJob == [phase |-> "idle", version |-> 0, target |-> 0, model |-> "none",
           seen |-> {}, queue |-> {}, position |-> 0, unit |-> <<>>, writes |-> {},
           indexed_now |-> FALSE, sources |-> {}, outcome |-> "none"]

Init ==
    /\ kind \in Kinds
    /\ \E n \in Sizes : generations = <<<<n>>>>
    /\ chunks = IF kind = "pdf" THEN SemanticChunks(1) ELSE {}
    /\ models \in {{"indexing"}} \cup (IF kind = "txt" THEN {{}} ELSE {})
    /\ embedded = chunks \X models
    /\ job = [s \in Sessions |-> NewJob]

-----------------------------------------------------------------------------
\* The steps of a session.

Stored == <<kind, generations, chunks, models, embedded>>
At(s, phase) == job[s].phase = phase
Update(s, j) == job' = [job EXCEPT ![s] = j]
Goto(s, phase) == Update(s, [job[s] EXCEPT !.phase = phase])
\* An exception, which the API answers with 400 if it is a ValueError, else with
\* 500: the session is rolled back, its rows are gone and its keys free.
FailHolding(s) ==      \* mutant: the session is not rolled back
    Update(s, [NewJob EXCEPT !.phase = "done", !.outcome = "failed", !.writes = job[s].writes])
Fail(s) == Update(s, [NewJob EXCEPT !.phase = "done", !.outcome = "failed"])

\* create_normalized_rag_runtime: the configuration is read and provide is
\* called once to learn the version, which must have units.  The question of a
\* campaign may name a version instead of the document.
Create(s) ==
    /\ At(s, "idle")
    /\ \/ \E v \in IF s \in Attempts THEN Versions ELSE {Current} :
             IF UnitsOf(v) = {} THEN Fail(s)
             ELSE Update(s, [job[s] EXCEPT !.version = v,
                                           !.phase = IF s \in Attempts THEN "query" ELSE "check"])
       \/ Fail(s)     \* a setting is missing or not supported
    /\ UNCHANGED Stored

\* normalized_version_is_indexed, its first reads: the active model and the
\* units.  Without an ORDER BY, any row of the model may come first.
CheckUnits(s) ==
    /\ At(s, "check")
    /\ IF models = {} THEN Goto(s, "source")
       ELSE \E m \in models :
               Update(s, [job[s] EXCEPT !.phase = "compare", !.model = m,
                                        !.seen = UnitsOf(job[s].version)])
    /\ UNCHANGED Stored

IsIndexedInPart(v, units, m) ==    \* mutant: a part of the units suffices
    NormalizedChunks(v) \subseteq units
IsIndexed(v, units, m) ==
    /\ NormalizedChunks(v) = units
    /\ units \X {m} \subseteq embedded

\* Then the chunks and their embeddings.
CheckChunks(s) ==
    /\ At(s, "compare")
    /\ Update(s, [job[s] EXCEPT !.seen = {}, !.model = "none",
           !.phase = IF IsIndexed(job[s].version, job[s].seen, job[s].model)
                     THEN "query" ELSE "source"])
    /\ UNCHANGED Stored

\* index calls provide a second time, with the reference to the document.
Target(s) == Current
Source(s) ==
    /\ At(s, "source")
    /\ LET v == Target(s) IN
         IF UnitsOf(v) = {} THEN Fail(s)
         ELSE Update(s, [job[s] EXCEPT !.phase = "embed", !.target = v, !.queue = UnitsOf(v)])
    /\ UNCHANGED Stored

\* _get_or_create_embedding_model
ModelsFor(s) == IF models = {} THEN {s} ELSE models

\* Ollama fails or embeds every unit; write then takes or creates the model.
Embed(s) ==
    /\ At(s, "embed")
    /\ \/ Fail(s)
       \/ \E m \in ModelsFor(s) :
             Update(s, [job[s] EXCEPT !.phase = "write", !.model = m])
    /\ UNCHANGED Stored

\* write takes the records in the order of unit_index; which of two equal ones
\* comes first is open.
First(units) == {u \in units : \A o \in units : u[3] <= o[3]}
\* The unit has its chunk and its embedding: the next one.
Written(j) ==
    [j EXCEPT !.phase = "write", !.position = @ + 1, !.queue = @ \ {j.unit}, !.unit = <<>>]

\* A unit whose index is not its position ends everything.  Otherwise its
\* chunk is looked up, and its embedding if the chunk is there.
InPlaceUnchecked(s, u) == TRUE     \* mutant: the order of the records is not checked
InPlace(s, u) == u[3] = job[s].position

WriteUnit(s) ==
    /\ At(s, "write")
    /\ \E u \in First(job[s].queue) :
         LET found == [job[s] EXCEPT !.unit = u] IN
         \/ ~ InPlace(s, u) /\ Fail(s)
         \/ /\ InPlace(s, u) /\ u \notin chunks
            /\ Update(s, [found EXCEPT !.phase = "insert_chunk"])
         \/ /\ InPlace(s, u) /\ u \in chunks /\ <<u, job[s].model>> \notin embedded
            /\ Update(s, [found EXCEPT !.phase = "insert_embedding"])
         \/ /\ InPlace(s, u) /\ <<u, job[s].model>> \in embedded
            /\ Update(s, Written(found))
    /\ UNCHANGED Stored

\* Does another open transaction hold the key of the chunk, of the embedding?
HoldsChunk(o, u) == u \notin chunks /\ \E w \in job[o].writes : w[1] = u
HoldsEmbedding(o, u, m) == <<u, m>> \in job[o].writes

Insert(s) ==
    Update(s, [Written(job[s]) EXCEPT !.writes = @ \cup {<<job[s].unit, job[s].model>>}])

\* The chunk was not there: it is inserted with its embedding, unless another
\* transaction has committed it by now (IntegrityError).
InsertChunk(s) ==
    /\ At(s, "insert_chunk")
    /\ \A o \in Sessions \ {s} : ~ HoldsChunk(o, job[s].unit)
    /\ IF job[s].unit \in chunks THEN Fail(s) ELSE Insert(s)
    /\ UNCHANGED Stored

\* The chunk was there without the embedding, which is inserted likewise.
InsertEmbedding(s) ==
    /\ At(s, "insert_embedding")
    /\ \A o \in Sessions \ {s} : ~ HoldsEmbedding(o, job[s].unit, job[s].model)
    /\ IF <<job[s].unit, job[s].model>> \in embedded THEN Fail(s) ELSE Insert(s)
    /\ UNCHANGED Stored

\* mutant: the rows of the index are left to the session, uncommitted
CommitNothing(s) ==
    /\ At(s, "write") /\ job[s].queue = {}
    /\ Update(s, [job[s] EXCEPT !.phase = "query", !.indexed_now = TRUE])
    /\ UNCHANGED Stored
\* answer_question commits the index before it asks for the answer.
Commit(s) ==
    /\ At(s, "write") /\ job[s].queue = {}
    /\ chunks' = chunks \cup {w[1] : w \in job[s].writes}
    /\ embedded' = embedded \cup job[s].writes
    /\ models' = models \cup {job[s].model}
    /\ Update(s, [job[s] EXCEPT !.phase = "query", !.indexed_now = TRUE, !.writes = {},
                                !.model = "none", !.position = 0])
    /\ UNCHANGED <<kind, generations>>

\* Chunks of the version, whatever their strategy: top_k at most, before the
\* others than normalized ones are left out.  The search goes through an
\* approximate index on the embeddings of all documents and models, and keeps
\* those of the version and the model from what the index gives: it can find
\* fewer than there are, or none.
Nearest(v, m) ==
    LET found == {c \in ChunksOf(v) : <<c, m>> \in embedded}
    IN {near \in SUBSET found : Cardinality(near) <= TopK}

\* The candidates: near chunks that have the id of a unit of the version.
Candidates(near, v) == near \cap UnitsOf(v)

Retrieve(s) ==
    /\ At(s, "query")
    /\ \/ Fail(s)                                     \* embed_query, or the search
       \/ models = {} /\ Fail(s)
       \/ \E m \in models : \E near \in Nearest(job[s].version, m) :
             Update(s, [job[s] EXCEPT !.phase = "generate",
                                      !.sources = Candidates(near, job[s].version)])
    /\ UNCHANGED Stored

\* The ranked context is given to the generator even when it has no source.
Generate(s) ==
    /\ At(s, "generate")
    /\ \/ Fail(s)
       \/ Update(s, [job[s] EXCEPT !.phase = "done", !.outcome = "answered"])
    /\ UNCHANGED Stored

\* The process of the session stops.
Crash(s) ==
    /\ job[s].phase \notin {"idle", "done"}
    /\ Fail(s)
    /\ UNCHANGED Stored

Step(s) ==
    \/ CheckUnits(s) \/ CheckChunks(s) \/ Source(s) \/ Embed(s) \/ WriteUnit(s)
    \/ InsertChunk(s) \/ InsertEmbedding(s) \/ Commit(s) \/ Retrieve(s) \/ Generate(s)

-----------------------------------------------------------------------------
\* What happens to the document meanwhile.

Total == Cardinality({p \in Versions \X (1 .. MaxGenerations) : p[2] \in DOMAIN generations[p[1]]})

\* A new file content: its version is current, with the units of one
\* normalization; indexing a PDF stores its semantic chunks as well.
NewVersion ==
    /\ Current < MaxVersions /\ Total < MaxGenerations
    /\ LET stored == IF kind = "pdf" THEN SemanticChunks(Current + 1) ELSE {}
       IN /\ chunks' = chunks \cup stored
          /\ embedded' = embedded \cup (stored \X models)
    /\ \E n \in Sizes : generations' = Append(generations, <<n>>)
    /\ UNCHANGED <<kind, models, job>>

\* The Lab normalizes a version again: a generation of units of a new run.
Normalize ==
    \E v \in Versions : \E n \in Sizes :
        /\ Total < MaxGenerations
        /\ generations' = [generations EXCEPT ![v] = Append(@, n)]
        /\ UNCHANGED <<kind, chunks, models, embedded, job>>

\* index_document is called for a stored PDF version.  All chunks count: their
\* indices must be 0, 1, ..., and each needs an embedding and a link to a
\* current block, which a chunk of a normalized unit never has.
IndexState(v, m) ==
    LET rows == ChunksOf(v) IN
    IF rows = {} THEN "chunks_missing"
    ELSE IF {c[3] : c \in rows} # 0 .. Cardinality(rows) - 1 THEN "chunks_incomplete"
    ELSE IF ~ (rows \X {m} \subseteq embedded) THEN "embeddings_incomplete"
    ELSE IF NormalizedChunks(v) # {} THEN "content_block_links_incomplete" ELSE "complete"

Next ==
    \/ \E s \in Sessions : Create(s) \/ Step(s) \/ Crash(s)
    \/ NewVersion
    \/ Normalize

Spec == Init /\ [][Next]_vars
\* A request that has begun goes on: it waits for Ollama with a timeout.
FairSpec == Spec /\ \A s \in Sessions : WF_vars(Step(s))

-----------------------------------------------------------------------------
\* The index of a version: the chunks of one generation of its units, which all
\* have an embedding of one model.
Whole(v) ==
    \E g \in DOMAIN generations[v] : \E m \in models :
        /\ Generation(v, g) # {} /\ NormalizedChunks(v) = Generation(v, g)
        /\ Generation(v, g) \X {m} \subseteq embedded

\* The chunks of a version's normalized units are none, or those of one whole
\* generation, each with an embedding of the same model: an index is stored
\* whole, though requests write it unit by unit, beside each other, while the
\* Lab normalizes again (PostgresVectorIndexStore.write, answer_question).
IndexWhole == \A v \in Versions : NormalizedChunks(v) = {} \/ Whole(v)

\* A request only answers when an index is committed, whole: of the version it
\* has found indexed, or of the one that it says it has indexed now.  And an
\* answer never mixes normalizations: all its sources are of the generation
\* that the index of its version is made of, however often the Lab normalizes
\* that version, new versions come in and requests fail half-way meanwhile
\* (answer_question, normalized_version_is_indexed, retrieve).
AnswersFromIndex ==
    \A s \in Sessions :
        LET j == job[s] IN
        /\ s \in Requests /\ j.outcome = "answered" =>
              Whole(IF j.indexed_now THEN j.target ELSE j.version)
        /\ j.sources # {} => Whole(j.version) /\ j.sources \subseteq NormalizedChunks(j.version)

\* A request ends, also when it waits for the rows of another one that fails
\* or whose process stops (answer_question, InsertChunk).
RequestsEnd == \A s \in Sessions : ~ At(s, "idle") ~> At(s, "done")

\* A PDF version that has been indexed stays indexed: called again for its
\* file, index_document finds a complete index (already_indexed).
StaysIndexed ==
    kind = "pdf" => \A v \in Versions : \A m \in models : IndexState(v, m) = "complete"
=============================================================================
