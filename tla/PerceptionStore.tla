--------------------------- MODULE PerceptionStore ---------------------------
(***************************************************************************)
(* The perception generations of ONE DocumentVersion row, and the three    *)
(* kinds of transactions that write them:                                  *)
(*   - index_document (indexing/service.py) on a version that already      *)
(*     exists: it looks at the stored state in a first transaction, reads  *)
(*     and cuts the file with no transaction open, looks again in a second *)
(*     transaction and then backfills, enriches or refreshes;              *)
(*   - the Pipeline Lab (pipeline/runtime.py): store_document_perception   *)
(*     with activate_as_current = False;                                   *)
(*   - Docling (indexing/docling.py): a non-current perception, stored     *)
(*     under SELECT ... FOR UPDATE of the version row.                     *)
(* The database runs READ COMMITTED: a transaction sees what is committed  *)
(* when each statement runs, and its own writes (its "tx") only become     *)
(* visible at commit.  An UPDATE of a Page row locks it until then.        *)
(***************************************************************************)
EXTENDS Integers, FiniteSets

CONSTANTS
    Indexers,       \* processes calling index_document on this version's file
    Labs,           \* processes executing a Pipeline Lab experiment
    Doclings,       \* processes storing a Docling conversion
    Runs,           \* the ProcessingRun rows that can ever be inserted (bound)
    NoRun,          \* NULL for a foreign key to ProcessingRun
    PageNos,        \* page numbers of the file, 1 .. page_count
    TextPages,      \* the pages that carry text, hence chunks and units
    Segmentations,  \* results that reading and chunking the file can give
    DoclingDocs,    \* Docling JSON documents of the file (their fingerprints)
    Covers,         \* the pages on which a Docling document has blocks
    NoContent,      \* no chunk rows, or no content recorded
    Embedded,       \* do the chunks have embeddings of the current model?
    StartStates     \* perception states the version may start in

Processes == Indexers \cup Labs \cup Doclings

ASSUME ProcessesDisjoint ==
    /\ Indexers \cap Labs = {}
    /\ Indexers \cap Doclings = {}
    /\ Labs \cap Doclings = {}
ASSUME NullValues == NoRun \notin Runs /\ NoContent \notin Segmentations
ASSUME PagesAssumption ==
    /\ IsFiniteSet(PageNos)
    /\ TextPages \subseteq PageNos
    /\ TextPages # {}
ASSUME CoversAssumption == Covers \in [DoclingDocs -> SUBSET PageNos]
ASSUME EmbeddedAssumption == Embedded \in BOOLEAN

\* A Page row: its page_number and the run whose transaction inserted it.
\* Two transactions that insert the same page leave two distinct rows.
Row == [no : PageNos, by : Runs]
\* A ContentBlock, up to its position on the page: its run and its Page row.
Block == Runs \X Row
\* A ChunkContentBlock: the chunk (named by its source page) and the block.
Link == TextPages \X Block

PerceptionStates ==
    {"missing", "partial", "page_metadata_missing", "perception_stale", "complete"}
\* The states index_document repairs: missing is the backfill, the metadata
\* state the enrichment and the stale state the refresh.
Repairable == {"missing", "page_metadata_missing", "perception_stale"}
ASSUME StartAssumption == StartStates \subseteq PerceptionStates \ {"partial"}

VARIABLES
    \* -- committed rows ------------------------------------------------------
    kind,       \* ProcessingRun: "unused", "legacy" (an older perception
                \* version), "reader", "lab" or "docling"
    content,    \* what a run perceived (history variable)
    pages,      \* the Page rows of the version
    described,  \* the rows whose size, readability and mode are filled in
    current,    \* Page.perception_processing_run_id
    blocks,     \* ContentBlock rows
    chunks,     \* the stored DocumentChunk texts, as a segmentation
    links,      \* ChunkContentBlock rows
    units,      \* source blocks of the latest production normalization run
    \* -- processes -----------------------------------------------------------
    job,        \* the open call of each process, with its uncommitted writes
    outcome     \* what the last index_document call of an indexer returned

store == <<kind, content, pages, described, current, blocks, chunks, links, units>>
vars == <<store, job, outcome>>

(***************************************************************************)
(* Reading the committed state.                                            *)
(***************************************************************************)

\* Runs of the current reader and version; a lab run cannot be told from a
\* production run by engine and engine_version.
ReaderRuns == {r \in Runs : kind[r] \in {"reader", "lab"}}

\* One row per page number, as many rows as version.page_count.
WellNumbered(rows) ==
    /\ Cardinality(rows) = Cardinality(PageNos)
    /\ {p.no : p \in rows} = PageNos

PerceptionFresh ==
    /\ \A p \in pages : current[p] \in ReaderRuns
    /\ \A p \in pages : \E r \in ReaderRuns : <<r, p>> \in blocks

get_perception_storage_state ==
    IF pages = {} THEN "missing"
    ELSE IF Cardinality(pages) # Cardinality(PageNos) THEN "partial"
    ELSE IF ~ (pages \subseteq described) THEN "page_metadata_missing"
    ELSE IF ~ PerceptionFresh THEN "perception_stale"
    ELSE "complete"

CurrentBlocks == {b \in blocks : b[2] \in pages /\ b[1] = current[b[2]]}

\* get_index_storage_state(...) = "complete".
IndexComplete ==
    /\ chunks # NoContent
    /\ Embedded
    /\ \A n \in TextPages : \E b \in CurrentBlocks : <<n, b>> \in links

Complete == get_perception_storage_state = "complete" /\ IndexComplete

(***************************************************************************)
(* Jobs: a process's phase and the buffered writes of its transaction.     *)
(*   "read"    index_document: first transaction over, reading the file    *)
(*   "checked" index_document: second transaction, state re-read           *)
(*   "stored"  rows written and flushed, not committed                     *)
(***************************************************************************)
Idle == [phase |-> "idle", mode |-> "none", content |-> NoContent,
         run |-> NoRun, rows |-> {}, dropped |-> {}, units |-> {}]

Job == [phase   : {"idle", "read", "checked", "stored"},
        mode    : Repairable \cup {"none"},
        content : Segmentations \cup DoclingDocs \cup {NoContent},
        run     : Runs \cup {NoRun},
        rows    : SUBSET Row,
        dropped : SUBSET Link,
        units   : SUBSET Block]

Stored(x) == job[x].phase = "stored"

FreshRuns == {r \in Runs : kind[r] = "unused" /\ \A x \in Processes : job[x].run # r}

NewRows(r, numbers) == {[no |-> n, by |-> r] : n \in numbers}

\* The blocks and links that run r writes on rows ps.
BlocksOf(r, ps) == {<<r, p>> : p \in ps}
LinksOf(r, ps) == {<<p.no, <<r, p>>>> : p \in {q \in ps : q.no \in TextPages}}
WithText(bs) == {b \in bs : b[2].no \in TextPages}

\* Docling's FOR UPDATE of the version row conflicts with the FOR KEY SHARE
\* that every insert referencing the version takes, both ways.
VersionRowLocked == \E d \in Doclings : Stored(d)
VersionRowFree(x) == \A y \in Processes \ {x} : ~ Stored(y)
\* mutant: the rows are locked from the second look at the state on
PagesLockedEarly(w, rows) ==
    \E x \in Indexers \ {w} : job[x].phase \in {"checked", "stored"}
\* Another refresh or enrichment has updated one of these Page rows.
PagesLocked(w, rows) ==
    \E x \in Indexers \ {w} : Stored(x) /\ job[x].rows \cap rows # {}

-----------------------------------------------------------------------------
(***************************************************************************)
(* Where a deployment can start: the version predates the perception       *)
(* tables ("missing"), or has rows of an older reader, with or without a   *)
(* recorded run, or was indexed by the current one.                        *)
(***************************************************************************)
InitRows(state, r, recorded) ==
    /\ kind = [x \in Runs |-> IF x # r THEN "unused"
                              ELSE IF state = "complete" THEN "reader" ELSE "legacy"]
    /\ content = [x \in Runs |-> IF x = r THEN chunks ELSE NoContent]
    /\ pages = NewRows(r, PageNos)
    /\ described = IF state = "page_metadata_missing" THEN {} ELSE pages
    /\ current = [p \in Row |-> IF p \in pages /\ recorded THEN r ELSE NoRun]
    /\ blocks = BlocksOf(r, pages)
    /\ links = LinksOf(r, pages)
    /\ units = IF recorded THEN WithText(blocks) ELSE {}

InitMissing ==
    /\ kind = [x \in Runs |-> "unused"]
    /\ content = [x \in Runs |-> NoContent]
    /\ pages = {} /\ described = {} /\ blocks = {} /\ links = {} /\ units = {}
    /\ current = [p \in Row |-> NoRun]

Init ==
    /\ chunks \in Segmentations
    /\ \E state \in StartStates :
         IF state = "missing" THEN InitMissing
         ELSE \E r \in Runs, recorded \in BOOLEAN :
                /\ state = "complete" => recorded
                /\ InitRows(state, r, recorded)
    /\ job = [x \in Processes |-> Idle]
    /\ outcome = [w \in Indexers |-> "none"]

(***************************************************************************)
(* index_document.                                                         *)
(***************************************************************************)

\* The call ends: its session is closed, nothing it buffered is kept.
Return(w, result) ==
    /\ job' = [job EXCEPT ![w] = Idle]
    /\ outcome' = [outcome EXCEPT ![w] = result]

\* The version is complete: _validated_index_chunk_count either confirms
\* that the index is too, or raises.
AlreadyIndexed(w) ==
    /\ get_perception_storage_state = "complete"
    /\ Return(w, IF IndexComplete THEN "already_indexed" ELSE "error")

\* First transaction: decide what the call has to do.
Inspect(w) ==
    /\ job[w].phase = "idle"
    /\ \/ AlreadyIndexed(w)
       \/ get_perception_storage_state = "partial" /\ Return(w, "error")
       \/ /\ get_perception_storage_state \in Repairable
          /\ job' = [job EXCEPT ![w] = [@ EXCEPT
                !.phase = "read", !.mode = get_perception_storage_state]]
          /\ outcome' = [outcome EXCEPT ![w] = "none"]
    /\ UNCHANGED store

\* The file has been read and cut into chunks c; the second transaction
\* opens and reads the state again.  A refresh compares c with the stored
\* chunks before it writes anything.
Recheck(w, c) ==
    /\ job[w].phase = "read"
    /\ \/ AlreadyIndexed(w)
       \/ /\ get_perception_storage_state \notin {"complete", job[w].mode}
          /\ Return(w, "error")
       \/ /\ get_perception_storage_state = job[w].mode
          /\ job[w].mode = "perception_stale" /\ c # chunks
          /\ Return(w, "error")
       \/ /\ get_perception_storage_state = job[w].mode
          /\ job[w].mode = "perception_stale" => c = chunks
          /\ job' = [job EXCEPT ![w] = [@ EXCEPT !.phase = "checked", !.content = c]]
          /\ UNCHANGED outcome
    /\ UNCHANGED store

\* The rows the new perception is written on: fresh ones for a backfill,
\* the stored ones otherwise.
TargetRows(w, r) == IF job[w].mode = "missing" THEN NewRows(r, PageNos) ELSE pages

PageCountMatches(w) == job[w].mode # "missing" => WellNumbered(pages)

ChunksMatchUnchecked(w) == TRUE    \* mutant: chunks are not compared
\* Chunk by chunk, the stored text is the text that was just cut.
ChunksMatch(w) == chunks = job[w].content

ReplacedLinksKept == {}    \* mutant: links are added, none deleted
\* All links of the stored chunks are selected and deleted, one chunk at a time.
ReplacedLinks == links

\* mutant: normalization before the promotion
NormalizedBlocksStale(r, rows) == WithText(CurrentBlocks)

\* normalize: the blocks of each page's current run, in the view of the
\* transaction that has just promoted run r on these rows.
NormalizedBlocks(r, rows) ==
    WithText(BlocksOf(r, rows) \cup {b \in CurrentBlocks : b[2] \notin rows})

\* Perception, links and normalization, flushed in this order.
Store(w) ==
    /\ job[w].phase = "checked"
    /\ ~ VersionRowLocked
    /\ PageCountMatches(w)
    /\ ChunksMatch(w)
    /\ \E r \in FreshRuns :
         /\ ~ PagesLocked(w, TargetRows(w, r))
         /\ job' = [job EXCEPT ![w] =
              [@ EXCEPT !.phase = "stored",
                        !.run = r,
                        !.rows = TargetRows(w, r),
                        !.dropped = ReplacedLinks,
                        !.units = NormalizedBlocks(r, TargetRows(w, r))]]
    /\ UNCHANGED <<store, outcome>>

\* The page count, the chunk count or a chunk's text is not what the writes
\* need: RuntimeError, and the transaction is rolled back.
StoreRefused(w) ==
    /\ job[w].phase = "checked"
    /\ ~ PageCountMatches(w) \/ ~ ChunksMatch(w)
    /\ Return(w, "error")
    /\ UNCHANGED store

\* mutants: the Lab promotes too; pages without text are not promoted
PromotedByLab(x, k) == IF k \in {"reader", "lab"} THEN job[x].rows ELSE {}
PromotedText(x, k) ==
    IF k = "reader" THEN {p \in job[x].rows : p.no \in TextPages} ELSE {}

\* activate_as_current is left at its default by index_document only.
Promoted(x, k) == IF k = "reader" THEN job[x].rows ELSE {}

\* mutants: a promotion describes the rows it would have inserted, or none
DescribedInserted(x, k) == IF k = "docling" THEN {} ELSE NewRows(job[x].run, PageNos)

\* The page description is written with the promotion, and on the rows that
\* the reader inserts; Docling's rows keep readability_status "unknown".
Described(x, k) ==
    IF k = "docling" THEN {}
    ELSE Promoted(x, k) \cup {p \in job[x].rows : p.by = job[x].run}

\* What a committed perception of kind k leaves in the tables.
CommitPerception(x, k) ==
    LET r == job[x].run IN
    /\ kind' = [kind EXCEPT ![r] = k]
    /\ content' = [content EXCEPT ![r] = job[x].content]
    /\ pages' = pages \cup job[x].rows
    /\ described' = described \cup Described(x, k)
    /\ current' = [p \in Row |-> IF p \in Promoted(x, k) THEN r ELSE current[p]]
    /\ blocks' = blocks \cup BlocksOf(r, job[x].rows)
    /\ UNCHANGED chunks

Commit(w) ==
    /\ Stored(w)
    /\ CommitPerception(w, "reader")
    /\ links' = (links \ job[w].dropped) \cup LinksOf(job[w].run, job[w].rows)
    /\ units' = job[w].units
    /\ Return(w, "indexed")

\* Any exception in the file reading, the models or a statement, or the death
\* of the process: PostgreSQL rolls the open transaction back.
Fail(w) ==
    /\ job[w].phase # "idle"
    /\ Return(w, "error")
    /\ UNCHANGED store

(***************************************************************************)
(* Pipeline Lab: perception and explicit normalization of that perception  *)
(* in one transaction; the current perception is left alone.  The view     *)
(* commits even when a later stage of the experiment fails.                *)
(***************************************************************************)
LabStore(l, c) ==
    /\ job[l].phase = "idle"
    /\ ~ VersionRowLocked
    /\ pages # {} => WellNumbered(pages)
    /\ \E r \in FreshRuns :
         job' = [job EXCEPT ![l] =
           [Idle EXCEPT !.phase = "stored", !.run = r, !.content = c,
                        !.rows = IF pages = {} THEN NewRows(r, PageNos) ELSE pages]]
    /\ UNCHANGED <<store, outcome>>

LabCommit(l) ==
    /\ Stored(l)
    /\ CommitPerception(l, "lab")
    /\ job' = [job EXCEPT ![l] = Idle]
    /\ UNCHANGED <<links, units, outcome>>

(***************************************************************************)
(* Docling: under the version row's lock, return the completed run of the  *)
(* same document if there is one, otherwise store its blocks, adding only  *)
(* the Page rows that the document needs and the version lacks.            *)
(***************************************************************************)
FindEquivalentRun(d) == {r \in Runs : kind[r] = "docling" /\ content[r] = d}

DoclingStore(x, d) ==
    /\ job[x].phase = "idle"
    /\ VersionRowFree(x)
    /\ FindEquivalentRun(d) = {}
    /\ \E r \in FreshRuns :
       \E row \in [Covers[d] -> pages \cup NewRows(r, Covers[d])] :
         /\ \A n \in Covers[d] :
              /\ row[n].no = n
              /\ row[n] \in pages \/ \A p \in pages : p.no # n
         /\ job' = [job EXCEPT ![x] =
              [Idle EXCEPT !.phase = "stored", !.run = r, !.content = d,
                           !.rows = {row[n] : n \in Covers[d]}]]
    /\ UNCHANGED <<store, outcome>>

DoclingCommit(x) ==
    /\ Stored(x)
    /\ CommitPerception(x, "docling")
    /\ job' = [job EXCEPT ![x] = Idle]
    /\ UNCHANGED <<links, units, outcome>>

\* A Lab or Docling process fails or dies before its commit.
Abandon(x) ==
    /\ Stored(x)
    /\ job' = [job EXCEPT ![x] = Idle]
    /\ UNCHANGED <<store, outcome>>

IndexerStep(w) ==
    \/ Inspect(w)
    \/ \E c \in Segmentations : Recheck(w, c)
    \/ Store(w)
    \/ StoreRefused(w)
    \/ Commit(w)
    \/ Fail(w)

LabStep(l) ==
    \/ \E c \in Segmentations : LabStore(l, c)
    \/ LabCommit(l)
    \/ Abandon(l)

DoclingStep(x) ==
    \/ \E d \in DoclingDocs : DoclingStore(x, d)
    \/ DoclingCommit(x)
    \/ Abandon(x)

Next ==
    \/ \E w \in Indexers : IndexerStep(w)
    \/ \E l \in Labs : LabStep(l)
    \/ \E x \in Doclings : DoclingStep(x)

Spec == Init /\ [][Next]_vars

\* A call that has begun goes on: nothing in the code waits for another
\* caller except the row locks, which PostgreSQL hands to their waiters in
\* turn, whether the holder commits or is rolled back.
Fairness ==
    /\ \A w \in Indexers :
         /\ WF_vars(\E c \in Segmentations : Recheck(w, c))
         /\ SF_vars(Store(w) \/ StoreRefused(w))
         /\ WF_vars(Commit(w))
    /\ \A l \in Labs : WF_vars(LabCommit(l))
    /\ \A x \in Doclings : WF_vars(DoclingCommit(x))

FairSpec == Spec /\ Fairness

-----------------------------------------------------------------------------
(***************************************************************************)
(* Properties.                                                             *)
(***************************************************************************)

\* The rows and the jobs have their types.
TypeOK ==
    /\ kind \in [Runs -> {"unused", "legacy", "reader", "lab", "docling"}]
    /\ content \in [Runs -> Segmentations \cup DoclingDocs \cup {NoContent}]
    /\ pages \subseteq Row
    /\ described \subseteq pages
    /\ current \in [Row -> Runs \cup {NoRun}]
    /\ blocks \subseteq Block
    /\ chunks \in Segmentations
    /\ links \subseteq Link
    /\ units \subseteq Block
    /\ job \in [Processes -> Job]
    /\ outcome \in [Indexers -> {"none", "already_indexed", "indexed", "error"}]

\* Chunk links follow the promoted perception: once a page has been promoted
\* to a run of the current reader, no chunk is still linked to a block of an
\* older generation of that page.  The delete-then-insert of
\* _link_existing_chunks_to_blocks reads the links that are committed at that
\* moment; only the lock on the Page rows keeps a concurrent refresh from
\* adding links that it has not seen.
PromotedLinksCurrent ==
    \A l \in links :
        current[l[2][2]] \in ReaderRuns => l[2][1] = current[l[2][2]]

\* A perception is promoted only if it cuts the file into exactly the stored
\* chunks: the links of a promoted page never relate a chunk to a text that
\* was segmented otherwise (service.py:1490-1523, 956-979).
PromotedContentMatches ==
    \A p \in pages : current[p] \in ReaderRuns => content[current[p]] = chunks

\* An experiment never becomes current: neither a Lab perception
\* (docs/execution-provenance-m3.md:43-45) nor a Docling one
\* (indexing/docling.py:145) is the perception of a page, whatever
\* index_document does with the rows they have inserted.
ExperimentsNotCurrent ==
    \A p \in pages : current[p] # NoRun => kind[current[p]] \in {"legacy", "reader"}

\* A version's pages are promoted together: no committed state mixes pages of
\* two generations of the current reader, as long as the rows are one per page.
PromotedTogether ==
    (Cardinality(pages) = Cardinality(PageNos)) =>
        \A p, q \in pages : current[p] \in ReaderRuns => current[q] = current[p]

\* The latest production normalization was made from the perception that is
\* current, block for block, although it is computed in a transaction of its
\* own before the promotion is visible.
UnitsFollowPromotion ==
    (\E p \in pages : current[p] \in ReaderRuns) =>
        units = WithText({b \in blocks : b[1] = current[b[2]]})

\* A Docling document is stored once per version, however many processes
\* store it at the same time.
DoclingStoredOnce ==
    \A r, s \in Runs :
        kind[r] = "docling" /\ kind[s] = "docling" /\ content[r] = content[s] => r = s

\* Nothing that a concurrent caller, a retry or an experiment does makes a
\* version that was completely indexed incomplete again.
CompleteForGood == [][Complete => Complete']_vars

\* Every call of index_document returns: no caller waits for ever on the row
\* locks of the others.
EveryCallReturns ==
    \A w \in Indexers : job[w].phase # "idle" ~> job[w].phase = "idle"

=============================================================================
