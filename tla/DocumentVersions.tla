--------------------------- MODULE DocumentVersions ---------------------------
(***************************************************************************)
(* The creation of Document and DocumentVersion rows for one external file *)
(* name, by its two writers:                                               *)
(*   - index_document (indexing/service.py), which locks nothing: it looks *)
(*     for the document and the version in a first transaction, reads the  *)
(*     file, and decides again in a second one;                            *)
(*   - PostgresDocumentStore.store (ingestion/stores/postgres.py), which   *)
(*     holds SELECT ... FOR UPDATE of the Document row.                    *)
(* No constraint of the schema covers (document_id, version_number),       *)
(* (document_id, file_hash) or is_current.  What happens to a version that *)
(* exists is in PerceptionStore.                                           *)
(***************************************************************************)
EXTENDS Naturals

CONSTANTS
    Indexers,       \* processes calling index_document
    Stores,         \* API requests calling PostgresDocumentStore.store
    Documents,      \* Document rows that can be inserted for the name (bound)
    Ids,            \* DocumentVersion rows that can be inserted (bound)
    Hashes,         \* contents that the file takes (file_hash)
    Numbers,        \* version numbers, 1, 2, ... (bound)
    NoDocument,
    NoId,
    NoHash,
    Known           \* have documents been created before?

Processes == Indexers \cup Stores

ASSUME WritersDisjoint == Indexers \cap Stores = {}
ASSUME NumbersAreNaturals == Numbers \subseteq Nat \ {0}
ASSUME NullsAreFresh == NoDocument \notin Documents /\ NoId \notin Ids
ASSUME KnownAssumption == Known \in BOOLEAN

Version == [doc : Documents, number : Numbers, hash : Hashes, current : BOOLEAN]

\* A call: what its open transaction has read and is about to write.
\*   "created"  first transaction, with the Document row it inserts
\*   "reading"  between the transactions, the file is read and embedded
\*   "missing"  second transaction: no version has the content
\*   "selected" the versions are loaded
\*   "updated"  their is_current is written, and those rows are locked
\*   "inserted" the new version is written too
Call == [phase  : {"idle", "created", "reading", "missing", "selected",
                    "updated", "inserted"},
         hash   : Hashes \cup {NoHash},
         doc    : Documents \cup {NoDocument},
         seen   : SUBSET Ids,
         number : Numbers \cup {0},
         id     : Ids \cup {NoId}]

Idle == [phase |-> "idle", hash |-> NoHash, doc |-> NoDocument, seen |-> {},
         number |-> 0, id |-> NoId]

VARIABLES
    documents,  \* committed Document rows with this source and external_id
    versions,   \* committed DocumentVersion rows, by id
    call

vars == <<documents, versions, call>>

VersionsOf(d) == {i \in DOMAIN versions : versions[i].doc = d}

\* find_existing_version / _find_version
Found(d, h) == \E i \in VersionsOf(d) : versions[i].hash = h

CurrentOf(d) == {i \in VersionsOf(d) : versions[i].current}

\* mutant: the number of versions that are current, plus one
IsNextNumberOfCurrent(n, d) ==
    n = 1 + IF CurrentOf(d) = {} THEN 0 ELSE 1
\* max(version_number) + 1, and 1 when there is none
IsNextNumber(n, d) ==
    /\ \A i \in VersionsOf(d) : versions[i].number < n
    /\ n = 1 \/ \E i \in VersionsOf(d) : versions[i].number + 1 = n

FreshDocuments == {d \in Documents \ documents : \A x \in Processes : call[x].doc # d}
FreshIds == {i \in Ids \ DOMAIN versions : \A x \in Processes : call[x].id # i}

\* FOR UPDATE of the Document row waits for another FOR UPDATE and for the
\* FOR KEY SHARE of every uncommitted version that references the row.
LockFree(s, d) ==
    /\ \A x \in Stores \ {s} : call[x].doc # d
    /\ \A w \in Indexers : ~ (call[w].phase = "inserted" /\ call[w].doc = d)

DocumentLocked(d) == \E s \in Stores : call[s].doc = d

\* UPDATE of a version row waits for a transaction that has updated it.
RowsFree(x) ==
    \A y \in Processes \ {x} :
        call[y].phase \in {"updated", "inserted"} => call[y].seen \cap call[x].seen = {}

-----------------------------------------------------------------------------
Init ==
    /\ documents \in IF Known THEN SUBSET Documents \ {{}} ELSE {{}}
    /\ versions = [i \in {} |-> {}]
    /\ call = [x \in Processes |-> Idle]

(***************************************************************************)
(* index_document, for a content that has no version yet (a call that      *)
(* finds one belongs to PerceptionStore and writes nothing here).          *)
(***************************************************************************)

\* First transaction: get_or_create_document, without lock and with no order
\* among the rows that match.
Look(w, h) ==
    /\ call[w].phase = "idle"
    /\ \/ /\ documents = {}
          /\ \E d \in FreshDocuments :
               call' = [call EXCEPT ![w] = [@ EXCEPT !.phase = "created", !.hash = h, !.doc = d]]
       \/ /\ \E d \in documents : ~ Found(d, h)
          /\ call' = [call EXCEPT ![w] = [@ EXCEPT !.phase = "reading", !.hash = h]]
    /\ UNCHANGED <<documents, versions>>

CreateDocument(w) ==
    /\ call[w].phase = "created"
    /\ documents' = documents \cup {call[w].doc}
    /\ call' = [call EXCEPT ![w] = [@ EXCEPT !.phase = "reading", !.doc = NoDocument]]
    /\ UNCHANGED versions

\* Second transaction: the document and the version are looked for again;
\* the version may have appeared meanwhile.
LookAgain(w) ==
    /\ call[w].phase = "reading"
    /\ \E d \in documents :
         call' = [call EXCEPT ![w] =
           IF Found(d, call[w].hash) THEN Idle
           ELSE [@ EXCEPT !.phase = "missing", !.doc = d]]
    /\ UNCHANGED <<documents, versions>>

\* All versions of the document are loaded, to be marked not current.
Select(w) ==
    /\ call[w].phase = "missing"
    /\ call' = [call EXCEPT ![w] =
                  [@ EXCEPT !.phase = "selected", !.seen = CurrentOf(call[w].doc)]]
    /\ UNCHANGED <<documents, versions>>

\* get_next_version_number: its query flushes the updates first, and reads
\* what is committed once they are done.
Update(w) ==
    /\ call[w].phase = "selected"
    /\ RowsFree(w)
    /\ \E n \in Numbers :
         /\ IsNextNumber(n, call[w].doc)
         /\ call' = [call EXCEPT ![w] = [@ EXCEPT !.phase = "updated", !.number = n]]
    /\ UNCHANGED <<documents, versions>>

Insert(w) ==
    /\ call[w].phase = "updated"
    /\ ~ DocumentLocked(call[w].doc)
    /\ \E i \in FreshIds :
         call' = [call EXCEPT ![w] = [@ EXCEPT !.phase = "inserted", !.id = i]]
    /\ UNCHANGED <<documents, versions>>

(***************************************************************************)
(* PostgresDocumentStore.store, and the commit of the request that called  *)
(* it.                                                                     *)
(***************************************************************************)

\* Under the lock: no version with this content (otherwise the answer is
\* already_exists), the versions and the next number in one query.
Lock(s, d, h) ==
    /\ call[s].phase = "idle"
    /\ d \in documents
    /\ LockFree(s, d)
    /\ ~ Found(d, h)
    /\ \E n \in Numbers :
         /\ IsNextNumber(n, d)
         /\ call' = [call EXCEPT ![s] =
              [@ EXCEPT !.phase = "selected", !.hash = h, !.doc = d,
                        !.seen = CurrentOf(d), !.number = n]]
    /\ UNCHANGED <<documents, versions>>

\* A request without document_id: a Document row of its own, not looked up.
New(s, d, h) ==
    /\ call[s].phase = "idle"
    /\ d \in FreshDocuments
    /\ 1 \in Numbers
    /\ call' = [call EXCEPT ![s] =
         [@ EXCEPT !.phase = "selected", !.hash = h, !.doc = d, !.number = 1]]
    /\ UNCHANGED <<documents, versions>>

Write(s) ==
    /\ call[s].phase = "selected"
    /\ RowsFree(s)
    /\ \E i \in FreshIds :
         call' = [call EXCEPT ![s] = [@ EXCEPT !.phase = "inserted", !.id = i]]
    /\ UNCHANGED <<documents, versions>>

\* mutants: the content hash is not recorded; only the first version of a document is inserted as current
NewVersionNoHash(c) ==
    [doc |-> c.doc, number |-> c.number, hash |-> NoHash, current |-> TRUE]
NewVersion(c) == [doc |-> c.doc, number |-> c.number, hash |-> c.hash, current |-> TRUE]

\* mutant: the previous version keeps is_current
RetiredKept(c, i) == versions[i]
Retired(c, i) ==
    [versions[i] EXCEPT !.current = versions[i].current /\ i \notin c.seen]

Commit(x) ==
    LET c == call[x] IN
    /\ c.phase = "inserted"
    /\ versions' = [i \in DOMAIN versions \cup {c.id} |->
                      IF i = c.id THEN NewVersion(c) ELSE Retired(c, i)]
    /\ documents' = documents \cup {c.doc}
    /\ call' = [call EXCEPT ![x] = Idle]

\* An error, a crash or PostgreSQL's choice of a deadlock victim: rollback.
Fail(x) ==
    /\ call[x].phase # "idle"
    /\ call' = [call EXCEPT ![x] = Idle]
    /\ UNCHANGED <<documents, versions>>

IndexerStep(w) ==
    \/ \E h \in Hashes : Look(w, h)
    \/ CreateDocument(w)
    \/ LookAgain(w)
    \/ Select(w)
    \/ Update(w)
    \/ Insert(w)
    \/ Commit(w)
    \/ Fail(w)

StoreStep(s) ==
    \/ \E d \in Documents, h \in Hashes : Lock(s, d, h) \/ New(s, d, h)
    \/ Write(s)
    \/ Commit(s)
    \/ Fail(s)

Next ==
    \/ \E w \in Indexers : IndexerStep(w)
    \/ \E s \in Stores : StoreStep(s)

Spec == Init /\ [][Next]_vars

-----------------------------------------------------------------------------
(***************************************************************************)
(* Properties.                                                             *)
(***************************************************************************)

\* Rows and calls have their types.
TypeOK ==
    /\ documents \subseteq Documents
    /\ DOMAIN versions \subseteq Ids
    /\ versions \in [DOMAIN versions -> Version]
    /\ call \in [Processes -> Call]

\* A document has one current version: the reader of the normalized content
\* takes it with one_or_none (rag_runtime/normalized.py:104-113) and refuses
\* the document otherwise.
OneCurrentVersion ==
    \A i, j \in DOMAIN versions :
        versions[i].doc = versions[j].doc /\ versions[i].current /\ versions[j].current
            => i = j

\* A version number names one version, and a content is stored once.
NumbersAndContentsUnique ==
    \A i, j \in DOMAIN versions :
        /\ versions[i].doc = versions[j].doc
        /\ versions[i].number = versions[j].number \/ versions[i].hash = versions[j].hash
        => i = j

\* The current version is the latest one: a slow request does not take the
\* document back to an older number.
CurrentIsLatest ==
    \A i, j \in DOMAIN versions :
        versions[i].doc = versions[j].doc /\ versions[i].current
            => versions[j].number <= versions[i].number

\* Whatever the interleaving, a document that has versions has a current one.
NeverWithoutCurrent ==
    \A i \in DOMAIN versions : CurrentOf(versions[i].doc) # {}

\* The rows as a version history.
History == INSTANCE VersionHistory
    WITH stored <- [d \in Documents |->
                      {<<versions[i].number, versions[i].hash>> : i \in VersionsOf(d)}],
         current <- [d \in Documents |-> {versions[i].number : i \in CurrentOf(d)}]

\* The requests of the API alone implement the version history.
ImplementsHistory == History!Spec
=============================================================================
