------------------------ MODULE PerceptionStore_proofs ------------------------
(***************************************************************************)
(* PerceptionStore's safety for every number of indexers, Lab and Docling  *)
(* processes, pages and runs.                                              *)
(***************************************************************************)
EXTENDS PerceptionStore, FiniteSetTheorems, TLAPS

\* An uncommitted run is not a committed row, and belongs to one transaction.
RunsReserved ==
    /\ \A x \in Processes : Stored(x) => job[x].run \in Runs /\ kind[job[x].run] = "unused"
    /\ \A x, y \in Processes :
         x # y /\ Stored(x) /\ Stored(y) => job[x].run # job[y].run
    /\ \A x \in Processes : ~ Stored(x) => job[x].run = NoRun

\* Only committed production or legacy runs are ever current.
CurrentCommitted ==
    \A p \in Row : current[p] # NoRun => kind[current[p]] \in {"legacy", "reader"}

\* Uncommitted promotions are of different rows, and each of them has
\* deleted every link that a reader of the database can see on its rows.
PromotionsDisjoint ==
    \A w, x \in Indexers :
        w # x /\ Stored(w) /\ Stored(x) => job[w].rows \cap job[x].rows = {}

LinksReplaced ==
    \A w \in Indexers : Stored(w) =>
        \A l \in links : l[2][2] \in job[w].rows => l \in job[w].dropped

\* What an indexer is about to commit cuts the file into the stored chunks.
ContentChecked ==
    \A w \in Indexers : Stored(w) => job[w].content = chunks

\* Docling holds the version row alone, and for a document not yet stored.
DoclingExclusive ==
    \A x \in Doclings : Stored(x) =>
        /\ \A y \in Processes \ {x} : ~ Stored(y)
        /\ FindEquivalentRun(job[x].content) = {}

CurrentContent ==
    \A p \in Row : current[p] \in ReaderRuns => content[current[p]] = chunks

IInv ==
    /\ TypeOK
    /\ RunsReserved
    /\ CurrentCommitted
    /\ PromotionsDisjoint
    /\ LinksReplaced
    /\ ContentChecked
    /\ CurrentContent
    /\ DoclingExclusive
    /\ PromotedLinksCurrent
    /\ DoclingStoredOnce

-----------------------------------------------------------------------------
LEMMA InitTypeOK == Init => TypeOK
<1> SUFFICES ASSUME Init PROVE TypeOK
  OBVIOUS
<1>1. chunks \in Segmentations /\ job \in [Processes -> Job]
  BY DEF Init, Idle, Job
<1>2. outcome \in [Indexers -> {"none", "already_indexed", "indexed", "error"}]
  BY DEF Init
<1>3. CASE InitMissing
  BY <1>1, <1>2, <1>3 DEF InitMissing, TypeOK
<1>4. ASSUME NEW state \in StartStates, NEW r \in Runs, NEW recorded \in BOOLEAN,
             InitRows(state, r, recorded)
      PROVE  TypeOK
  <2>1. pages \subseteq Row /\ described \subseteq pages
    BY <1>4 DEF InitRows, NewRows, Row
  <2>2. blocks \subseteq Block /\ units \subseteq Block
    BY <1>4, <2>1 DEF InitRows, BlocksOf, Block, WithText
  <2>3. links \subseteq Link
    BY <1>4, <2>1 DEF InitRows, LinksOf, Link, Block
  <2>4. /\ kind \in [Runs -> {"unused", "legacy", "reader", "lab", "docling"}]
        /\ content \in [Runs -> Segmentations \cup DoclingDocs \cup {NoContent}]
        /\ current \in [Row -> Runs \cup {NoRun}]
    BY <1>4, <1>1 DEF InitRows
  <2> QED
    BY <1>1, <1>2, <2>1, <2>2, <2>3, <2>4 DEF TypeOK
<1> QED
  BY <1>3, <1>4 DEF Init

LEMMA InitIInv == Init => IInv
<1> SUFFICES ASSUME Init PROVE IInv
  OBVIOUS
<1>1. TypeOK
  BY InitTypeOK
<1>2. \A x \in Processes : ~ Stored(x) /\ job[x].run = NoRun
  BY DEF Init, Idle, Stored
<1>3. /\ RunsReserved /\ PromotionsDisjoint /\ LinksReplaced
      /\ ContentChecked /\ DoclingExclusive
  BY <1>2 DEF RunsReserved, PromotionsDisjoint, LinksReplaced, ContentChecked,
              DoclingExclusive, Processes
<1>4. CurrentCommitted /\ CurrentContent /\ PromotedLinksCurrent /\ DoclingStoredOnce
  <2>1. CASE InitMissing
    BY <2>1, NullValues DEF InitMissing, CurrentCommitted, CurrentContent,
       PromotedLinksCurrent, DoclingStoredOnce, ReaderRuns
  <2>2. ASSUME NEW state \in StartStates, NEW r \in Runs, NEW recorded \in BOOLEAN,
               InitRows(state, r, recorded)
        PROVE  CurrentCommitted /\ CurrentContent /\ PromotedLinksCurrent /\ DoclingStoredOnce
    <3>1. /\ kind[r] \in {"legacy", "reader"} /\ content[r] = chunks
          /\ \A x \in Runs : kind[x] # "docling"
      BY <2>2 DEF InitRows
    <3>2. \A p \in Row : current[p] \in {r, NoRun}
      BY <2>2 DEF InitRows
    <3>3. \A l \in links : l[2][1] = r /\ l[2][2] \in Row
      BY <2>2 DEF InitRows, LinksOf, NewRows, Row
    <3> QED
      BY <3>1, <3>2, <3>3, NullValues DEF CurrentCommitted, CurrentContent,
         PromotedLinksCurrent, DoclingStoredOnce, ReaderRuns
  <2> QED
    BY <2>1, <2>2 DEF Init
<1> QED
  BY <1>1, <1>3, <1>4 DEF IInv

-----------------------------------------------------------------------------
(***************************************************************************)
(* Type correctness of the steps.                                          *)
(***************************************************************************)

\* Ending or failing a call: only a job is reset.
LEMMA IdleIsJob == Idle \in Job
  BY DEF Idle, Job

LEMMA ReturnTypeOK ==
  ASSUME TypeOK, NEW w \in Indexers,
         NEW result \in {"already_indexed", "indexed", "error"}, Return(w, result)
  PROVE  /\ job' \in [Processes -> Job]
         /\ outcome' \in [Indexers -> {"none", "already_indexed", "indexed", "error"}]
  BY IdleIsJob DEF TypeOK, Return, Processes

\* The rows a commit publishes are well typed.
LEMMA CommitPerceptionTypeOK ==
  ASSUME TypeOK, NEW x \in Processes, NEW k \in {"reader", "lab", "docling"},
         job[x].run \in Runs, CommitPerception(x, k)
  PROVE  /\ kind' \in [Runs -> {"unused", "legacy", "reader", "lab", "docling"}]
         /\ content' \in [Runs -> Segmentations \cup DoclingDocs \cup {NoContent}]
         /\ pages' \subseteq Row /\ described' \subseteq pages'
         /\ current' \in [Row -> Runs \cup {NoRun}]
         /\ blocks' \subseteq Block
         /\ chunks' \in Segmentations
<1>1. job[x].rows \subseteq Row
      /\ job[x].content \in Segmentations \cup DoclingDocs \cup {NoContent}
  BY DEF TypeOK, Job
<1>2. Described(x, k) \subseteq job[x].rows
  BY DEF Described, Promoted
<1> QED
  BY <1>1, <1>2 DEF TypeOK, CommitPerception, BlocksOf, Block

-----------------------------------------------------------------------------
(***************************************************************************)
(* Preservation of IInv, by the three shapes of steps.                     *)
(***************************************************************************)

\* A step that writes no row and leaves its process without a transaction.
LEMMA QuietStep ==
  ASSUME IInv, NEW x \in Processes, NEW j \in Job,
         j.phase # "stored", j.run = NoRun,
         job' = [job EXCEPT ![x] = j], UNCHANGED store,
         outcome' \in [Indexers -> {"none", "already_indexed", "indexed", "error"}]
  PROVE  IInv'
<1>1. TypeOK'
  BY DEF IInv, TypeOK, store
<1>2. /\ job'[x] = j
      /\ \A y \in Processes \ {x} : job'[y] = job[y]
  BY DEF IInv, TypeOK
<1>3. \A y \in Processes : Stored(y)' => y # x /\ Stored(y) /\ job'[y] = job[y]
  BY <1>2 DEF Stored
<1>4. RunsReserved'
  BY <1>2, <1>3 DEF IInv, RunsReserved, Stored, store
<1>5. PromotionsDisjoint' /\ LinksReplaced' /\ ContentChecked'
  BY <1>3 DEF IInv, PromotionsDisjoint, LinksReplaced, ContentChecked, Processes, store
<1>6. DoclingExclusive'
  <2> SUFFICES ASSUME NEW d \in Doclings, Stored(d)'
               PROVE  /\ \A y \in Processes \ {d} : ~ Stored(y)'
                      /\ FindEquivalentRun(job[d].content)' = {}
    BY DEF DoclingExclusive
  <2>1. Stored(d) /\ job'[d] = job[d]
    BY <1>3 DEF Processes
  <2> QED
    BY <2>1, <1>3 DEF IInv, DoclingExclusive, FindEquivalentRun, store
<1>7. /\ CurrentCommitted' /\ CurrentContent'
      /\ PromotedLinksCurrent' /\ DoclingStoredOnce'
  BY DEF IInv, CurrentCommitted, CurrentContent, PromotedLinksCurrent,
         DoclingStoredOnce, ReaderRuns, store
<1> QED
  BY <1>1, <1>4, <1>5, <1>6, <1>7 DEF IInv

\* A process flushes its writes: they enter its job, not the tables.  The
\* hypotheses are the row locks and the checks that precede the writes.
LEMMA OpeningStep ==
  ASSUME IInv, NEW x \in Processes, NEW j \in Job,
         j.phase = "stored", j.run \in FreshRuns,
         job' = [job EXCEPT ![x] = j], UNCHANGED <<store, outcome>>,
         x \in Indexers =>
            /\ ~ VersionRowLocked /\ ~ PagesLocked(x, j.rows)
            /\ j.content = chunks /\ j.dropped = links,
         x \in Labs => ~ VersionRowLocked,
         x \in Doclings => VersionRowFree(x) /\ FindEquivalentRun(j.content) = {}
  PROVE  IInv'
<1>1. TypeOK'
  BY DEF IInv, TypeOK, store
<1>2. /\ job'[x] = j /\ Stored(x)'
      /\ \A y \in Processes \ {x} : job'[y] = job[y] /\ (Stored(y)' <=> Stored(y))
  BY DEF IInv, TypeOK, Stored
<1>3. RunsReserved'
  <2>1. \A y \in Processes : job[y].run # j.run
    BY DEF FreshRuns
  <2>2. j.run \in Runs /\ kind[j.run] = "unused"
    BY DEF FreshRuns
  <2> QED
    BY <1>2, <2>1, <2>2 DEF IInv, RunsReserved, store
<1>4. PromotionsDisjoint'
  <2> SUFFICES ASSUME NEW y \in Indexers, NEW z \in Indexers, y # z,
                      Stored(y)', Stored(z)'
               PROVE  job'[y].rows \cap job'[z].rows = {}
    BY DEF PromotionsDisjoint
  <2>1. CASE y # x /\ z # x
    BY <2>1, <1>2 DEF IInv, PromotionsDisjoint, Processes
  <2>2. CASE y = x
    BY <2>2, <1>2 DEF PagesLocked, Processes
  <2>3. CASE z = x
    BY <2>3, <1>2 DEF PagesLocked, Processes
  <2> QED
    BY <2>1, <2>2, <2>3
<1>5. LinksReplaced' /\ ContentChecked'
  BY <1>2 DEF IInv, LinksReplaced, ContentChecked, Processes, store
<1>6. DoclingExclusive'
  <2> SUFFICES ASSUME NEW d \in Doclings, Stored(d)'
               PROVE  /\ \A y \in Processes \ {d} : ~ Stored(y)'
                      /\ FindEquivalentRun(job[d].content)' = {}
    BY DEF DoclingExclusive
  <2>1. CASE d = x
    BY <2>1, <1>2 DEF VersionRowFree, FindEquivalentRun, store
  <2>2. CASE d # x
    <3>1. Stored(d) /\ d \in Processes
      BY <2>2, <1>2 DEF Processes
    <3>2. VersionRowLocked
      BY <3>1 DEF VersionRowLocked
    <3>3. x \in Doclings /\ ~ Stored(d)
      BY <2>2, <3>1, <3>2 DEF Processes, VersionRowFree
    <3> QED
      BY <3>1, <3>3
  <2> QED
    BY <2>1, <2>2
<1>7. /\ CurrentCommitted' /\ CurrentContent'
      /\ PromotedLinksCurrent' /\ DoclingStoredOnce'
  BY DEF IInv, CurrentCommitted, CurrentContent, PromotedLinksCurrent,
         DoclingStoredOnce, ReaderRuns, store
<1> QED
  BY <1>1, <1>3, <1>4, <1>5, <1>6, <1>7 DEF IInv

\* A transaction commits: what it buffered enters the tables, its process is
\* idle again.  The kind of run says whose transaction it is.
LEMMA CommitStep ==
  ASSUME IInv, NEW x \in Processes, NEW k \in {"reader", "lab", "docling"},
         k = "reader" <=> x \in Indexers,
         k = "docling" <=> x \in Doclings,
         Stored(x), CommitPerception(x, k), job' = [job EXCEPT ![x] = Idle],
         links' = IF k = "reader"
                  THEN (links \ job[x].dropped) \cup LinksOf(job[x].run, job[x].rows)
                  ELSE links,
         units' \subseteq Block,
         outcome' \in [Indexers -> {"none", "already_indexed", "indexed", "error"}]
  PROVE  IInv'
<1> DEFINE r == job[x].run
           rows == job[x].rows
<1>1. r \in Runs /\ kind[r] = "unused" /\ rows \subseteq Row
  BY DEF IInv, TypeOK, RunsReserved, Job
<1>2. /\ ~ Stored(x)' /\ job'[x] = Idle
      /\ \A y \in Processes \ {x} : job'[y] = job[y] /\ (Stored(y)' <=> Stored(y))
  BY DEF IInv, TypeOK, Stored, Idle
<1>3. /\ kind'[r] = k /\ content'[r] = job[x].content
      /\ \A s \in Runs \ {r} : kind'[s] = kind[s] /\ content'[s] = content[s]
  BY <1>1 DEF IInv, TypeOK, CommitPerception
<1>4. \A p \in Row : current[p] # r /\ current[p] \in Runs \cup {NoRun}
  BY <1>1, NullValues DEF IInv, TypeOK, CurrentCommitted
<1>5. \A p \in Row : current'[p] = IF k = "reader" /\ p \in rows THEN r ELSE current[p]
  BY DEF CommitPerception, Promoted
<1>6. \A p \in Row : current'[p] = current[p] =>
         (current[p] \in ReaderRuns' <=> current[p] \in ReaderRuns)
  BY <1>3, <1>4 DEF ReaderRuns
<1>7. TypeOK'
  <2>1. links' \subseteq Link
    BY <1>1 DEF IInv, TypeOK, LinksOf, Link, Block, Row
  <2>2. job' \in [Processes -> Job]
    BY IdleIsJob DEF IInv, TypeOK
  <2> QED
    BY <1>1, <2>1, <2>2, CommitPerceptionTypeOK DEF IInv, TypeOK
<1>8. RunsReserved'
  <2>1. \A y \in Processes : Stored(y)' => y # x /\ Stored(y) /\ job[y].run # r
    BY <1>2 DEF IInv, RunsReserved
  <2>2. \A y \in Processes : Stored(y)' => job'[y].run \in Runs /\ kind'[job'[y].run] = "unused"
    BY <1>2, <1>3, <2>1 DEF IInv, RunsReserved
  <2>3. \A y \in Processes : ~ Stored(y)' => job'[y].run = NoRun
    BY <1>2 DEF IInv, RunsReserved, Idle
  <2>4. \A y, z \in Processes :
           y # z /\ Stored(y)' /\ Stored(z)' => job'[y].run # job'[z].run
    BY <1>2, <2>1 DEF IInv, RunsReserved
  <2> QED
    BY <2>2, <2>3, <2>4 DEF RunsReserved
<1>9. CurrentCommitted'
  <2> SUFFICES ASSUME NEW p \in Row, current'[p] # NoRun
               PROVE  kind'[current'[p]] \in {"legacy", "reader"}
    BY DEF CurrentCommitted
  <2>1. CASE k = "reader" /\ p \in rows
    BY <2>1, <1>3, <1>5
  <2>2. CASE ~ (k = "reader" /\ p \in rows)
    BY <2>2, <1>3, <1>4, <1>5 DEF IInv, CurrentCommitted
  <2> QED
    BY <2>1, <2>2
<1>10. PromotionsDisjoint' /\ ContentChecked'
  BY <1>2 DEF IInv, PromotionsDisjoint, ContentChecked, CommitPerception, Processes
<1>11. LinksReplaced'
  <2> SUFFICES ASSUME NEW w \in Indexers, Stored(w)',
                      NEW l \in links', l[2][2] \in job'[w].rows
               PROVE  l \in job'[w].dropped
    BY DEF LinksReplaced
  <2>1. w # x /\ Stored(w) /\ job'[w] = job[w]
    BY <1>2 DEF Processes
  <2>2. x \in Indexers => rows \cap job[w].rows = {}
    BY <2>1 DEF IInv, PromotionsDisjoint
  <2>3. \A m \in LinksOf(r, rows) : m[2][2] \in rows
    BY DEF LinksOf
  <2>4. l \in links
    BY <2>1, <2>2, <2>3
  <2> QED
    BY <2>1, <2>4 DEF IInv, LinksReplaced
<1>12. CurrentContent'
  <2> SUFFICES ASSUME NEW p \in Row, current'[p] \in ReaderRuns'
               PROVE  content'[current'[p]] = chunks'
    BY DEF CurrentContent
  <2>1. CASE k = "reader" /\ p \in rows
    BY <2>1, <1>3, <1>5 DEF IInv, ContentChecked, CommitPerception
  <2>2. CASE ~ (k = "reader" /\ p \in rows)
    <3>1. current'[p] = current[p] /\ current[p] \in ReaderRuns /\ current[p] # r
      BY <2>2, <1>4, <1>5, <1>6
    <3> QED
      BY <3>1, <1>3 DEF IInv, CurrentContent, CommitPerception, ReaderRuns
  <2> QED
    BY <2>1, <2>2
<1>13. DoclingExclusive'
  \* A Docling transaction runs alone: none is open beside x.
  <2> SUFFICES ASSUME NEW d \in Doclings, Stored(d)' PROVE FALSE
    BY DEF DoclingExclusive
  <2>1. d # x /\ Stored(d) /\ d \in Processes
    BY <1>2 DEF Processes
  <2> QED
    BY <2>1 DEF IInv, DoclingExclusive
<1>14. PromotedLinksCurrent'
  <2> SUFFICES ASSUME NEW l \in links', current'[l[2][2]] \in ReaderRuns'
               PROVE  l[2][1] = current'[l[2][2]]
    BY DEF PromotedLinksCurrent
  <2>0. l[2][2] \in Row
    BY <1>7 DEF TypeOK, Link, Block
  <2>1. CASE k = "reader" /\ l \in LinksOf(r, rows)
    <3>1. l[2][1] = r /\ l[2][2] \in rows
      BY <2>1 DEF LinksOf
    <3> QED
      BY <2>0, <2>1, <3>1, <1>5
  <2>2. CASE k = "reader" /\ l \in links \ job[x].dropped
    <3>1. l[2][2] \notin rows
      BY <2>2 DEF IInv, LinksReplaced
    <3> QED
      BY <2>0, <2>2, <3>1, <1>5, <1>6 DEF IInv, PromotedLinksCurrent
  <2>3. CASE k # "reader"
    BY <2>0, <2>3, <1>5, <1>6 DEF IInv, PromotedLinksCurrent
  <2> QED
    BY <2>1, <2>2, <2>3
<1>15. DoclingStoredOnce'
  <2> SUFFICES ASSUME NEW s \in Runs, NEW t \in Runs,
                      kind'[s] = "docling", kind'[t] = "docling", content'[s] = content'[t]
               PROVE  s = t
    BY DEF DoclingStoredOnce
  <2>1. CASE s # r /\ t # r
    BY <2>1, <1>3 DEF IInv, DoclingStoredOnce
  <2>2. ASSUME k = "docling", NEW u \in Runs, u # r, kind[u] = "docling",
               content[u] = job[x].content
        PROVE  FALSE
    BY <2>2 DEF IInv, DoclingExclusive, FindEquivalentRun
  <2>3. CASE s = r /\ t # r
    BY <2>2, <2>3, <1>3
  <2>4. CASE s # r /\ t = r
    BY <2>2, <2>4, <1>3
  <2> QED
    BY <2>1, <2>3, <2>4
<1> QED
  BY <1>7, <1>8, <1>9, <1>10, <1>11, <1>12, <1>13, <1>14, <1>15 DEF IInv

-----------------------------------------------------------------------------
(***************************************************************************)
(* One lemma per kind of caller, one step per action.                      *)
(***************************************************************************)

\* index_document preserves the invariant.
LEMMA IndexerPreserves ==
  ASSUME IInv, NEW w \in Indexers, IndexerStep(w)
  PROVE  IInv'
<1>1. w \in Processes /\ w \notin Labs /\ w \notin Doclings
  BY ProcessesDisjoint DEF Processes
<1>2. job[w] \in Job /\ (~ Stored(w) => job[w].run = NoRun)
  BY <1>1 DEF IInv, TypeOK, RunsReserved
<1>3. ASSUME NEW result \in {"already_indexed", "error"}, Return(w, result), UNCHANGED store
      PROVE  IInv'
  <2>1. outcome' \in [Indexers -> {"none", "already_indexed", "indexed", "error"}]
    BY <1>3, ReturnTypeOK DEF IInv
  <2> QED
    BY <1>1, <1>3, <2>1, IdleIsJob, QuietStep DEF Return, Idle
<1>4. CASE Inspect(w)
  <2>1. CASE \E result \in {"already_indexed", "error"} : Return(w, result)
    BY <1>3, <1>4, <2>1 DEF Inspect
  <2>2. CASE /\ get_perception_storage_state \in Repairable
             /\ job' = [job EXCEPT ![w] = [@ EXCEPT
                   !.phase = "read", !.mode = get_perception_storage_state]]
             /\ outcome' = [outcome EXCEPT ![w] = "none"]
    <3> DEFINE j == [job[w] EXCEPT !.phase = "read", !.mode = get_perception_storage_state]
    <3>1. j \in Job /\ j.phase # "stored" /\ j.run = NoRun
      BY <1>2, <1>4, <2>2 DEF Job, Inspect, Stored
    <3>2. outcome' \in [Indexers -> {"none", "already_indexed", "indexed", "error"}]
      BY <2>2 DEF IInv, TypeOK
    <3>3. job' = [job EXCEPT ![w] = j] /\ UNCHANGED store
      BY <1>4, <2>2 DEF Inspect
    <3> HIDE DEF j
    <3> QED
      BY <1>1, <3>1, <3>2, <3>3, QuietStep
  <2> QED
    BY <1>4, <2>1, <2>2 DEF Inspect, AlreadyIndexed
<1>5. ASSUME NEW c \in Segmentations, Recheck(w, c)
      PROVE  IInv'
  <2>1. CASE \E result \in {"already_indexed", "error"} : Return(w, result)
    BY <1>3, <1>5, <2>1 DEF Recheck
  <2>2. CASE /\ job' = [job EXCEPT ![w] = [@ EXCEPT !.phase = "checked", !.content = c]]
             /\ UNCHANGED outcome
    <3> DEFINE j == [job[w] EXCEPT !.phase = "checked", !.content = c]
    <3>1. j \in Job /\ j.phase # "stored" /\ j.run = NoRun
      BY <1>2, <1>5 DEF Job, Recheck, Stored
    <3>2. outcome' \in [Indexers -> {"none", "already_indexed", "indexed", "error"}]
      BY <2>2 DEF IInv, TypeOK
    <3>3. job' = [job EXCEPT ![w] = j] /\ UNCHANGED store
      BY <1>5, <2>2 DEF Recheck
    <3> HIDE DEF j
    <3> QED
      BY <1>1, <3>1, <3>2, <3>3, QuietStep
  <2> QED
    BY <1>5, <2>1, <2>2 DEF Recheck, AlreadyIndexed
<1>6. CASE Store(w)
  <2>1. PICK r \in FreshRuns :
          /\ ~ PagesLocked(w, TargetRows(w, r))
          /\ job' = [job EXCEPT ![w] =
               [@ EXCEPT !.phase = "stored",
                         !.run = r,
                         !.rows = TargetRows(w, r),
                         !.dropped = ReplacedLinks,
                         !.units = NormalizedBlocks(r, TargetRows(w, r))]]
    BY <1>6 DEF Store
  <2> DEFINE R == TargetRows(w, r)
             U == NormalizedBlocks(r, R)
             j == [job[w] EXCEPT !.phase = "stored", !.run = r, !.rows = R,
                                 !.dropped = ReplacedLinks, !.units = U]
  <2>2. r \in Runs /\ R \subseteq Row
    BY DEF FreshRuns, TargetRows, NewRows, Row, IInv, TypeOK
  <2>3. U \subseteq Block
    BY <2>2 DEF NormalizedBlocks, WithText, BlocksOf, CurrentBlocks, Block, IInv, TypeOK
  <2>4. links \subseteq Link
    BY DEF IInv, TypeOK
  <2> HIDE DEF R, U
  <2>5. /\ j \in Job /\ j.phase = "stored" /\ j.run \in FreshRuns /\ j.rows = R
        /\ j.content = job[w].content /\ j.dropped = links
    BY <1>2, <2>2, <2>3, <2>4 DEF Job, ReplacedLinks
  <2>6. job' = [job EXCEPT ![w] = j] /\ ~ PagesLocked(w, j.rows)
    BY <2>1, <2>5 DEF R, U
  <2>7. ~ VersionRowLocked /\ job[w].content = chunks /\ UNCHANGED <<store, outcome>>
    BY <1>6 DEF Store, ChunksMatch
  <2> HIDE DEF j
  <2> QED
    BY <1>1, <2>5, <2>6, <2>7, OpeningStep
<1>7. CASE StoreRefused(w)
  BY <1>3, <1>7 DEF StoreRefused
<1>8. CASE Commit(w)
  <2>1. outcome' \in [Indexers -> {"none", "already_indexed", "indexed", "error"}]
    BY <1>8, ReturnTypeOK DEF IInv, Commit
  <2>2. units' \subseteq Block
    BY <1>2, <1>8 DEF Commit, Job
  <2> QED
    BY <1>1, <1>8, <2>1, <2>2, CommitStep DEF Commit, Return
<1>9. CASE Fail(w)
  BY <1>3, <1>9 DEF Fail
<1> QED
  BY <1>4, <1>5, <1>6, <1>7, <1>8, <1>9 DEF IndexerStep

\* A Lab or Docling transaction that is rolled back preserves the invariant.
LEMMA AbandonPreserves ==
  ASSUME IInv, NEW x \in Processes, Abandon(x)
  PROVE  IInv'
  BY IdleIsJob, QuietStep DEF IInv, TypeOK, Abandon, Idle

\* The Lab preserves the invariant.
LEMMA LabPreserves ==
  ASSUME IInv, NEW l \in Labs, LabStep(l)
  PROVE  IInv'
<1>1. l \in Processes /\ l \notin Indexers /\ l \notin Doclings
  BY ProcessesDisjoint DEF Processes
<1>2. ASSUME NEW c \in Segmentations, LabStore(l, c)
      PROVE  IInv'
  <2>1. PICK r \in FreshRuns :
          job' = [job EXCEPT ![l] =
            [Idle EXCEPT !.phase = "stored", !.run = r, !.content = c,
                         !.rows = IF pages = {} THEN NewRows(r, PageNos) ELSE pages]]
    BY <1>2 DEF LabStore
  <2> DEFINE R == IF pages = {} THEN NewRows(r, PageNos) ELSE pages
             j == [Idle EXCEPT !.phase = "stored", !.run = r, !.content = c, !.rows = R]
  <2>2. r \in Runs /\ R \subseteq Row
    BY DEF FreshRuns, NewRows, Row, IInv, TypeOK
  <2> HIDE DEF R
  <2>3. j \in Job /\ j.phase = "stored" /\ j.run \in FreshRuns
    BY <2>2 DEF Job, Idle
  <2>4. job' = [job EXCEPT ![l] = j]
    BY <2>1 DEF R
  <2>5. ~ VersionRowLocked /\ UNCHANGED <<store, outcome>>
    BY <1>2 DEF LabStore
  <2> HIDE DEF j
  <2> QED
    BY <1>1, <2>3, <2>4, <2>5, OpeningStep
<1>3. CASE LabCommit(l)
  BY <1>1, <1>3, CommitStep DEF LabCommit, IInv, TypeOK
<1> QED
  BY <1>1, <1>2, <1>3, AbandonPreserves DEF LabStep

\* Docling preserves the invariant.
LEMMA DoclingPreserves ==
  ASSUME IInv, NEW x \in Doclings, DoclingStep(x)
  PROVE  IInv'
<1>1. x \in Processes /\ x \notin Indexers /\ x \notin Labs
  BY ProcessesDisjoint DEF Processes
<1>2. ASSUME NEW d \in DoclingDocs, DoclingStore(x, d)
      PROVE  IInv'
  <2>1. PICK r \in FreshRuns : \E row \in [Covers[d] -> pages \cup NewRows(r, Covers[d])] :
          job' = [job EXCEPT ![x] =
            [Idle EXCEPT !.phase = "stored", !.run = r, !.content = d,
                         !.rows = {row[n] : n \in Covers[d]}]]
    BY <1>2 DEF DoclingStore
  <2>2. PICK row \in [Covers[d] -> pages \cup NewRows(r, Covers[d])] :
          job' = [job EXCEPT ![x] =
            [Idle EXCEPT !.phase = "stored", !.run = r, !.content = d,
                         !.rows = {row[n] : n \in Covers[d]}]]
    BY <2>1
  <2> DEFINE R == {row[n] : n \in Covers[d]}
             j == [Idle EXCEPT !.phase = "stored", !.run = r, !.content = d, !.rows = R]
  <2>3. Covers[d] \subseteq PageNos /\ r \in Runs
    BY CoversAssumption DEF FreshRuns
  <2>4. R \subseteq Row
    BY <2>3 DEF NewRows, Row, IInv, TypeOK
  <2> HIDE DEF R
  <2>5. j \in Job /\ j.phase = "stored" /\ j.run \in FreshRuns /\ j.content = d
    BY <2>3, <2>4 DEF Job, Idle
  <2>6. job' = [job EXCEPT ![x] = j]
    BY <2>2 DEF R
  <2>7. /\ VersionRowFree(x) /\ FindEquivalentRun(d) = {}
        /\ UNCHANGED <<store, outcome>>
    BY <1>2 DEF DoclingStore
  <2> HIDE DEF j
  <2> QED
    BY <1>1, <2>5, <2>6, <2>7, OpeningStep
<1>3. CASE DoclingCommit(x)
  BY <1>1, <1>3, CommitStep DEF DoclingCommit, IInv, TypeOK
<1> QED
  BY <1>1, <1>2, <1>3, AbandonPreserves DEF DoclingStep

\* The invariant is inductive.
LEMMA StepIInv == IInv /\ [Next]_vars => IInv'
<1> SUFFICES ASSUME IInv, [Next]_vars PROVE IInv'
  OBVIOUS
<1>1. CASE Next
  BY <1>1, IndexerPreserves, LabPreserves, DoclingPreserves DEF Next
<1>2. CASE UNCHANGED vars
  <2> USE <1>2 DEF vars, store, IInv
  <2>1. TypeOK' /\ RunsReserved' /\ CurrentCommitted'
    BY DEF TypeOK, RunsReserved, CurrentCommitted, Stored
  <2>2. PromotionsDisjoint' /\ LinksReplaced' /\ ContentChecked' /\ DoclingExclusive'
    BY DEF PromotionsDisjoint, LinksReplaced, ContentChecked, DoclingExclusive,
           Stored, FindEquivalentRun
  <2>3. CurrentContent' /\ PromotedLinksCurrent' /\ DoclingStoredOnce'
    BY DEF CurrentContent, PromotedLinksCurrent, DoclingStoredOnce, ReaderRuns
  <2> QED
    BY <2>1, <2>2, <2>3
<1> QED
  BY <1>1, <1>2

-----------------------------------------------------------------------------
\* Every behaviour stays in the inductive invariant.
THEOREM Invariance == Spec => []IInv
  BY InitIInv, StepIInv, PTL DEF Spec

\* The rows and the jobs have their types.
THEOREM TypeCorrect == Spec => []TypeOK
<1>1. IInv => TypeOK
  BY DEF IInv
<1> QED
  BY <1>1, Invariance, PTL

\* After any interleaving of refreshes, experiments and failures, the chunks
\* are linked to the promoted generation of each page and to no older one.
THEOREM LinksFollowPromotion == Spec => []PromotedLinksCurrent
<1>1. IInv => PromotedLinksCurrent
  BY DEF IInv
<1> QED
  BY <1>1, Invariance, PTL

\* A perception whose text was cut otherwise than the stored chunks is never
\* promoted.
THEOREM ContentFollowsChunks == Spec => []PromotedContentMatches
<1>1. IInv => PromotedContentMatches
  BY DEF IInv, TypeOK, CurrentContent, PromotedContentMatches
<1> QED
  BY <1>1, Invariance, PTL

\* A Lab or Docling perception never becomes the current one.
THEOREM ExperimentsStayAside == Spec => []ExperimentsNotCurrent
<1>1. IInv => ExperimentsNotCurrent
  BY DEF IInv, TypeOK, CurrentCommitted, ExperimentsNotCurrent
<1> QED
  BY <1>1, Invariance, PTL

\* Two Docling processes never store the same document twice.
THEOREM DoclingIdempotent == Spec => []DoclingStoredOnce
<1>1. IInv => DoclingStoredOnce
  BY DEF IInv
<1> QED
  BY <1>1, Invariance, PTL

-----------------------------------------------------------------------------
(***************************************************************************)
(* What a promotion covers.  The steps again, by what they do to the open  *)
(* transactions: one ends or only reads, one writes, one commits.          *)
(***************************************************************************)

\* Process x goes on, or ends, without a transaction that has written.
Reads(x, j) ==
    /\ UNCHANGED store /\ job' = [job EXCEPT ![x] = j]
    /\ j.phase # "stored"
    /\ j.mode \in {"none", job[x].mode, get_perception_storage_state}

\* Process x flushes its rows.
Writes(x, j) ==
    /\ UNCHANGED store /\ job' = [job EXCEPT ![x] = j]
    /\ j.run \in FreshRuns /\ j.mode \in {"none", job[x].mode}
    /\ x \in Indexers =>
          /\ PageCountMatches(x) /\ j.rows = TargetRows(x, j.run)
          /\ j.units = NormalizedBlocks(j.run, j.rows)
    /\ x \in Labs => j.rows = IF pages = {} THEN NewRows(j.run, PageNos) ELSE pages
    /\ x \in Doclings =>
          \A p \in j.rows : p \in pages \/ (p \in NewRows(j.run, PageNos)
                                            /\ \A q \in pages : q.no # p.no)

\* Process x commits a perception of kind k.
Publishes(x, k) ==
    /\ Stored(x) /\ CommitPerception(x, k) /\ job' = [job EXCEPT ![x] = Idle]
    /\ k = "reader" <=> x \in Indexers
    /\ links' = IF k = "reader"
                THEN (links \ job[x].dropped) \cup LinksOf(job[x].run, job[x].rows) ELSE links
    /\ units' = IF k = "reader" THEN job[x].units ELSE units

LEMMA IndexerShapes ==
    ASSUME IInv, NEW w \in Indexers, IndexerStep(w)
    PROVE  \/ \E j \in Job : Reads(w, j) \/ Writes(w, j)
           \/ Publishes(w, "reader")
<1>1. w \in Processes /\ w \notin Labs /\ w \notin Doclings
    BY ProcessesDisjoint DEF Processes
<1>2. job[w] \in Job
    BY <1>1 DEF IInv, TypeOK
<1>3. ASSUME NEW result, Return(w, result), UNCHANGED store PROVE Reads(w, Idle)
    BY <1>3 DEF Return, Reads, Idle
<1>4. CASE Inspect(w)
  <2>1. CASE \E result : Return(w, result)
      BY <1>3, <1>4, <2>1, IdleIsJob DEF Inspect
  <2>2. CASE /\ get_perception_storage_state \in Repairable
             /\ job' = [job EXCEPT ![w] = [@ EXCEPT
                   !.phase = "read", !.mode = get_perception_storage_state]]
    <3>1. PICK j : j = [job[w] EXCEPT !.phase = "read", !.mode = get_perception_storage_state]
        OBVIOUS
    <3>2. j \in Job /\ j.phase # "stored" /\ j.mode = get_perception_storage_state
        BY <1>2, <2>2, <3>1 DEF Job
    <3>3. job' = [job EXCEPT ![w] = j] /\ UNCHANGED store
        BY <1>4, <2>2, <3>1 DEF Inspect
    <3> QED
        BY <3>2, <3>3 DEF Reads
  <2> QED
      BY <1>4, <2>1, <2>2 DEF Inspect, AlreadyIndexed
<1>5. ASSUME NEW c \in Segmentations, Recheck(w, c)
      PROVE  \E j \in Job : Reads(w, j)
  <2>1. CASE \E result : Return(w, result)
      BY <1>3, <1>5, <2>1, IdleIsJob DEF Recheck
  <2>2. CASE job' = [job EXCEPT ![w] = [@ EXCEPT !.phase = "checked", !.content = c]]
    <3>1. PICK j : j = [job[w] EXCEPT !.phase = "checked", !.content = c]
        OBVIOUS
    <3>2. j \in Job /\ j.phase # "stored" /\ j.mode = job[w].mode
        BY <1>2, <3>1 DEF Job
    <3>3. job' = [job EXCEPT ![w] = j] /\ UNCHANGED store
        BY <1>5, <2>2, <3>1 DEF Recheck
    <3> QED
        BY <3>2, <3>3 DEF Reads
  <2> QED
      BY <1>5, <2>1, <2>2 DEF Recheck, AlreadyIndexed
<1>6. CASE Store(w)
  <2>1. PICK r \in FreshRuns :
          job' = [job EXCEPT ![w] =
               [@ EXCEPT !.phase = "stored",
                         !.run = r,
                         !.rows = TargetRows(w, r),
                         !.dropped = ReplacedLinks,
                         !.units = NormalizedBlocks(r, TargetRows(w, r))]]
      BY <1>6 DEF Store
  <2>2. PICK R, U : R = TargetRows(w, r) /\ U = NormalizedBlocks(r, R)
      OBVIOUS
  <2>3. r \in Runs /\ R \subseteq Row
      BY <2>2 DEF FreshRuns, TargetRows, NewRows, Row, IInv, TypeOK
  <2>4. U \subseteq Block
      BY <2>2, <2>3 DEF NormalizedBlocks, WithText, BlocksOf, CurrentBlocks, Block, IInv, TypeOK
  <2>5. links \subseteq Link
      BY DEF IInv, TypeOK
  <2>6. PICK j : j = [job[w] EXCEPT !.phase = "stored", !.run = r, !.rows = R,
                                    !.dropped = links, !.units = U]
      OBVIOUS
  <2>7. /\ j \in Job /\ j.phase = "stored" /\ j.run = r /\ j.rows = R /\ j.units = U
        /\ j.mode = job[w].mode
      BY <1>2, <2>3, <2>4, <2>5, <2>6 DEF Job
  <2>8. job' = [job EXCEPT ![w] = j]
      BY <2>1, <2>2, <2>6 DEF ReplacedLinks
  <2>9. PageCountMatches(w) /\ UNCHANGED store
      BY <1>6 DEF Store
  <2>10. Writes(w, j)
      BY <1>1, <2>2, <2>7, <2>8, <2>9 DEF Writes
  <2> QED
      BY <2>7, <2>10
<1>7. CASE StoreRefused(w) \/ Fail(w)
    BY <1>3, <1>7, IdleIsJob DEF StoreRefused, Fail
<1>8. CASE Commit(w)
    BY <1>8 DEF Commit, Publishes, Return
<1> QED
    BY <1>4, <1>5, <1>6, <1>7, <1>8 DEF IndexerStep

LEMMA LabShapes ==
    ASSUME IInv, NEW l \in Labs, LabStep(l)
    PROVE  \/ \E j \in Job : Reads(l, j) \/ Writes(l, j)
           \/ Publishes(l, "lab")
<1>1. l \in Processes /\ l \notin Indexers /\ l \notin Doclings
    BY ProcessesDisjoint DEF Processes
<1>2. ASSUME NEW c \in Segmentations, LabStore(l, c)
      PROVE  \E j \in Job : Writes(l, j)
  <2>1. PICK r \in FreshRuns :
          job' = [job EXCEPT ![l] =
            [Idle EXCEPT !.phase = "stored", !.run = r, !.content = c,
                         !.rows = IF pages = {} THEN NewRows(r, PageNos) ELSE pages]]
      BY <1>2 DEF LabStore
  <2>2. PICK R : R = IF pages = {} THEN NewRows(r, PageNos) ELSE pages
      OBVIOUS
  <2>3. r \in Runs /\ R \subseteq Row
      BY <2>2 DEF FreshRuns, NewRows, Row, IInv, TypeOK
  <2>4. PICK j : j = [Idle EXCEPT !.phase = "stored", !.run = r, !.content = c, !.rows = R]
      OBVIOUS
  <2>5. /\ j \in Job /\ j.phase = "stored" /\ j.run = r /\ j.rows = R /\ j.mode = "none"
      BY <2>3, <2>4 DEF Job, Idle
  <2>6. job' = [job EXCEPT ![l] = j] /\ UNCHANGED store
      BY <1>2, <2>1, <2>2, <2>4 DEF LabStore
  <2>7. Writes(l, j)
      BY <1>1, <2>2, <2>5, <2>6 DEF Writes
  <2> QED
      BY <2>5, <2>7
<1>3. CASE LabCommit(l)
    BY <1>1, <1>3 DEF LabCommit, Publishes
<1>4. CASE Abandon(l)
    BY <1>4, IdleIsJob DEF Abandon, Reads, Idle
<1> QED
    BY <1>2, <1>3, <1>4 DEF LabStep

LEMMA DoclingShapes ==
    ASSUME IInv, NEW x \in Doclings, DoclingStep(x)
    PROVE  \/ \E j \in Job : Reads(x, j) \/ Writes(x, j)
           \/ Publishes(x, "docling")
<1>1. x \in Processes /\ x \notin Indexers /\ x \notin Labs
    BY ProcessesDisjoint DEF Processes
<1>2. ASSUME NEW d \in DoclingDocs, DoclingStore(x, d)
      PROVE  \E j \in Job : Writes(x, j)
  <2>0. PICK r \in FreshRuns :
          \E row \in [Covers[d] -> pages \cup NewRows(r, Covers[d])] :
            /\ \A n \in Covers[d] :
                  /\ row[n].no = n
                  /\ row[n] \in pages \/ \A p \in pages : p.no # n
            /\ job' = [job EXCEPT ![x] =
                 [Idle EXCEPT !.phase = "stored", !.run = r, !.content = d,
                              !.rows = {row[n] : n \in Covers[d]}]]
      BY <1>2 DEF DoclingStore
  <2>1. PICK row \in [Covers[d] -> pages \cup NewRows(r, Covers[d])] :
          /\ \A n \in Covers[d] :
              /\ row[n].no = n
              /\ row[n] \in pages \/ \A p \in pages : p.no # n
          /\ job' = [job EXCEPT ![x] =
               [Idle EXCEPT !.phase = "stored", !.run = r, !.content = d,
                            !.rows = {row[n] : n \in Covers[d]}]]
      BY <2>0
  <2>2. PICK R : R = {row[n] : n \in Covers[d]}
      OBVIOUS
  <2>3. Covers[d] \subseteq PageNos /\ r \in Runs
      BY CoversAssumption DEF FreshRuns
  <2>4. \A p \in R : p \in pages \/ (p \in NewRows(r, PageNos) /\ \A q \in pages : q.no # p.no)
    <3> SUFFICES ASSUME NEW n \in Covers[d], row[n] \notin pages
                 PROVE  row[n] \in NewRows(r, PageNos) /\ \A q \in pages : q.no # row[n].no
        BY <2>2
    <3>1. row[n] \in NewRows(r, Covers[d])
        BY <2>1
    <3>2. row[n] \in NewRows(r, PageNos)
        BY <2>3, <3>1 DEF NewRows
    <3> QED
        BY <2>1, <3>2
  <2>5. R \subseteq Row
      BY <2>3, <2>4 DEF NewRows, Row, IInv, TypeOK
  <2>6. PICK j : j = [Idle EXCEPT !.phase = "stored", !.run = r, !.content = d, !.rows = R]
      OBVIOUS
  <2>7. /\ j \in Job /\ j.phase = "stored" /\ j.run = r /\ j.rows = R /\ j.mode = "none"
      BY <2>3, <2>5, <2>6 DEF Job, Idle
  <2>8. job' = [job EXCEPT ![x] = j] /\ UNCHANGED store
      BY <1>2, <2>1, <2>2, <2>6 DEF DoclingStore
  <2>9. Writes(x, j)
      BY <1>1, <2>4, <2>7, <2>8 DEF Writes
  <2> QED
      BY <2>7, <2>9
<1>3. CASE DoclingCommit(x)
    BY <1>1, <1>3 DEF DoclingCommit, Publishes
<1>4. CASE Abandon(x)
    BY <1>4, IdleIsJob DEF Abandon, Reads, Idle
<1> QED
    BY <1>2, <1>3, <1>4 DEF DoclingStep

LEMMA Shapes ==
    ASSUME IInv, Next
    PROVE  \E x \in Processes :
              \/ \E j \in Job : Reads(x, j) \/ Writes(x, j)
              \/ \E k \in {"reader", "lab", "docling"} : Publishes(x, k)
BY IndexerShapes, LabShapes, DoclingShapes DEF Next, Processes

-----------------------------------------------------------------------------
(***************************************************************************)
(* Promotions are of whole versions: a promotion covers as many rows as    *)
(* the version has page numbers, so that a version with that many rows is  *)
(* promoted altogether.                                                    *)
(***************************************************************************)
PromotionsWhole ==
    /\ IsFiniteSet(pages)
    /\ \A p \in Row \ pages : current[p] = NoRun
    /\ \A x \in Processes : Stored(x) => IsFiniteSet(job[x].rows)
    /\ \A w \in Indexers : Stored(w) => Cardinality(job[w].rows) = Cardinality(PageNos)
    /\ (\E p \in pages : current[p] \in ReaderRuns) => Cardinality(pages) >= Cardinality(PageNos)
    /\ PromotedTogether

LEMMA NewRowsCount ==
    ASSUME NEW r
    PROVE  /\ IsFiniteSet(NewRows(r, PageNos))
           /\ Cardinality(NewRows(r, PageNos)) = Cardinality(PageNos)
           /\ {p.no : p \in NewRows(r, PageNos)} = PageNos
<1> DEFINE f == [n \in PageNos |-> [no |-> n, by |-> r]]
<1>1. f \in Bijection(PageNos, NewRows(r, PageNos))
  <2>1. f \in [PageNos -> NewRows(r, PageNos)]
      BY DEF NewRows
  <2>2. \A n, m \in PageNos : f[n] = f[m] => n = m
      OBVIOUS
  <2>3. \A p \in NewRows(r, PageNos) : \E n \in PageNos : f[n] = p
      BY DEF NewRows
  <2> HIDE DEF f
  <2>4. IsInjective(f)
      BY <2>1, <2>2 DEF IsInjective
  <2> QED
      BY <2>1, <2>3, <2>4 DEF Bijection, Injection, Surjection
<1>2. ExistsBijection(PageNos, NewRows(r, PageNos))
    BY <1>1 DEF ExistsBijection
<1>3. {p.no : p \in NewRows(r, PageNos)} = PageNos
  <2>1. \A p \in NewRows(r, PageNos) : p.no \in PageNos
      BY DEF NewRows
  <2>2. ASSUME NEW n \in PageNos PROVE \E p \in NewRows(r, PageNos) : p.no = n
    <3>1. [no |-> n, by |-> r] \in NewRows(r, PageNos)
        BY DEF NewRows
    <3> QED
        BY <3>1
  <2> QED
      BY <2>1, <2>2
<1> QED
    BY <1>2, <1>3, FS_Bijection, PagesAssumption

\* A commit, as the readers of the promoted rows see it: the new run is theirs
\* if it is promoted, and nobody else's.
LEMMA PublishedRun ==
    ASSUME IInv, NEW x \in Processes, NEW k \in {"reader", "lab", "docling"}, Publishes(x, k)
    PROVE  /\ job[x].run \in Runs /\ kind[job[x].run] = "unused" /\ kind'[job[x].run] = k
           /\ job[x].rows \subseteq Row /\ pages' = pages \cup job[x].rows
           /\ \A s \in Runs \ {job[x].run} : kind'[s] = kind[s]
           /\ \A p \in Row : current'[p] = IF k = "reader" /\ p \in job[x].rows
                                           THEN job[x].run ELSE current[p]
           /\ \A p \in Row : current[p] # job[x].run
           /\ \A p \in Row : current[p] \in ReaderRuns' <=> current[p] \in ReaderRuns
           /\ ~ Stored(x)'
           /\ \A y \in Processes \ {x} : job'[y] = job[y] /\ (Stored(y)' <=> Stored(y))
<1>1. job[x].run \in Runs /\ kind[job[x].run] = "unused" /\ job[x].rows \subseteq Row
    BY DEF IInv, TypeOK, RunsReserved, Job, Publishes
<1>2. /\ kind'[job[x].run] = k /\ pages' = pages \cup job[x].rows
      /\ \A s \in Runs \ {job[x].run} : kind'[s] = kind[s]
    BY <1>1 DEF IInv, TypeOK, CommitPerception, Publishes
<1>3. \A p \in Row : current[p] # job[x].run
    BY <1>1, NullValues DEF IInv, TypeOK, CurrentCommitted
<1>4. \A p \in Row : current'[p] = IF k = "reader" /\ p \in job[x].rows
                                   THEN job[x].run ELSE current[p]
    BY DEF CommitPerception, Promoted, Publishes
<1>5. \A p \in Row : current[p] \in ReaderRuns' <=> current[p] \in ReaderRuns
    BY <1>2, <1>3 DEF ReaderRuns
<1>6. /\ ~ Stored(x)'
      /\ \A y \in Processes \ {x} : job'[y] = job[y] /\ (Stored(y)' <=> Stored(y))
    BY DEF IInv, TypeOK, Stored, Idle, Publishes
<1> QED
    BY <1>1, <1>2, <1>3, <1>4, <1>5, <1>6

LEMMA WholeStart == Init => PromotionsWhole
<1> SUFFICES ASSUME Init PROVE PromotionsWhole
    OBVIOUS
<1>1. \A x \in Processes : ~ Stored(x)
    BY DEF Init, Idle, Stored
<1>2. CASE InitMissing
    BY <1>1, <1>2, FS_EmptySet DEF InitMissing, PromotionsWhole, PromotedTogether, Processes
<1>3. ASSUME NEW state \in StartStates, NEW r \in Runs, NEW recorded \in BOOLEAN,
             InitRows(state, r, recorded)
      PROVE  PromotionsWhole
  <2>1. pages = NewRows(r, PageNos) /\ pages \subseteq Row
      BY <1>3 DEF InitRows, NewRows, Row
  <2>2. \A p \in Row : current[p] = IF p \in pages /\ recorded THEN r ELSE NoRun
      BY <1>3 DEF InitRows
  <2>3. \A p, q \in pages : current[p] = current[q]
      BY <2>1, <2>2
  <2>4. IsFiniteSet(pages) /\ Cardinality(pages) = Cardinality(PageNos)
      BY <2>1, NewRowsCount
  <2>5. Cardinality(pages) >= Cardinality(PageNos)
      BY <2>4, FS_CardinalityType
  <2> QED
      BY <1>1, <2>2, <2>3, <2>4, <2>5 DEF PromotionsWhole, PromotedTogether, Processes
<1> QED
    BY <1>2, <1>3 DEF Init

\* What a transaction writes is finite, and a promotion has all page numbers.
LEMMA WholeWrites ==
    ASSUME IInv, PromotionsWhole, NEW x \in Processes, NEW j \in Job, Writes(x, j)
    PROVE  /\ IsFiniteSet(j.rows)
           /\ x \in Indexers => Cardinality(j.rows) = Cardinality(PageNos)
<1>1. /\ IsFiniteSet(NewRows(j.run, PageNos))
      /\ Cardinality(NewRows(j.run, PageNos)) = Cardinality(PageNos)
    BY NewRowsCount
<1>2. IsFiniteSet(pages)
    BY DEF PromotionsWhole
<1>3. CASE x \in Indexers
    BY <1>1, <1>2, <1>3 DEF Writes, TargetRows, PageCountMatches, WellNumbered
<1>4. CASE x \notin Indexers
  <2>1. j.rows \subseteq pages \cup NewRows(j.run, PageNos)
      BY <1>4 DEF Writes, Processes
  <2>2. IsFiniteSet(pages \cup NewRows(j.run, PageNos))
      BY <1>1, <1>2, FS_Union
  <2> QED
      BY <1>4, <2>1, <2>2, FS_Subset
<1> QED
    BY <1>3, <1>4

LEMMA WholeQuiet ==
    ASSUME IInv, PromotionsWhole, NEW x \in Processes, NEW j \in Job,
           Reads(x, j) \/ Writes(x, j)
    PROVE  PromotionsWhole'
<1>1. UNCHANGED store /\ job' = [job EXCEPT ![x] = j]
    BY DEF Reads, Writes
<1>2. /\ job'[x] = j
      /\ \A y \in Processes \ {x} : job'[y] = job[y] /\ (Stored(y)' <=> Stored(y))
    BY <1>1 DEF IInv, TypeOK, Stored
<1>3. Stored(x)' => /\ IsFiniteSet(j.rows)
                    /\ x \in Indexers => Cardinality(j.rows) = Cardinality(PageNos)
    BY <1>2, WholeWrites DEF Reads, Stored
<1>4. \A y \in Processes : Stored(y)' => IsFiniteSet(job'[y].rows)
    BY <1>2, <1>3 DEF PromotionsWhole
<1>5. \A w \in Indexers : Stored(w)' => Cardinality(job'[w].rows) = Cardinality(PageNos)
    BY <1>2, <1>3 DEF PromotionsWhole, Processes
<1>6. /\ pages' = pages /\ current' = current /\ ReaderRuns' = ReaderRuns
      /\ PromotedTogether' <=> PromotedTogether
    BY <1>1 DEF store, ReaderRuns, PromotedTogether
<1> QED
    BY <1>4, <1>5, <1>6 DEF PromotionsWhole

LEMMA WholePublished ==
    ASSUME IInv, PromotionsWhole, NEW x \in Processes,
           NEW k \in {"reader", "lab", "docling"}, Publishes(x, k)
    PROVE  PromotionsWhole'
<1>1. PICK r, rows : r = job[x].run /\ rows = job[x].rows
    OBVIOUS
<1>2. /\ r \in Runs /\ rows \subseteq Row /\ pages' = pages \cup rows
      /\ \A p \in Row : current'[p] = IF k = "reader" /\ p \in rows THEN r ELSE current[p]
      /\ \A p \in Row : current[p] \in ReaderRuns' <=> current[p] \in ReaderRuns
      /\ ~ Stored(x)'
      /\ \A y \in Processes \ {x} : job'[y] = job[y] /\ (Stored(y)' <=> Stored(y))
    BY <1>1, PublishedRun
<1>3. IsFiniteSet(pages) /\ IsFiniteSet(rows) /\ pages \subseteq Row
    BY <1>1 DEF PromotionsWhole, Publishes, IInv, TypeOK
<1>4. IsFiniteSet(pages')
    BY <1>2, <1>3, FS_Union
<1>5. /\ Cardinality(pages') \in Nat /\ Cardinality(PageNos) \in Nat
      /\ Cardinality(pages) \in Nat /\ Cardinality(pages) <= Cardinality(pages')
      /\ Cardinality(pages) = Cardinality(pages') => pages = pages'
      /\ Cardinality(rows) \in Nat /\ Cardinality(rows) <= Cardinality(pages')
      /\ Cardinality(rows) = Cardinality(pages') => rows = pages'
  <2>1. pages \in SUBSET pages' /\ rows \in SUBSET pages'
      BY <1>2
  <2> QED
      BY <1>3, <1>4, <2>1, FS_Subset, FS_CardinalityType, PagesAssumption
<1>6. \A p \in Row \ pages' : current'[p] = NoRun
    BY <1>2 DEF PromotionsWhole
<1>7. /\ \A y \in Processes : Stored(y)' => IsFiniteSet(job'[y].rows)
      /\ \A w \in Indexers : Stored(w)' => Cardinality(job'[w].rows) = Cardinality(PageNos)
    BY <1>2 DEF PromotionsWhole, Processes
<1>8. /\ (\E p \in pages' : current'[p] \in ReaderRuns') =>
            Cardinality(pages') >= Cardinality(PageNos)
      /\ PromotedTogether'
  <2>1. CASE k = "reader"
    <3>1. Cardinality(rows) = Cardinality(PageNos)
        BY <1>1, <2>1 DEF PromotionsWhole, Publishes
    <3>2. Cardinality(pages') >= Cardinality(PageNos)
        BY <1>5, <3>1
    <3>3. Cardinality(pages') = Cardinality(PageNos) => \A p \in pages' : current'[p] = r
        BY <1>2, <1>5, <2>1, <3>1
    <3> QED
        BY <3>2, <3>3 DEF PromotedTogether
  <2>2. CASE k # "reader"
    <3>1. ASSUME NEW p \in pages', current'[p] \in ReaderRuns'
          PROVE  /\ p \in pages /\ current[p] \in ReaderRuns
                 /\ Cardinality(pages) >= Cardinality(PageNos)
      <4>1. p \in Row /\ current[p] \in ReaderRuns
          BY <1>2, <1>3, <2>2, <3>1
      <4>2. p \in pages
          BY <4>1, NullValues DEF PromotionsWhole, ReaderRuns
      <4> QED
          BY <4>1, <4>2 DEF PromotionsWhole
    <3>2. ASSUME NEW p \in pages', current'[p] \in ReaderRuns',
                 Cardinality(pages') = Cardinality(PageNos), NEW q \in pages'
          PROVE  current'[q] = current'[p]
      <4>1. pages = pages' /\ Cardinality(pages) = Cardinality(PageNos)
          BY <1>5, <3>1, <3>2
      <4>2. current[q] = current[p]
          BY <3>1, <3>2, <4>1 DEF PromotionsWhole, PromotedTogether
      <4> QED
          BY <1>2, <1>3, <2>2, <4>1, <4>2
    <3> QED
        BY <1>5, <3>1, <3>2 DEF PromotedTogether
  <2> QED
      BY <2>1, <2>2
<1> QED
    BY <1>4, <1>6, <1>7, <1>8 DEF PromotionsWhole

LEMMA WholeStep == IInv /\ PromotionsWhole /\ [Next]_vars => PromotionsWhole'
<1> SUFFICES ASSUME IInv, PromotionsWhole, [Next]_vars PROVE PromotionsWhole'
    OBVIOUS
<1>1. CASE Next
    BY <1>1, Shapes, WholeQuiet, WholePublished
<1>2. CASE UNCHANGED vars
  <2> USE <1>2 DEF vars, store
  <2>1. ReaderRuns' = ReaderRuns /\ \A x : Stored(x)' <=> Stored(x)
      BY DEF ReaderRuns, Stored
  <2> QED
      BY <2>1 DEF PromotionsWhole, PromotedTogether
<1> QED
    BY <1>1, <1>2

\* The pages of a version are promoted together, from any start.
THEOREM WholePromotions == Spec => []PromotedTogether
<1>1. Init => IInv /\ PromotionsWhole
    BY InitIInv, WholeStart
<1>2. IInv /\ PromotionsWhole /\ [Next]_vars => (IInv /\ PromotionsWhole)'
    BY StepIInv, WholeStep
<1>3. PromotionsWhole => PromotedTogether
    BY DEF PromotionsWhole
<1> QED
    BY <1>1, <1>2, <1>3, PTL DEF Spec

-----------------------------------------------------------------------------
(***************************************************************************)
(* A version that starts with one row per page keeps exactly those rows:   *)
(* nobody adds one, every promotion is of all of them, and the latest      *)
(* normalization is of what the latest promotion has stored.               *)
(***************************************************************************)
RowsKept ==
    /\ WellNumbered(pages)
    /\ \A x \in Processes : Stored(x) => job[x].rows \subseteq pages
    /\ \A w \in Indexers : job[w].mode # "missing"
    /\ \A w \in Indexers : Stored(w) =>
          job[w].rows = pages /\ job[w].units = WithText(BlocksOf(job[w].run, pages))
    /\ \A b \in blocks : kind[b[1]] # "unused"
    /\ UnitsFollowPromotion

LEMMA KeptStart ==
    ASSUME "missing" \notin StartStates, Init
    PROVE  RowsKept
<1>1. PICK state \in StartStates, r \in Runs, recorded \in BOOLEAN :
          (state = "complete" => recorded) /\ InitRows(state, r, recorded)
    BY DEF Init
<1>2. pages = NewRows(r, PageNos) /\ pages \subseteq Row
    BY <1>1 DEF InitRows, NewRows, Row
<1>3. WellNumbered(pages)
    BY <1>2, NewRowsCount DEF WellNumbered
<1>4. \A x \in Processes : job[x] = Idle
    BY DEF Init
<1>5. \A x \in Processes : ~ Stored(x)
    BY <1>4 DEF Idle, Stored
<1>6. \A w \in Indexers : job[w].mode # "missing" /\ ~ Stored(w)
    BY <1>4, <1>5 DEF Idle, Processes
<1>7. /\ blocks = BlocksOf(r, pages) /\ kind[r] # "unused"
      /\ \A p \in Row : current[p] = IF p \in pages /\ recorded THEN r ELSE NoRun
      /\ units = IF recorded THEN WithText(blocks) ELSE {}
    BY <1>1 DEF InitRows
<1>8. \A b \in blocks : b[1] = r /\ b[2] \in pages
    BY <1>7 DEF BlocksOf
<1>9. UnitsFollowPromotion
  <2> SUFFICES ASSUME NEW p \in pages, current[p] \in ReaderRuns
               PROVE  units = WithText({b \in blocks : b[1] = current[b[2]]})
      BY DEF UnitsFollowPromotion
  <2>1. recorded
      BY <1>2, <1>7, NullValues DEF ReaderRuns
  <2>2. {b \in blocks : b[1] = current[b[2]]} = blocks
      BY <1>2, <1>7, <1>8, <2>1
  <2> QED
      BY <1>7, <2>1, <2>2
<1> QED
    BY <1>3, <1>5, <1>6, <1>7, <1>8, <1>9 DEF RowsKept

\* There is a page, hence the state is never "missing".
LEMMA HasPages ==
    ASSUME RowsKept
    PROVE  pages # {} /\ get_perception_storage_state # "missing"
<1>1. pages # {}
    BY PagesAssumption DEF RowsKept, WellNumbered
<1> QED
    BY <1>1 DEF get_perception_storage_state

LEMMA KeptWrites ==
    ASSUME IInv, RowsKept, NEW x \in Processes, NEW j \in Job, Writes(x, j)
    PROVE  /\ j.rows \subseteq pages
           /\ x \in Indexers => j.rows = pages /\ j.units = WithText(BlocksOf(j.run, pages))
<1>1. CASE x \in Indexers
  <2>1. job[x].mode # "missing"
      BY <1>1 DEF RowsKept
  <2>2. j.rows = pages /\ j.units = NormalizedBlocks(j.run, pages)
      BY <1>1, <2>1 DEF Writes, TargetRows
  <2>3. {b \in CurrentBlocks : b[2] \notin pages} = {}
      BY DEF CurrentBlocks
  <2> QED
      BY <2>2, <2>3 DEF NormalizedBlocks
<1>2. CASE x \in Labs
    BY <1>2, HasPages, ProcessesDisjoint DEF Writes
<1>3. CASE x \in Doclings
  <2> SUFFICES ASSUME NEW p \in j.rows PROVE p \in pages
      BY <1>3, ProcessesDisjoint
  <2>1. p \in pages \/ (p.no \in PageNos /\ \A q \in pages : q.no # p.no)
      BY <1>3 DEF Writes, NewRows
  <2>2. {q.no : q \in pages} = PageNos
      BY DEF RowsKept, WellNumbered
  <2> QED
      BY <2>1, <2>2
<1> QED
    BY <1>1, <1>2, <1>3 DEF Processes

LEMMA KeptQuiet ==
    ASSUME IInv, RowsKept, NEW x \in Processes, NEW j \in Job, Reads(x, j) \/ Writes(x, j)
    PROVE  RowsKept'
<1>1. UNCHANGED store /\ job' = [job EXCEPT ![x] = j]
      /\ j.mode \in {"none", job[x].mode, get_perception_storage_state}
    BY DEF Reads, Writes
<1>2. /\ job'[x] = j
      /\ \A y \in Processes \ {x} : job'[y] = job[y] /\ (Stored(y)' <=> Stored(y))
    BY <1>1 DEF IInv, TypeOK, Stored
<1>3. Stored(x)' => /\ j.rows \subseteq pages
                    /\ x \in Indexers => j.rows = pages
                                         /\ j.units = WithText(BlocksOf(j.run, pages))
    BY <1>2, KeptWrites DEF Reads, Stored
<1>4. x \in Indexers => j.mode # "missing"
    BY <1>1, HasPages DEF RowsKept
<1>5. pages' = pages /\ blocks' = blocks /\ kind' = kind /\ current' = current /\ units' = units
    BY <1>1 DEF store
<1>6. \A y \in Processes : Stored(y)' => job'[y].rows \subseteq pages'
    BY <1>2, <1>3, <1>5 DEF RowsKept
<1>7. \A w \in Indexers : job'[w].mode # "missing"
    BY <1>2, <1>4 DEF RowsKept, Processes
<1>8. \A w \in Indexers : Stored(w)' =>
          job'[w].rows = pages' /\ job'[w].units = WithText(BlocksOf(job'[w].run, pages'))
    BY <1>2, <1>3, <1>5 DEF RowsKept, Processes
<1>9. UnitsFollowPromotion' /\ WellNumbered(pages')
    BY <1>5 DEF RowsKept, UnitsFollowPromotion, ReaderRuns
<1> QED
    BY <1>5, <1>6, <1>7, <1>8, <1>9 DEF RowsKept

\* What a commit makes of the blocks: those of the new run on its rows, which
\* are current if it is promoted, and else of no page.
LEMMA KeptBlocks ==
    ASSUME IInv, PromotionsWhole, RowsKept, NEW x \in Processes,
           NEW k \in {"reader", "lab", "docling"}, Publishes(x, k)
    PROVE  /\ pages' = pages /\ blocks' = blocks \cup BlocksOf(job[x].run, job[x].rows)
           /\ k = "reader" =>
                 /\ job[x].rows = pages
                 /\ \A p \in pages : current'[p] = job[x].run
                 /\ {b \in blocks' : b[1] = current'[b[2]]} = BlocksOf(job[x].run, pages)
           /\ k # "reader" =>
                 {b \in blocks' : b[1] = current'[b[2]]} = {b \in blocks : b[1] = current[b[2]]}
<1>1. PICK r, rows : r = job[x].run /\ rows = job[x].rows
    OBVIOUS
<1>2. /\ r \in Runs /\ rows \subseteq Row /\ pages' = pages \cup rows
      /\ \A p \in Row : current'[p] = IF k = "reader" /\ p \in rows THEN r ELSE current[p]
      /\ \A p \in Row : current[p] # r
    BY <1>1, PublishedRun
<1>3. /\ blocks' = blocks \cup BlocksOf(r, rows) /\ Stored(x)
    BY <1>1 DEF Publishes, CommitPerception
<1>4. pages' = pages /\ rows \subseteq pages /\ (k = "reader" => rows = pages)
    BY <1>1, <1>2, <1>3 DEF RowsKept, Publishes
<1>5. \A b \in blocks : b[1] \in Runs /\ b[2] \in Row /\ b = <<b[1], b[2]>>
    BY DEF IInv, TypeOK, Block
<1>6. \A b : b \in BlocksOf(r, rows) <=> b = <<r, b[2]>> /\ b[2] \in rows
    BY DEF BlocksOf
<1>7. ASSUME k = "reader"
      PROVE  {b \in blocks' : b[1] = current'[b[2]]} = BlocksOf(r, pages)
  <2>1. ASSUME NEW b \in blocks', b[1] = current'[b[2]] PROVE b \in BlocksOf(r, pages)
    <3>1. CASE b \in blocks
      <4>1. b[2] \in pages
          BY <1>2, <1>4, <1>5, <1>7, <2>1, <3>1, NullValues DEF PromotionsWhole
      <4> QED
          BY <1>2, <1>4, <1>5, <1>6, <1>7, <2>1, <3>1, <4>1
    <3> QED
        BY <1>3, <1>4, <1>7, <2>1, <3>1
  <2>2. ASSUME NEW b \in BlocksOf(r, pages) PROVE b \in blocks' /\ b[1] = current'[b[2]]
    <3>1. b[1] = r /\ b[2] \in rows
        BY <1>4, <1>6, <1>7, <2>2 DEF BlocksOf
    <3> QED
        BY <1>2, <1>3, <1>4, <1>7, <2>2, <3>1
  <2> QED
      BY <2>1, <2>2
<1>8. ASSUME k # "reader"
      PROVE  {b \in blocks' : b[1] = current'[b[2]]} = {b \in blocks : b[1] = current[b[2]]}
  <2>1. \A b \in BlocksOf(r, rows) : b[1] # current'[b[2]]
      BY <1>2, <1>6, <1>8 DEF BlocksOf
  <2>2. \A b \in blocks : current'[b[2]] = current[b[2]]
      BY <1>2, <1>5, <1>8
  <2> QED
      BY <1>3, <2>1, <2>2
<1> QED
    BY <1>1, <1>2, <1>3, <1>4, <1>7, <1>8

LEMMA KeptPublished ==
    ASSUME IInv, PromotionsWhole, RowsKept, NEW x \in Processes,
           NEW k \in {"reader", "lab", "docling"}, Publishes(x, k)
    PROVE  RowsKept'
<1>1. /\ pages' = pages /\ blocks' = blocks \cup BlocksOf(job[x].run, job[x].rows)
      /\ k = "reader" =>
            {b \in blocks' : b[1] = current'[b[2]]} = BlocksOf(job[x].run, pages)
      /\ k # "reader" =>
            {b \in blocks' : b[1] = current'[b[2]]} = {b \in blocks : b[1] = current[b[2]]}
    BY KeptBlocks
<1>2. /\ kind'[job[x].run] = k /\ \A s \in Runs \ {job[x].run} : kind'[s] = kind[s]
      /\ ~ Stored(x)'
      /\ \A y \in Processes \ {x} : job'[y] = job[y] /\ (Stored(y)' <=> Stored(y))
      /\ \A p \in Row : current[p] \in ReaderRuns' <=> current[p] \in ReaderRuns
      /\ \A p \in Row : current'[p] = IF k = "reader" /\ p \in job[x].rows
                                      THEN job[x].run ELSE current[p]
    BY PublishedRun
<1>3. job'[x].mode = "none"
    BY DEF Publishes, IInv, TypeOK, Idle
<1>4. \A y \in Processes : Stored(y)' => job'[y].rows \subseteq pages'
    BY <1>1, <1>2 DEF RowsKept
<1>5. \A w \in Indexers : job'[w].mode # "missing"
    BY <1>2, <1>3 DEF RowsKept, Processes
<1>6. \A w \in Indexers : Stored(w)' =>
          job'[w].rows = pages' /\ job'[w].units = WithText(BlocksOf(job'[w].run, pages'))
    BY <1>1, <1>2 DEF RowsKept, Processes
<1>7. \A b \in blocks' : kind'[b[1]] # "unused"
  <2>1. \A b \in blocks : b[1] \in Runs
      BY DEF IInv, TypeOK, Block
  <2>2. \A b \in BlocksOf(job[x].run, job[x].rows) : b[1] = job[x].run
      BY DEF BlocksOf
  <2> QED
      BY <1>1, <1>2, <2>1, <2>2 DEF RowsKept
<1>8. UnitsFollowPromotion'
  <2>1. CASE k = "reader"
    <3>1. units' = WithText(BlocksOf(job[x].run, pages))
        BY <2>1 DEF Publishes, RowsKept
    <3> QED
        BY <1>1, <2>1, <3>1 DEF UnitsFollowPromotion
  <2>2. CASE k # "reader"
    <3>1. units' = units
        BY <2>2 DEF Publishes
    <3>2. (\E p \in pages' : current'[p] \in ReaderRuns') =>
              \E p \in pages : current[p] \in ReaderRuns
        BY <1>1, <1>2, <2>2 DEF IInv, TypeOK
    <3> QED
        BY <1>1, <2>2, <3>1, <3>2 DEF RowsKept, UnitsFollowPromotion
  <2> QED
      BY <2>1, <2>2
<1> QED
    BY <1>1, <1>4, <1>5, <1>6, <1>7, <1>8 DEF RowsKept

LEMMA KeptStep ==
    IInv /\ PromotionsWhole /\ RowsKept /\ [Next]_vars => RowsKept'
<1> SUFFICES ASSUME IInv, PromotionsWhole, RowsKept, [Next]_vars PROVE RowsKept'
    OBVIOUS
<1>1. CASE Next
    BY <1>1, Shapes, KeptQuiet, KeptPublished
<1>2. CASE UNCHANGED vars
  <2> USE <1>2 DEF vars, store
  <2>1. ReaderRuns' = ReaderRuns /\ \A x : Stored(x)' <=> Stored(x)
      BY DEF ReaderRuns, Stored
  <2> QED
      BY <2>1 DEF RowsKept, UnitsFollowPromotion
<1> QED
    BY <1>1, <1>2

\* Whatever is done at once to a version that has one row per page.
LEMMA KeptAlways ==
    ASSUME "missing" \notin StartStates
    PROVE  Spec => [](IInv /\ PromotionsWhole /\ RowsKept)
<1>1. Init => IInv /\ PromotionsWhole /\ RowsKept
    BY InitIInv, WholeStart, KeptStart
<1>2. IInv /\ PromotionsWhole /\ RowsKept /\ [Next]_vars
          => (IInv /\ PromotionsWhole /\ RowsKept)'
    BY StepIInv, WholeStep, KeptStep
<1> QED
    BY <1>1, <1>2, PTL DEF Spec

\* The latest production normalization is of the current perception, block for
\* block, on a version that does not start without rows.
THEOREM UnitsFromPromotion ==
    ASSUME "missing" \notin StartStates
    PROVE  Spec => []UnitsFollowPromotion
<1>1. RowsKept => UnitsFollowPromotion
    BY DEF RowsKept
<1> QED
    BY <1>1, KeptAlways, PTL

\* A commit on a completely indexed version leaves it completely indexed: what
\* is promoted has its description, its blocks and its links.
LEMMA CompleteKept ==
    ASSUME IInv, PromotionsWhole, RowsKept, Complete, NEW x \in Processes,
           NEW k \in {"reader", "lab", "docling"}, Publishes(x, k)
    PROVE  Complete'
<1>1. PICK r : r = job[x].run
    OBVIOUS
<1>2. /\ pages' = pages /\ blocks' = blocks \cup BlocksOf(r, job[x].rows)
      /\ k = "reader" => job[x].rows = pages /\ \A p \in pages : current'[p] = r
    BY <1>1, KeptBlocks
<1>3. /\ r \in Runs /\ kind[r] = "unused" /\ kind'[r] = k
      /\ \A s \in Runs \ {r} : kind'[s] = kind[s]
      /\ \A p \in Row : current'[p] = IF k = "reader" /\ p \in job[x].rows THEN r ELSE current[p]
      /\ \A p \in Row : current[p] \in ReaderRuns' <=> current[p] \in ReaderRuns
      /\ pages \subseteq Row
    BY <1>1, PublishedRun DEF IInv, TypeOK
<1>4. /\ pages # {} /\ Cardinality(pages) = Cardinality(PageNos) /\ pages \subseteq described
      /\ PerceptionFresh
      /\ chunks # NoContent /\ Embedded
      /\ \A n \in TextPages : \E b \in CurrentBlocks : <<n, b>> \in links
    BY DEF Complete, IndexComplete, get_perception_storage_state
<1>5. described \subseteq described' /\ chunks' = chunks
    BY DEF Publishes, CommitPerception
<1>6. ReaderRuns \subseteq ReaderRuns'
    BY <1>3 DEF ReaderRuns
<1>7. PerceptionFresh'
  <2>1. CASE k = "reader"
    <3>1. r \in ReaderRuns'
        BY <1>3, <2>1 DEF ReaderRuns
    <3>2. \A p \in pages : <<r, p>> \in blocks'
        BY <1>2, <2>1 DEF BlocksOf
    <3> QED
        BY <1>2, <2>1, <3>1, <3>2 DEF PerceptionFresh
  <2>2. CASE k # "reader"
    <3>1. \A p \in pages : current'[p] \in ReaderRuns'
        BY <1>3, <1>4, <2>2 DEF PerceptionFresh
    <3>2. \A p \in pages : \E s \in ReaderRuns' : <<s, p>> \in blocks'
        BY <1>2, <1>4, <1>6 DEF PerceptionFresh
    <3> QED
        BY <1>2, <3>1, <3>2 DEF PerceptionFresh
  <2> QED
      BY <2>1, <2>2
<1>8. ASSUME NEW n \in TextPages PROVE \E b \in CurrentBlocks' : <<n, b>> \in links'
  <2>1. CASE k = "reader"
    <3>1. PICK p \in pages : p.no = n
        BY PagesAssumption DEF RowsKept, WellNumbered
    <3>2. <<r, p>> \in CurrentBlocks'
        BY <1>2, <2>1 DEF CurrentBlocks, BlocksOf
    <3>3. <<n, <<r, p>>>> \in LinksOf(r, pages)
        BY <3>1 DEF LinksOf
    <3>4. LinksOf(r, pages) \subseteq links'
        BY <1>1, <1>2, <2>1 DEF Publishes
    <3> QED
        BY <3>2, <3>3, <3>4
  <2>2. CASE k # "reader"
    <3>1. links' = links
        BY <2>2 DEF Publishes
    <3>2. CurrentBlocks \subseteq CurrentBlocks'
        BY <1>2, <1>3, <2>2 DEF CurrentBlocks
    <3> QED
        BY <1>4, <3>1, <3>2
  <2> QED
      BY <2>1, <2>2
<1>9. get_perception_storage_state' = "complete"
    BY <1>2, <1>4, <1>5, <1>7 DEF get_perception_storage_state
<1>10. IndexComplete'
    BY <1>4, <1>5, <1>8 DEF IndexComplete
<1> QED
    BY <1>9, <1>10 DEF Complete

\* Nothing makes a completely indexed version incomplete again: refreshes,
\* experiments and conversions that commit later leave it complete.
THEOREM StaysComplete ==
    ASSUME "missing" \notin StartStates
    PROVE  Spec => CompleteForGood
<1>1. IInv /\ PromotionsWhole /\ RowsKept /\ [Next]_vars => [Complete => Complete']_vars
  <2> SUFFICES ASSUME IInv, PromotionsWhole, RowsKept, Next, Complete PROVE Complete'
      OBVIOUS
  <2>1. PICK x \in Processes :
            \/ \E j \in Job : Reads(x, j) \/ Writes(x, j)
            \/ \E k \in {"reader", "lab", "docling"} : Publishes(x, k)
      BY Shapes
  <2>2. CASE UNCHANGED store
      BY <2>2 DEF store, Complete, IndexComplete, get_perception_storage_state, PerceptionFresh,
                  ReaderRuns, CurrentBlocks
  <2>3. CASE \E k \in {"reader", "lab", "docling"} : Publishes(x, k)
      BY <2>3, CompleteKept
  <2> QED
      BY <2>1, <2>2, <2>3 DEF Reads, Writes
<1> QED
    BY <1>1, KeptAlways, PTL DEF CompleteForGood, Spec
=============================================================================
