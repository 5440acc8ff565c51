----------------------------- MODULE QaBenchmark -----------------------------
(***************************************************************************)
(* The question benchmark (tools/qa_benchmark.py).  It refuses arguments   *)
(* that do not go together; then it either indexes the files of its        *)
(* dataset and scores the three strategies of retrieval, with a judge of   *)
(* answerability beside (classic), or builds the Docling corpora of one    *)
(* perception run and scores them, their fusions with what is indexed and  *)
(* two rerankers (docling), or compares two embedding models on V1 or on   *)
(* V1 and V4 only.  PostgreSQL, Ollama and the BGE model answer what they  *)
(* want, or fail.                                                          *)
(*                                                                         *)
(* A retrieval is given by the chunks it returns, in order; an embedding   *)
(* model by how near each page's units are to the question.  Left out:     *)
(* the passages of the candidates, durations, and the retrieval diagnostic *)
(* of one question, which only prints.                                     *)
(***************************************************************************)
EXTENDS DoclingCorpora

CONSTANTS
    Files,          \* of the dataset
    Questions,      \* sequence of [answerable, expected]: the expected pages
    Chunks,         \* the pages of each indexed chunk; none if page_start is NULL
    RetrievalLimit, JudgeTopK, RrfK,
    CandidateLimit, \* pages given to a reranker
    Nearness,       \* functions from the pages: what a model may answer
    Documents,      \* Docling documents whose corpora are built
    Asked           \* those whose questions are asked; a bound

ASSUME BenchmarkAssumption ==
    /\ RetrievalLimit > 0 /\ JudgeTopK > 0 /\ RrfK >= 0 /\ CandidateLimit > 0
    /\ Asked \subseteq Documents
    /\ Questions \in Seq([answerable : BOOLEAN, expected : SUBSET Nat])
    /\ \A q \in ToSet(Questions) : ~ q.answerable => q.expected = {}

VARIABLES
    args,         \* the command line
    mode,         \* what is left of it once it is accepted
    phase, error,
    document,     \* the Docling document, until it is embedded
    pages,        \* the page of each unit of the corpora that are searched
    questions,    \* the questions of this benchmark
    next,         \* files indexed, then questions handled
    pending,      \* what the question in progress has given
    scores, gate, counts, observations, report

QBvars == <<args, mode, phase, error, document, pages, questions, next, pending, scores, gate,
            counts, observations, report>>

Flags == {"docling", "run", "reranker", "reranker_model", "bge", "diagnostic", "question",
          "model", "v1_only", "v1_v4_only", "gate", "judge", "corpus"}
DoclingFlags == {"reranker", "bge", "diagnostic", "question", "corpus", "model", "v1_only", "v1_v4_only"}
Has(flags) == flags \cap args # {}

\* The checks of main.
RefusedLate ==     \* mutant: that V1 only needs a model is left to the benchmark
    IF "docling" \notin args
    THEN \/ Has(DoclingFlags)
         \/ Has({"gate"}) /\ ~ Has({"judge"})
    ELSE \/ ~ Has({"run"})
         \/ Has({"reranker"}) /\ ~ Has({"reranker_model"})
         \/ {"v1_only", "v1_v4_only"} \subseteq args
Refused ==
    IF "docling" \notin args
    THEN \/ Has(DoclingFlags)
         \/ Has({"gate"}) /\ ~ Has({"judge"})
    ELSE \/ ~ Has({"run"})
         \/ Has({"reranker"}) /\ ~ Has({"reranker_model"})
         \/ Has({"diagnostic"}) /\ ~ Has({"question"})
         \/ Has({"v1_only", "v1_v4_only"}) /\ ~ Has({"model"})
         \/ {"v1_only", "v1_v4_only"} \subseteq args
         \/ Has({"v1_only", "v1_v4_only", "diagnostic", "model"}) /\ Has({"reranker", "bge"})

NoMode == [kind |-> "none", use |-> {}]
\* What main hands over.
Mode == [kind |-> IF "docling" \notin args THEN "classic"
                  ELSE IF Has({"v1_only"}) THEN "v1"
                  ELSE IF Has({"v1_v4_only"}) THEN "v1_v4" ELSE "docling",
         use |-> args \cap IF "docling" \in args THEN {"reranker", "bge", "model", "question"}
                           ELSE {"gate"}]
Uses(option) == option \in mode.use

\* The series of ranks that a benchmark scores.
Series(m) ==
    CASE m.kind = "classic" -> {"vector", "lexical", "hybrid"}
      [] m.kind = "v1" -> {"v1", "x1"}
      [] m.kind = "v1_v4" -> {"x1", "x4"}
      [] m.kind = "docling" -> {"current", "v1", "v3", "v4", "fusion2", "fusion3"}
            \cup (IF "model" \in m.use THEN {"x1", "x3", "x4", "xfusion"} ELSE {})
            \cup (m.use \cap {"reranker", "bge"})
      [] OTHER -> {}

NoScore == [evaluated |-> 0, hit1 |-> 0, hit3 |-> 0, hit5 |-> 0, reciprocals |-> 0]
NoGate == [tp |-> 0, fp |-> 0, fn |-> 0, tn |-> 0, protocol |-> 0, technical |-> 0, correct |-> 0,
           evidence |-> 0, both |-> 0, evidence_fp |-> 0]
NoCounts == [answerable |-> 0, unanswerable |-> 0, protocol |-> 0, technical |-> 0, bge |-> 0]
NoReport == [misclassified |-> {}, evidence |-> {}, detailed |-> {}, fusion |-> {}, moved |-> {}]
Nothing == [question |-> 0]
NotJudged == [kind |-> "off", yes |-> FALSE, evidence |-> "none"]

QBInit ==
    /\ args \in SUBSET Flags
    /\ mode = NoMode /\ phase = "start" /\ error = "none"
    /\ document = <<>> /\ pages = <<>> /\ questions = <<>> /\ next = 0 /\ pending = Nothing
    /\ scores = <<>> /\ gate = NoGate /\ counts = NoCounts
    /\ observations = <<>> /\ report = NoReport

Results == <<scores, gate, counts, observations, report>>
Input == <<args, mode, document, pages, questions>>
\* An exception that nothing catches: the program stops and reports nothing.
Exit(why) ==
    /\ phase' = "failed" /\ error' = why
    /\ document' = <<>> /\ pages' = <<>> /\ pending' = Nothing
    /\ UNCHANGED <<args, mode, questions, next>> /\ UNCHANGED Results

-----------------------------------------------------------------------------
\* Before the questions.

\* The arguments are not read again.
Parse ==
    /\ phase = "start"
    /\ IF Refused THEN phase' = "refused" /\ UNCHANGED <<args, mode, scores, questions>>
       ELSE /\ args' = {} /\ mode' = Mode
            /\ phase' = IF mode'.kind = "classic" THEN "index" ELSE "load"
            /\ questions' = IF mode'.kind = "classic" THEN [q \in DOMAIN Questions |-> q] ELSE <<>>
            /\ scores' = [s \in Series(mode') |-> NoScore]
    /\ UNCHANGED <<error, document, pages, next, pending, gate, counts, observations, report>>

\* index_document, for each file in turn (see PerceptionStore, DocumentVersions).
IndexFile ==
    /\ phase = "index"
    /\ \/ /\ IF next < Cardinality(Files) THEN next' = next + 1 /\ UNCHANGED phase
             ELSE next' = 0 /\ phase' = "ask"
          /\ UNCHANGED <<Input, error, pending, Results>>
       \/ Exit("outside")

\* The dataset and its questions, the run, its version and the embedding model:
\* one of them may be missing or of another document.
Plain == mode = [kind |-> "docling", use |-> {}]
\* filter_docling_qa_questions: all of them, or the one that is named.
Filtered == IF Uses("question") THEN {<<q>> : q \in DOMAIN Questions}
            ELSE {[q \in DOMAIN Questions |-> q]}
\* The corpus, the question or the run is unknown, or they are of two documents.
Mismatch == Exit("outside")
Load ==
    /\ phase = "load"
    /\ \/ Mismatch
       \/ /\ document' \in IF Plain THEN Documents ELSE Asked
          /\ questions' \in Filtered
          /\ phase' = "build"
          /\ UNCHANGED <<args, mode, error, pages, next, pending, Results>>

Pages(units) == [k \in DOMAIN units |-> units[k].page]
Corpora ==
    LET blocks == Blocks(document)
        built == [v1 |-> V1(blocks), v3 |-> V3(blocks), v4 |-> V4(blocks)]
        searched == CASE mode.kind = "v1" -> {"v1"}
                      [] mode.kind = "v1_v4" -> {"v1", "v4"}
                      [] OTHER -> {"v1", "v3", "v4"}
    IN  [c \in searched |-> Pages(built[c].units)]

\* The builders, whose restricted modes check their arguments again; then
\* embed_texts for every corpus and model, and the BGE model is loaded.
Build ==
    /\ phase = "build"
    /\ IF mode.kind \in {"v1", "v1_v4"} /\ (~ Uses("model") \/ Uses("reranker") \/ Uses("bge"))
       THEN Exit("arguments")
       ELSE \/ Exit("outside")     \* a corpus is empty, or a service fails
            \/ /\ document \in Asked
               /\ pages' = Corpora
               /\ \A c \in DOMAIN pages' : pages'[c] # <<>>
               /\ document' = <<>> /\ phase' = "ask"
               /\ UNCHANGED <<args, mode, error, questions, next, pending, Results>>

-----------------------------------------------------------------------------
\* Ranks and scores.

Cut(list, n) == SubSeq(list, 1, IF n < Len(list) THEN n ELSE Len(list))
\* The first place in a list that satisfies a test; 0, which is None, if none does.
FirstPlace(list, test(_)) ==
    LET places == {k \in 1 .. Len(list) : test(list[k])}
    IN  IF places = {} THEN 0 ELSE Min(places)
\* attach_pages: the pages of each chunk of a result.
AttachPages(order) == [k \in DOMAIN order |-> Chunks[order[k]]]
\* find_expected_rank, for chunks.
FindExpectedRank(results, expected) ==
    FirstPlace(AttachPages(results), LAMBDA found : found \cap expected # {})
\* expected_page_rank, for pages.
ExpectedPageRank(list, expected) == FirstPlace(list, LAMBDA p : p \in expected)

\* best_rank_by_page: each page at the rank of the first result that has it.
BestRankByPage(results, limit) ==
    LET heard == Cut(results, limit)
        found == UNION ToSet(heard)
        rank == [p \in found |-> FirstPlace(heard, LAMBDA r : p \in r)]
        order == SetToSortSeq(found, LAMBDA p, q : \/ rank[p] < rank[q]
                                                   \/ rank[p] = rank[q] /\ p < q)
    IN  [k \in DOMAIN order |-> [page |-> order[k], rank |-> rank[order[k]]]]
PagesOf(list) == [k \in DOMAIN list |-> list[k].page]

\* search_docling_corpus: the nearest units first, equal ones in their order.
SearchDoclingCorpus(unitPages, near) ==
    LET order == SetToSortSeq(DOMAIN unitPages, LAMBDA j, k :
                     \/ near[unitPages[j]] < near[unitPages[k]]
                     \/ near[unitPages[j]] = near[unitPages[k]] /\ j < k)
    IN  [k \in DOMAIN order |-> {unitPages[order[k]]}]

\* 1 / (rrf_k + rank), as a multiple of a common fraction.
RrfScale ==
    LET product[n \in 0 .. RetrievalLimit] == IF n = 0 THEN 1 ELSE (RrfK + n) * product[n - 1]
    IN  product[RetrievalLimit]
Share(list, page) ==
    LET k == FirstPlace(list, LAMBDA r : r.page = page)
    IN  IF k = 0 THEN 0 ELSE RrfScale \div (RrfK + list[k].rank)
\* reciprocal_rank_fusion: the pages by their score, then by their number.
ReciprocalRankFusion(methods) ==
    LET found == UNION {ToSet(PagesOf(methods[m])) : m \in DOMAIN methods}
        score == [p \in found |-> FoldLeft(LAMBDA sum, m : sum + Share(m, p), 0, methods)]
    IN  SetToSortSeq(found, LAMBDA p, q : \/ score[p] > score[q]
                                          \/ score[p] = score[q] /\ p < q)
\* fuse_v1_embedding_pages: the first ten pages, whose ranks are counted anew.
TopTen(list) == Cut([k \in DOMAIN list |-> [page |-> list[k].page, rank |-> k]], RetrievalLimit)
FuseV1EmbeddingPages(bge, qwen) == ReciprocalRankFusion(<<TopTen(bge), TopTen(qwen)>>)

\* search_hybrid_chunks: of equal scores, the vector results first.
SearchHybridChunks(vector, lexical) ==
    LET merged == vector \o SelectSeq(lexical, LAMBDA c : c \notin ToSet(vector))
        place(list, c) == FirstPlace(list, LAMBDA d : d = c)
        part(list, c) == IF place(list, c) = 0 THEN 0 ELSE RrfScale \div (RrfK + place(list, c))
        score == [c \in ToSet(merged) |-> part(vector, c) + part(lexical, c)]
        order == SetToSortSeq(ToSet(merged), LAMBDA c, d :
                     \/ score[c] > score[d]
                     \/ score[c] = score[d] /\ place(merged, c) < place(merged, d))
    IN  Cut(order, RetrievalLimit)

\* add_rank; the sum of the reciprocals is in sixtieths.
AddRank(score, rank) ==
    LET hit(n) == IF rank \in 1 .. n THEN 1 ELSE 0
    IN  [evaluated |-> score.evaluated + 1, hit1 |-> score.hit1 + hit(1),
         hit3 |-> score.hit3 + hit(3), hit5 |-> score.hit5 + hit(5),
         reciprocals |-> score.reciprocals + IF rank = 0 THEN 0 ELSE 60 \div rank]
Score(ranks) == scores' = [s \in DOMAIN scores |-> AddRank(scores[s], ranks[s])]

-----------------------------------------------------------------------------
\* The questions, one after another.

Question == Questions[questions[next + 1]]
Asking(kinds) == phase = "ask" /\ mode.kind \in kinds /\ next < Len(questions)
After(step) ==
    IF step = "ask" /\ Uses("gate") THEN "gate"
    ELSE IF step = "ask" /\ Uses("reranker") THEN "reranker"
    ELSE IF Uses("bge") THEN "bge" ELSE "count"
Answerable(ranks) == [s \in DOMAIN ranks |-> IF Question.answerable THEN ranks[s] ELSE 0]

\* The three strategies of run_strategy.  An answerable question is scored at
\* once; the judge sees the first chunks of the vector search.
VectorOrders == {Cut(order, RetrievalLimit) : order \in SetToSeqs(DOMAIN Chunks)}
LexicalOrders == UNION {{Cut(order, RetrievalLimit) : order \in SetToSeqs(found)} : found \in SUBSET DOMAIN Chunks}
AskClassic ==
    /\ Asking({"classic"})
    /\ \E vector \in VectorOrders, lexical \in LexicalOrders :
          LET results == [vector |-> vector, lexical |-> lexical,
                          hybrid |-> SearchHybridChunks(vector, lexical)]
              ranks == Answerable([s \in DOMAIN results |->
                                      FindExpectedRank(results[s], Question.expected)])
          IN  /\ pending' = [question |-> questions[next + 1], ranks |-> ranks, judged |-> NotJudged,
                             chunks |-> IF Uses("gate") THEN Cut(vector, JudgeTopK) ELSE <<>>]
              /\ IF Question.answerable THEN Score(ranks) ELSE UNCHANGED scores
    /\ phase' = After("ask")
    /\ UNCHANGED <<Input, error, next, gate, counts, observations, report>>

\* judge_answerability: the replies that the protocol admits.
Replies == [json : BOOLEAN, answerable : {"yes", "no", "other"},
            indices : SUBSET (0 .. JudgeTopK)]
Admitted(reply, chunks) ==
    /\ reply.json /\ reply.answerable # "other"
    /\ \A i \in reply.indices : i < Len(chunks)
    /\ reply.answerable = "no" => reply.indices = {}
\* AnswerabilityMetrics.add.
AddGate(m, expected, predicted, evidence) ==
    LET n(condition) == IF condition THEN 1 ELSE 0
    IN  [m EXCEPT !.tp = @ + n(expected /\ predicted), !.fp = @ + n(~ expected /\ predicted),
                  !.fn = @ + n(expected /\ ~ predicted), !.tn = @ + n(~ expected /\ ~ predicted),
                  !.correct = @ + n(expected = predicted),
                  !.evidence = @ + n(expected /\ predicted /\ evidence),
                  !.evidence_fp = @ + n(expected /\ predicted /\ ~ evidence),
                  !.both = @ + n(expected /\ predicted /\ evidence) + n(~ expected /\ ~ predicted)]

\* evaluate_answerability_question.  The HTTP envelope of a reply is not
\* checked: one that is no object stops the program.
Judge ==
    /\ phase = "gate"
    /\ \/ /\ \E reply \in Replies :
                LET yes == reply.answerable = "yes"
                    right == \E i \in reply.indices : Chunks[pending.chunks[i + 1]] \cap Question.expected # {}
                IN  IF ~ Admitted(reply, pending.chunks)
                    THEN /\ gate' = [gate EXCEPT !.protocol = @ + 1]
                         /\ pending' = [pending EXCEPT !.judged.kind = "protocol", !.chunks = <<>>]
                    ELSE /\ gate' = AddGate(gate, Question.answerable, yes, right)
                         /\ pending' = [pending EXCEPT !.chunks = <<>>, !.judged =
                                [kind |-> "decided", yes |-> yes,
                                 evidence |-> IF ~ (Question.answerable /\ yes) THEN "none"
                                              ELSE IF right THEN "right" ELSE "wrong"]]
          /\ phase' = "count"
          /\ UNCHANGED <<Input, error, next, scores, counts, observations, report>>
       \/ /\ gate' = [gate EXCEPT !.technical = @ + 1]
          /\ pending' = [pending EXCEPT !.judged.kind = "technical", !.chunks = <<>>]
          /\ phase' = "count"
          /\ UNCHANGED <<Input, error, next, scores, counts, observations, report>>
       \/ Exit("outside")

\* The searches of a Docling benchmark, their fusions, and the rank of the
\* expected pages in each.  current_results come from the index of the version.
CurrentResults == {AttachPages(order) : order \in VectorOrders}
Ranked(corpus, near) == BestRankByPage(SearchDoclingCorpus(pages[corpus], near), RetrievalLimit)
RankedAll(corpus, near) ==
    BestRankByPage(SearchDoclingCorpus(pages[corpus], near), Len(pages[corpus]))
\* The pages that a series puts in order; the rerankers start from the fusion.
Listed(s, methods, fusion, near, xnear) ==
    CASE s = "current" -> PagesOf(methods[1])
      [] s = "v1" -> PagesOf(methods[2])
      [] s = "v3" -> PagesOf(methods[3])
      [] s = "v4" -> PagesOf(Ranked("v4", near))
      [] s = "x1" -> PagesOf(Ranked("v1", xnear))
      [] s = "x3" -> PagesOf(Ranked("v3", xnear))
      [] s = "x4" -> PagesOf(Ranked("v4", xnear))
      [] s = "xfusion" -> FuseV1EmbeddingPages(RankedAll("v1", near), RankedAll("v1", xnear))
      [] s = "fusion2" -> ReciprocalRankFusion(<<methods[1], methods[2]>>)
      [] OTHER -> fusion
AskDocling ==
    /\ Asking({"docling"})
    /\ \E results \in CurrentResults, near \in Nearness,
          xnear \in IF Uses("model") THEN Nearness ELSE {CHOOSE n \in Nearness : TRUE} :
          LET methods == <<BestRankByPage(results, RetrievalLimit), Ranked("v1", near), Ranked("v3", near)>>
              fusion == ReciprocalRankFusion(methods)
              ranks == Answerable([s \in Series(mode) |-> ExpectedPageRank(
                                      Listed(s, methods, fusion, near, xnear), Question.expected)])
          IN  pending' = [question |-> questions[next + 1], ranks |-> ranks, judged |-> NotJudged,
                          methods |-> methods, fusion |-> fusion,
                          orders |-> [s \in mode.use \cap {"reranker", "bge"} |-> fusion],
                          failed |-> {}]
    /\ phase' = After("ask")
    /\ UNCHANGED <<Input, error, next, Results>>

\* The comparisons of two models on V1, and of V1 and V4 in one model.
AskEmbeddings ==
    /\ Asking({"v1", "v1_v4"})
    /\ \E near \in Nearness, xnear \in Nearness :
          LET Rank(corpus, n) == ExpectedPageRank(PagesOf(Ranked(corpus, n)), Question.expected)
          IN  pending' = [question |-> questions[next + 1], judged |-> NotJudged,
                          ranks |-> Answerable([s \in Series(mode) |->
                              CASE s = "v1" -> Rank("v1", near)
                                [] s = "x1" -> Rank("v1", xnear)
                                [] OTHER -> Rank("v4", xnear)])]
    /\ phase' = "count"
    /\ UNCHANGED <<Input, error, next, Results>>

\* An embedding or a search fails: nothing catches it.
AskFails ==
    /\ phase = "ask" /\ next < Len(questions)
    /\ Exit("outside")

\* build_reranker_candidates, and the rank that a reranker leaves.
Shortlist == Cut(pending.fusion, CandidateLimit)
RerankUnchecked(reranker, ranking) ==    \* mutant: the pages the reranker does not see follow
    LET rest == SubSeq(pending.fusion, Len(Shortlist) + 1, Len(pending.fusion))
        order == [k \in DOMAIN Shortlist |-> Shortlist[ranking[k]]] \o rest
    IN  [pending EXCEPT !.orders[reranker] = order,
                        !.ranks[reranker] = IF Question.answerable
                             THEN ExpectedPageRank(order, Question.expected) ELSE 0]
Rerank(reranker, ranking) ==
    LET order == [k \in DOMAIN Shortlist |-> Shortlist[ranking[k]]]
    IN  [pending EXCEPT !.orders[reranker] = order,
                        !.ranks[reranker] = IF Question.answerable
                             THEN ExpectedPageRank(order, Question.expected) ELSE 0]
InRrfOrder == [k \in DOMAIN Shortlist |-> k]
FallBack(reranker) == [Rerank(reranker, InRrfOrder) EXCEPT !.failed = @ \cup {reranker}]

\* evaluate_reranker_question: a ranking that does not name each candidate once
\* is an error of protocol.
RerankOllama ==
    /\ phase = "reranker"
    /\ \/ \E n \in 0 .. Len(Shortlist) : \E ranking \in [1 .. n -> 0 .. Len(Shortlist)] :
             IF n = Len(Shortlist) /\ ToSet(ranking) = DOMAIN Shortlist
             THEN pending' = Rerank("reranker", ranking) /\ UNCHANGED counts
             ELSE /\ pending' = FallBack("reranker")
                  /\ counts' = [counts EXCEPT !.protocol = @ + 1]
       \/ /\ pending' = FallBack("reranker")
          /\ counts' = [counts EXCEPT !.technical = @ + 1]
    /\ phase' = After("reranker")
    /\ UNCHANGED <<Input, error, next, scores, gate, observations, report>>

\* evaluate_bge_reranker_question: a wrong number of scores is an error too.
RerankBge ==
    /\ phase = "bge"
    /\ \/ \E score \in [DOMAIN Shortlist -> {0, 1}] :
             /\ pending' = Rerank("bge", SetToSortSeq(DOMAIN Shortlist, LAMBDA j, k :
                               \/ score[j] > score[k]
                               \/ score[j] = score[k] /\ j < k))
             /\ UNCHANGED counts
       \/ /\ pending' = FallBack("bge")
          /\ counts' = [counts EXCEPT !.bge = @ + 1]
    /\ phase' = "count"
    /\ UNCHANGED <<Input, error, next, scores, gate, observations, report>>

\* The question is counted; outside the classic benchmark its ranks are scored now.
CountEvery ==     \* mutant: a question without an answer is scored too
    /\ phase = "count"
    /\ IF mode.kind # "classic" THEN Score(pending.ranks) ELSE UNCHANGED scores
    /\ counts' = [counts EXCEPT ![IF Question.answerable THEN "answerable" ELSE "unanswerable"] = @ + 1]
    /\ observations' = Append(observations, [question |-> pending.question, ranks |-> pending.ranks,
                                             judged |-> pending.judged])
    /\ next' = next + 1 /\ phase' = "ask" /\ pending' = Nothing
    /\ UNCHANGED <<Input, error, gate, report>>
Count ==
    /\ phase = "count"
    /\ IF mode.kind # "classic" /\ Question.answerable THEN Score(pending.ranks) ELSE UNCHANGED scores
    /\ counts' = [counts EXCEPT ![IF Question.answerable THEN "answerable" ELSE "unanswerable"] = @ + 1]
    /\ observations' = Append(observations, [question |-> pending.question, ranks |-> pending.ranks,
                                             judged |-> pending.judged])
    /\ next' = next + 1 /\ phase' = "ask" /\ pending' = Nothing
    /\ UNCHANGED <<Input, error, gate, report>>

\* What is printed: the questions misjudged, those whose evidence is wrong,
\* those that a fusion moved off the best single rank, and those that the
\* reranker moved.
Having(test(_)) == {o.question : o \in {p \in ToSet(observations) : test(p)}}
Misclassified(o) == o.judged.kind = "decided" /\ o.judged.yes # Questions[o.question].answerable
WrongEvidence(o) == o.judged.evidence = "wrong"
\* _print_fusion_diagnostics: a question that no method ranks is passed over.
MovedByFusion(o) ==
    LET found == {o.ranks[s] : s \in {"current", "v1", "v3"}} \ {0}
        best == CHOOSE r \in found : \A t \in found : r <= t
    IN  found # {} /\ {o.ranks["fusion2"], o.ranks["fusion3"]} # {best}
\* _print_reranker_diagnostics: against the rank among the candidates.
MovedByReranker(o) ==
    o.ranks["reranker"] # (IF o.ranks["fusion3"] <= CandidateLimit THEN o.ranks["fusion3"] ELSE 0)
Report ==
    /\ phase = "ask" /\ next = Len(questions)
    /\ phase' = "done"
    /\ report' = [misclassified |-> Having(Misclassified), evidence |-> Having(WrongEvidence),
                  detailed |-> Having(Misclassified) \cup Having(WrongEvidence),
                  fusion |-> IF mode.kind = "docling" THEN Having(MovedByFusion) ELSE {},
                  moved |-> IF Uses("reranker") THEN Having(MovedByReranker) ELSE {}]
    /\ UNCHANGED <<Input, error, next, pending, scores, gate, counts, observations>>

QBNext ==
    \/ Parse \/ IndexFile \/ Load \/ Build
    \/ AskFails \/ AskClassic \/ AskDocling \/ AskEmbeddings
    \/ Judge \/ RerankOllama \/ RerankBge \/ Count \/ Report

QBSpec == QBInit /\ [][QBNext]_QBvars
\* One process; every call to Ollama has a timeout.
QBFairSpec == QBSpec /\ WF_QBvars(QBNext)

-----------------------------------------------------------------------------
\* Properties.

\* What the builders make of a run's blocks is what the corpora promise, for
\* every document of the instance: no text lost or doubled, and the units within
\* one page and section where they must be (docling_retrieval.py).
CorporaWhole ==
    phase = "build" =>
        LET blocks == Blocks(document)
        IN  V1Whole(blocks) /\ V2Whole(blocks) /\ V3Whole(blocks) /\ V4Local(blocks)

\* Between two questions the scores are those of the questions answered so far:
\* each series counts each answerable question once and no other, and the hits
\* and reciprocal ranks are those observed; every question judged is in one cell
\* of the confusion matrix or an error, and the printed lists of questions agree
\* with the counts (qa_benchmark.py).
Observed(test(_)) == Cardinality({k \in DOMAIN observations : test(observations[k])})
IsAnswerable(o) == Questions[o.question].answerable
ScoreAgrees(s) ==
    LET hits(n) == Observed(LAMBDA o : IsAnswerable(o) /\ o.ranks[s] \in 1 .. n)
        found == Observed(LAMBDA o : IsAnswerable(o) /\ o.ranks[s] # 0)
    IN  /\ scores[s].evaluated = Observed(IsAnswerable)
        /\ scores[s].hit1 = hits(1) /\ scores[s].hit3 = hits(3) /\ scores[s].hit5 = hits(5)
        /\ scores[s].reciprocals \in 60 * hits(1) .. 60 * hits(1) + 30 * (found - hits(1))
GateAgrees ==
    /\ Uses("gate") => gate.tp + gate.fp + gate.fn + gate.tn + gate.protocol + gate.technical
                           = Len(observations)
    /\ gate.correct = gate.tp + gate.tn
    /\ gate.evidence + gate.evidence_fp = gate.tp
    /\ gate.both = gate.evidence + gate.tn
ScoresAccount ==
    /\ phase \in {"ask", "done"} =>
          /\ DOMAIN scores = Series(mode)
          /\ \A s \in Series(mode) : ScoreAgrees(s)
          /\ counts.answerable = Observed(IsAnswerable)
          /\ counts.answerable + counts.unanswerable = Len(observations)
          /\ GateAgrees
    /\ phase = "done" =>
          /\ Len(observations) = Len(questions)
          /\ Cardinality(report.misclassified) = gate.fp + gate.fn
          /\ Cardinality(report.evidence) = gate.evidence_fp
          /\ Cardinality(report.detailed) = gate.fp + gate.fn + gate.evidence_fp

\* A fusion has each page that a method found, once, and never puts a page
\* before one that every method prefers; a reranker only reorders the candidates;
\* and after an error it leaves them in the order of the fusion, so that the
\* rank is that of the fusion, or none past the last candidate.
Prefers(method, p, q) ==
    LET place(x) == FirstPlace(method, LAMBDA r : r.page = x)
    IN  place(p) # 0 /\ (place(q) = 0 \/ \E j, k \in DOMAIN method :
            method[j].page = p /\ method[k].page = q /\ method[j].rank < method[k].rank)
FusionFair ==
    pending # Nothing /\ mode.kind = "docling" =>
        /\ IsInjective(pending.fusion)
        /\ ToSet(pending.fusion) = UNION {ToSet(PagesOf(m)) : m \in ToSet(pending.methods)}
        /\ \A j, k \in DOMAIN pending.fusion : j < k =>
              \E m \in ToSet(pending.methods) : ~ Prefers(m, pending.fusion[k], pending.fusion[j])
        /\ phase = "count" => \A s \in DOMAIN pending.orders :
              LET order == pending.orders[s]
              IN  /\ IsInjective(order) /\ ToSet(order) = ToSet(Shortlist)
                  /\ s \in pending.failed =>
                        /\ order = Shortlist
                        /\ pending.ranks[s] = (IF pending.ranks["fusion3"] <= Len(Shortlist)
                                               THEN pending.ranks["fusion3"] ELSE 0)

\* A benchmark ends with its report, or refuses its arguments at once, or stops
\* because of a service or of its data: never because of arguments that it has
\* accepted.
BenchmarkEnds ==
    <> \/ phase \in {"refused", "done"}
       \/ phase = "failed" /\ error # "arguments"
=============================================================================
