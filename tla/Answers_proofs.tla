--------------------------- MODULE Answers_proofs ---------------------------
(***************************************************************************)
(* RagRuntime for every set of sessions and of sizes, every top_k, and any *)
(* number of versions and of generations; QaBenchmark for every list of    *)
(* questions, every dataset and whatever the services answer.              *)
(***************************************************************************)
EXTENDS RagRuntime, QaBenchmark, FiniteSetTheorems, WellFoundedInduction, TLAPS

Triples == Nat \X Nat \X Nat
Names == {"indexing", "none"} \cup Sessions
Writing == {"write", "insert_chunk", "insert_embedding"}
Phases == {"idle", "check", "compare", "source", "embed", "query", "generate", "done"} \cup Writing
Jobs == [phase : Phases, version : Nat, target : Nat, model : Names,
         seen : SUBSET Triples, queue : SUBSET Triples, position : Nat,
         unit : Triples \cup {<<>>}, writes : SUBSET (Triples \X Names),
         indexed_now : BOOLEAN, sources : SUBSET Triples,
         outcome : {"none", "failed", "answered"}]

TypeOK ==
    /\ generations \in Seq(Seq(Nat)) /\ generations # <<>>
    /\ chunks \subseteq Triples
    /\ models \subseteq Names
    /\ embedded \subseteq Triples \X Names
    /\ job \in [Sessions -> Jobs]

\* What the keys of the tables promise: a chunk has its version, an embedding
\* its chunk, and each semantic chunk of a PDF an embedding of every model.
RowsOK ==
    /\ IsFiniteSet(models)
    /\ \A c \in chunks : c[1] \in Versions
    /\ \A e \in embedded : e[1] \in chunks
    /\ kind = "pdf" => models # {}
    /\ \A c \in chunks : c[2] = 0 =>
          /\ kind = "pdf" /\ c \in SemanticChunks(c[1])
          /\ \A m \in models : <<c, m>> \in embedded

\* No generation before g has a unit.
FirstWithUnits(v, g) == \A h \in 1 .. g - 1 : generations[v][h] = 0

\* IndexWhole, and which generation it is: the first one that has units.
WholeFirst ==
    \A v \in Versions :
        \/ NormalizedChunks(v) = {}
        \/ \E g \in DOMAIN generations[v] : \E m \in models :
              /\ FirstWithUnits(v, g)
              /\ NormalizedChunks(v) = Generation(v, g)
              /\ Generation(v, g) \X {m} \subseteq embedded

\* The units of the first k generations.
UnitsUpTo(v, k) == UNION {Generation(v, g) : g \in 1 .. k}

\* The units that session s has taken from its queue, when the queue was filled
\* with those of k generations: one for each position so far, each with its
\* chunk and its embedding, stored or about to be.
Progress(s, k) ==
    LET j == job[s]
        all == UnitsUpTo(j.target, k)
        taken == all \ j.queue
    IN  /\ all # {} /\ j.queue \subseteq all
        /\ \A u \in taken :
              /\ u[3] < j.position
              /\ u \in chunks \/ \E w \in j.writes : w[1] = u
              /\ <<u, j.model>> \in embedded \cup j.writes
        /\ \A u, w \in taken : u[3] = w[3] => u = w
        /\ \A w \in j.writes : w[1] \in taken

JobOK(s) ==
    LET j == job[s] IN
    /\ j.phase = "idle" => j = NewJob
    /\ j.phase # "done" => j.outcome = "none"
    /\ j.phase \in {"check", "compare", "source", "embed"} => j.writes = {} /\ j.position = 0
    /\ j.phase \notin {"idle", "done"} => j.version \in Versions
    /\ j.phase \in {"embed"} \cup Writing => j.target \in Versions
    /\ j.phase = "embed" =>
          \E k \in DOMAIN generations[j.target] :
              j.queue = UnitsUpTo(j.target, k) /\ j.queue # {}
    /\ j.phase \in Writing =>
          /\ \E k \in DOMAIN generations[j.target] : Progress(s, k)
          /\ kind = "pdf" => j.model \in models
    /\ j.phase \in {"insert_chunk", "insert_embedding"} =>
          j.unit \in j.queue /\ j.unit[3] = j.position

\* The version whose index the request has found or written.
Basis(s) == IF job[s].indexed_now THEN job[s].target ELSE job[s].version
Answered(s) == job[s].phase \in {"query", "generate"} \/ job[s].outcome = "answered"

\* What a session knows of the version it asks about.
AnswerOK(s) ==
    LET j == job[s] IN
    /\ j.phase \notin {"query", "generate", "done"} => ~ j.indexed_now /\ j.sources = {}
    /\ j.sources # {} =>
          j.version \in Versions /\ j.sources \subseteq NormalizedChunks(j.version)
    /\ s \in Requests => /\ j.phase = "check" => UnitsOf(j.version) # {}
                         /\ j.phase = "compare" => j.seen # {}
                         /\ Answered(s) => /\ Basis(s) \in Versions
                                           /\ NormalizedChunks(Basis(s)) # {}

IInv ==
    /\ TypeOK
    /\ RowsOK
    /\ WholeFirst
    /\ \A s \in Sessions : JobOK(s) /\ AnswerOK(s)

-----------------------------------------------------------------------------
\* Types.

LEMMA InitType == Init => TypeOK
<1> SUFFICES ASSUME Init PROVE TypeOK
    OBVIOUS
<1>1. generations \in Seq(Seq(Nat)) /\ generations # <<>>
  <2>1. PICK n \in Sizes : generations = <<<<n>>>>
      BY DEF Init
  <2>2. n \in Nat
      BY RagAssumption
  <2> QED
      BY <2>1, <2>2
<1>2. chunks \subseteq Triples
    BY RagAssumption DEF Init, SemanticChunks, Triples
<1>3. models \subseteq Names
    BY DEF Init, Names
<1>4. embedded \subseteq Triples \X Names
    BY <1>2, <1>3 DEF Init
<1>5. job \in [Sessions -> Jobs]
  <2>1. NewJob \in Jobs
      BY DEF NewJob, Jobs, Phases, Names
  <2> QED
      BY <2>1 DEF Init
<1> QED
    BY <1>1, <1>2, <1>3, <1>4, <1>5 DEF TypeOK

\* The rows of a version are triples; so are those of its k first generations.
LEMMA UnitIn ==
    ASSUME TypeOK, NEW v \in Versions, NEW k \in DOMAIN generations[v]
    PROVE  \A u : u \in UnitsUpTo(v, k) <=>
               /\ u \in Triples /\ u[1] = v /\ u[2] \in 1 .. k
               /\ u[3] < generations[v][u[2]]
<1>1. generations[v] \in Seq(Nat) /\ v \in Nat /\ k \in Nat
    BY DEF TypeOK, Versions
<1>2. \A g \in 1 .. k : generations[v][g] \in Nat
    BY <1>1
<1>3. ASSUME NEW u, u \in UnitsUpTo(v, k)
      PROVE  /\ u \in Triples /\ u[1] = v /\ u[2] \in 1 .. k
             /\ u[3] < generations[v][u[2]]
  <2>1. PICK g \in 1 .. k : u \in Generation(v, g)
      BY <1>3 DEF UnitsUpTo
  <2>2. PICK i \in 0 .. generations[v][g] - 1 : u = <<v, g, i>>
      BY <2>1 DEF Generation
  <2>3. i \in Nat /\ g \in Nat /\ i < generations[v][g]
      BY <1>1, <1>2, <2>2, SMTT(30)
  <2> QED
      BY <1>1, <2>2, <2>3 DEF Triples
<1>4. ASSUME NEW u \in Triples, u[1] = v, u[2] \in 1 .. k, u[3] < generations[v][u[2]]
      PROVE  u \in UnitsUpTo(v, k)
  <2>1. u = <<v, u[2], u[3]>> /\ u[3] \in Nat
      BY <1>4 DEF Triples
  <2>2. u[3] \in 0 .. generations[v][u[2]] - 1
      BY <1>2, <1>4, <2>1
  <2>3. u \in Generation(v, u[2])
      BY <2>1, <2>2 DEF Generation
  <2> QED
      BY <1>4, <2>3 DEF UnitsUpTo
<1> QED
    BY <1>3, <1>4

LEMMA GenerationIn ==
    ASSUME TypeOK, NEW v \in Versions, NEW g \in DOMAIN generations[v]
    PROVE  \A u : u \in Generation(v, g) <=>
               u \in Triples /\ u[1] = v /\ u[2] = g /\ u[3] < generations[v][g]
<1>1. generations[v] \in Seq(Nat) /\ v \in Nat /\ g \in Nat /\ generations[v][g] \in Nat
    BY DEF TypeOK, Versions
<1>2. \A u : u \in Generation(v, g) =>
               u \in Triples /\ u[1] = v /\ u[2] = g /\ u[3] < generations[v][g]
    BY <1>1, SMTT(30) DEF Generation, Triples
<1>3. ASSUME NEW u \in Triples, u[1] = v, u[2] = g, u[3] < generations[v][g]
      PROVE  u \in Generation(v, g)
  <2>1. u = <<v, g, u[3]>> /\ u[3] \in Nat
      BY <1>3 DEF Triples
  <2>2. u[3] \in 0 .. generations[v][g] - 1
      BY <1>1, <1>3, <2>1
  <2> QED
      BY <2>1, <2>2 DEF Generation
<1> QED
    BY <1>2, <1>3

\* The units of a version are those of all its generations.
LEMMA AllUnits ==
    ASSUME TypeOK, NEW v \in Versions
    PROVE  /\ UnitsOf(v) \subseteq Triples
           /\ UnitsOf(v) # {} => \E k \in DOMAIN generations[v] : UnitsOf(v) = UnitsUpTo(v, k)
<1>1. generations[v] \in Seq(Nat)
    BY DEF TypeOK, Versions
<1>2. DOMAIN generations[v] = 1 .. Len(generations[v]) /\ Len(generations[v]) \in Nat
    BY <1>1
<1>3. UnitsOf(v) = UnitsUpTo(v, Len(generations[v]))
    BY <1>2 DEF UnitsOf, UnitsUpTo
<1>4. CASE Len(generations[v]) = 0
    BY <1>2, <1>4 DEF UnitsOf
<1>5. CASE Len(generations[v]) # 0
  <2>1. Len(generations[v]) \in DOMAIN generations[v]
      BY <1>2, <1>5
  <2> QED
      BY <1>3, <2>1, UnitIn
<1> QED
    BY <1>4, <1>5

LEMMA SessionStepType ==
    ASSUME TypeOK, NEW s \in Sessions, JobOK(s), Create(s) \/ Step(s) \/ Crash(s)
    PROVE  TypeOK'
<1> USE DEF TypeOK
<1>1. job[s] \in Jobs
    OBVIOUS
<1>2. NewJob \in Jobs
    BY DEF NewJob, Jobs, Phases, Names
<1>3. ASSUME Fail(s), UNCHANGED Stored PROVE TypeOK'
  <2>1. [NewJob EXCEPT !.phase = "done", !.outcome = "failed"] \in Jobs
      BY <1>2 DEF Jobs, Phases
  <2> QED
      BY <1>3, <2>1 DEF Fail, Update, Stored
<1>4. ASSUME NEW j \in Jobs, Update(s, j), UNCHANGED Stored PROVE TypeOK'
    BY <1>4 DEF Update, Stored
<1>5. ASSUME Create(s) PROVE TypeOK'
  <2>1. UNCHANGED Stored
      BY <1>5 DEF Create
  <2>2. CASE Fail(s)
      BY <1>3, <2>1, <2>2
  <2>3. \A v \in (IF s \in Attempts THEN Versions ELSE {Current}) : v \in Nat
      BY DEF Versions, Current
  <2>5. ASSUME NEW v \in (IF s \in Attempts THEN Versions ELSE {Current}),
               Update(s, [job[s] EXCEPT !.version = v,
                                        !.phase = IF s \in Attempts THEN "query" ELSE "check"])
        PROVE  TypeOK'
    <3>1. [job[s] EXCEPT !.version = v,
                         !.phase = IF s \in Attempts THEN "query" ELSE "check"] \in Jobs
        BY <1>1, <2>3 DEF Jobs, Phases
    <3> QED
        BY <1>4, <2>1, <2>5, <3>1
  <2> QED
      BY <1>5, <2>2, <2>5 DEF Create
<1>6. ASSUME CheckUnits(s) PROVE TypeOK'
  <2>1. UNCHANGED Stored
      BY <1>6 DEF CheckUnits
  <2>2. [job[s] EXCEPT !.phase = "source"] \in Jobs
      BY <1>1 DEF Jobs, Phases
  <2>3. CASE Goto(s, "source")
      BY <1>4, <2>1, <2>2, <2>3 DEF Goto
  <2>4. ASSUME NEW m \in models,
               Update(s, [job[s] EXCEPT !.phase = "compare", !.model = m,
                                        !.seen = UnitsOf(job[s].version)])
        PROVE  TypeOK'
    <3>1. UnitsOf(job[s].version) \subseteq Triples
        BY <1>6, AllUnits DEF CheckUnits, At, JobOK
    <3>2. [job[s] EXCEPT !.phase = "compare", !.model = m,
                         !.seen = UnitsOf(job[s].version)] \in Jobs
        BY <1>1, <2>4, <3>1 DEF Jobs, Phases
    <3> QED
        BY <1>4, <2>1, <2>4, <3>2
  <2> QED
      BY <1>6, <2>3, <2>4 DEF CheckUnits
<1>7. ASSUME CheckChunks(s) PROVE TypeOK'
  <2> DEFINE j == [job[s] EXCEPT !.seen = {}, !.model = "none",
           !.phase = IF IsIndexed(job[s].version, job[s].seen, job[s].model)
                     THEN "query" ELSE "source"]
  <2>1. j \in Jobs
      BY <1>1, ZenonT(60) DEF Jobs, Phases, Names
  <2> QED
      BY <1>4, <1>7, <2>1 DEF CheckChunks
<1>8. ASSUME Source(s) PROVE TypeOK'
  <2>1. UNCHANGED Stored
      BY <1>8 DEF Source
  <2>2. CASE Fail(s)
      BY <1>3, <2>1, <2>2
  <2>3. CASE ~ Fail(s)
    <3>1. /\ UnitsOf(Current) # {}
          /\ Update(s, [job[s] EXCEPT !.phase = "embed", !.target = Current,
                                      !.queue = UnitsOf(Current)])
        BY <1>8, <2>3 DEF Source, Target
    <3>2. Current \in Versions /\ Current \in Nat
        BY DEF Versions, Current
    <3>3. UnitsOf(Current) \subseteq Triples
        BY <3>2, AllUnits
    <3>4. [job[s] EXCEPT !.phase = "embed", !.target = Current,
                         !.queue = UnitsOf(Current)] \in Jobs
        BY <1>1, <3>2, <3>3 DEF Jobs, Phases
    <3> QED
        BY <1>4, <2>1, <3>1, <3>4
  <2> QED
      BY <2>2, <2>3
<1>9. ASSUME Embed(s) PROVE TypeOK'
  <2>1. UNCHANGED Stored
      BY <1>9 DEF Embed
  <2>2. CASE Fail(s)
      BY <1>3, <2>1, <2>2
  <2>3. ASSUME NEW m \in ModelsFor(s),
               Update(s, [job[s] EXCEPT !.phase = "write", !.model = m])
        PROVE  TypeOK'
    <3>1. m \in Names
        BY DEF ModelsFor, Names
    <3>2. [job[s] EXCEPT !.phase = "write", !.model = m] \in Jobs
        BY <1>1, <3>1 DEF Jobs, Phases, Writing
    <3> QED
        BY <1>4, <2>1, <2>3, <3>2
  <2> QED
      BY <1>9, <2>2, <2>3 DEF Embed
<1>10. ASSUME NEW j \in Jobs PROVE Written(j) \in Jobs
  <2>1. j.position + 1 \in Nat /\ j.queue \ {j.unit} \in SUBSET Triples
      BY DEF Jobs
  <2>2. "write" \in Phases /\ <<>> \in Triples \cup {<<>>}
      BY DEF Phases, Writing
  <2> QED
      BY <2>1, <2>2 DEF Written, Jobs
<1>11. ASSUME WriteUnit(s) PROVE TypeOK'
  <2>1. UNCHANGED Stored
      BY <1>11 DEF WriteUnit
  <2>2. CASE Fail(s)
      BY <1>3, <2>1, <2>2
  <2>3. PICK u \in First(job[s].queue) :
            \/ Fail(s)
            \/ Update(s, [[job[s] EXCEPT !.unit = u] EXCEPT !.phase = "insert_chunk"])
            \/ Update(s, [[job[s] EXCEPT !.unit = u] EXCEPT !.phase = "insert_embedding"])
            \/ Update(s, Written([job[s] EXCEPT !.unit = u]))
      BY <1>11 DEF WriteUnit
  <2>4. u \in Triples
      BY <1>1 DEF First, Jobs
  <2>5. [job[s] EXCEPT !.unit = u] \in Jobs
      BY <1>1, <2>4 DEF Jobs
  <2>6. /\ [[job[s] EXCEPT !.unit = u] EXCEPT !.phase = "insert_chunk"] \in Jobs
        /\ [[job[s] EXCEPT !.unit = u] EXCEPT !.phase = "insert_embedding"] \in Jobs
      BY <2>5 DEF Jobs, Phases, Writing
  <2> QED
      BY <1>4, <1>10, <2>1, <2>2, <2>3, <2>5, <2>6
<1>12. ASSUME JobOK(s), job[s].phase \in {"insert_chunk", "insert_embedding"}
       PROVE  [Written(job[s]) EXCEPT !.writes = @ \cup {<<job[s].unit, job[s].model>>}] \in Jobs
  <2>1. job[s].unit \in Triples /\ job[s].model \in Names
      BY <1>1, <1>12 DEF JobOK, Jobs
  <2>2. PICK j \in Jobs : j = Written(job[s])
      BY <1>1, <1>10
  <2>3. j.writes \cup {<<job[s].unit, job[s].model>>} \in SUBSET (Triples \X Names)
      BY <2>1 DEF Jobs
  <2>4. [j EXCEPT !.writes = j.writes \cup {<<job[s].unit, job[s].model>>}] \in Jobs
      BY <2>3 DEF Jobs
  <2> QED
      BY <2>2, <2>4
<1>13. ASSUME InsertChunk(s) PROVE TypeOK'
  <2>1. Fail(s) \/ Insert(s)
      BY <1>13 DEF InsertChunk
  <2>2. UNCHANGED Stored /\ job[s].phase = "insert_chunk"
      BY <1>13 DEF InsertChunk, At
  <2> QED
      BY <1>3, <1>4, <1>12, <2>1, <2>2 DEF Insert
<1>14. ASSUME InsertEmbedding(s) PROVE TypeOK'
  <2>1. Fail(s) \/ Insert(s)
      BY <1>14 DEF InsertEmbedding
  <2>2. UNCHANGED Stored /\ job[s].phase = "insert_embedding"
      BY <1>14 DEF InsertEmbedding, At
  <2> QED
      BY <1>3, <1>4, <1>12, <2>1, <2>2 DEF Insert
<1>15. ASSUME Commit(s) PROVE TypeOK'
  <2>1. [job[s] EXCEPT !.phase = "query", !.indexed_now = TRUE, !.writes = {},
                       !.model = "none", !.position = 0] \in Jobs
      BY <1>1 DEF Jobs, Phases, Names
  <2>2. job' \in [Sessions -> Jobs]
      BY <1>15, <2>1 DEF Commit, Update
  <2>3. {w[1] : w \in job[s].writes} \subseteq Triples
      BY <1>1 DEF Jobs
  <2>4. job[s].model \in Names /\ job[s].writes \subseteq Triples \X Names
      BY <1>1 DEF Jobs
  <2> QED
      BY <1>15, <2>2, <2>3, <2>4 DEF Commit
<1>16. ASSUME Retrieve(s) PROVE TypeOK'
  <2>1. UNCHANGED Stored
      BY <1>16 DEF Retrieve
  <2>2. CASE Fail(s)
      BY <1>3, <2>1, <2>2
  <2>3. ASSUME NEW m \in models, NEW near \in Nearest(job[s].version, m),
               Update(s, [job[s] EXCEPT !.phase = "generate",
                                        !.sources = Candidates(near, job[s].version)])
        PROVE  TypeOK'
    <3>1. near \subseteq Triples
        BY DEF Nearest, ChunksOf
    <3>2. [job[s] EXCEPT !.phase = "generate",
                         !.sources = Candidates(near, job[s].version)] \in Jobs
        BY <1>1, <3>1 DEF Candidates, Jobs, Phases
    <3> QED
        BY <1>4, <2>1, <2>3, <3>2
  <2> QED
      BY <1>16, <2>2, <2>3 DEF Retrieve
<1>17. ASSUME Generate(s) PROVE TypeOK'
  <2>1. [job[s] EXCEPT !.phase = "done", !.outcome = "answered"] \in Jobs
      BY <1>1 DEF Jobs, Phases
  <2> QED
      BY <1>3, <1>4, <1>17, <2>1 DEF Generate
<1>18. ASSUME Crash(s) PROVE TypeOK'
    BY <1>3, <1>18 DEF Crash
<1> QED
    BY <1>5, <1>6, <1>7, <1>8, <1>9, <1>11, <1>13, <1>14, <1>15, <1>16, <1>17, <1>18 DEF Step

LEMMA DocumentStepType ==
    ASSUME TypeOK, NewVersion \/ Normalize
    PROVE  TypeOK'
<1> USE DEF TypeOK
<1>1. CASE NewVersion
  <2>1. PICK n \in Sizes : generations' = Append(generations, <<n>>)
      BY <1>1 DEF NewVersion
  <2>2. n \in Nat /\ <<n>> \in Seq(Nat)
      BY RagAssumption
  <2>3. generations' \in Seq(Seq(Nat)) /\ generations' # <<>>
      BY <2>1, <2>2
  <2>4. SemanticChunks(Current + 1) \subseteq Triples
      BY RagAssumption DEF SemanticChunks, Current, Triples
  <2>5. chunks' \subseteq Triples /\ embedded' \subseteq Triples \X Names
      BY <1>1, <2>4 DEF NewVersion
  <2> QED
      BY <1>1, <2>3, <2>5 DEF NewVersion
<1>2. CASE Normalize
  <2>1. PICK v \in Versions, n \in Sizes :
            generations' = [generations EXCEPT ![v] = Append(@, n)]
      BY <1>2 DEF Normalize
  <2>2. n \in Nat /\ generations[v] \in Seq(Nat)
      BY RagAssumption DEF Versions
  <2>3. Append(generations[v], n) \in Seq(Nat)
      BY <2>2
  <2>4. generations' \in Seq(Seq(Nat)) /\ generations' # <<>>
      BY <2>1, <2>3 DEF Versions
  <2> QED
      BY <1>2, <2>4 DEF Normalize
<1> QED
    BY <1>1, <1>2
-----------------------------------------------------------------------------
\* What a step leaves as it is: the tables only grow, and a generation never
\* changes.

Later ==
    /\ kind' = kind
    /\ chunks \subseteq chunks' /\ embedded \subseteq embedded' /\ models \subseteq models'
    /\ Versions \subseteq Versions'
    /\ \A v \in Versions :
          /\ DOMAIN generations[v] \subseteq DOMAIN generations'[v]
          /\ \A g \in DOMAIN generations[v] : generations'[v][g] = generations[v][g]

LEMMA StepGrows ==
    ASSUME TypeOK, Next
    PROVE  Later
<1>1. ASSUME UNCHANGED Stored PROVE Later
    BY <1>1 DEF Later, Stored, Versions
<1>2. ASSUME NEW s \in Sessions, Commit(s) PROVE Later
    BY <1>2 DEF Commit, Later, Versions
<1>3. ASSUME NEW s \in Sessions, Create(s) \/ Step(s) \/ Crash(s) PROVE Later
    BY <1>1, <1>2, <1>3 DEF Step, Create, Crash, CheckUnits, CheckChunks, Source, Embed,
       WriteUnit, InsertChunk, InsertEmbedding, Retrieve, Generate
<1>4. CASE NewVersion
  <2>1. PICK n \in Sizes : generations' = Append(generations, <<n>>)
      BY <1>4 DEF NewVersion
  <2>2. generations \in Seq(Seq(Nat))
      BY DEF TypeOK
  <2>3. Versions \subseteq Versions' /\ \A v \in Versions : generations'[v] = generations[v]
      BY <2>1, <2>2 DEF Versions
  <2> QED
      BY <1>4, <2>3 DEF NewVersion, Later
<1>5. CASE Normalize
  <2>1. PICK v \in Versions, n \in Sizes :
            /\ generations' = [generations EXCEPT ![v] = Append(@, n)]
            /\ UNCHANGED <<kind, chunks, models, embedded>>
      BY <1>5 DEF Normalize
  <2>2. generations \in Seq(Seq(Nat)) /\ n \in Nat
      BY RagAssumption DEF TypeOK
  <2>3. Versions' = Versions
      BY <2>1, <2>2 DEF Versions
  <2>4. generations[v] \in Seq(Nat)
      BY <2>2 DEF Versions
  <2>5. ASSUME NEW w \in Versions
        PROVE  /\ DOMAIN generations[w] \subseteq DOMAIN generations'[w]
               /\ \A g \in DOMAIN generations[w] : generations'[w][g] = generations[w][g]
    <3>1. CASE w = v
      <4>1. generations'[w] = Append(generations[v], n)
          BY <2>1, <2>2, <3>1 DEF Versions
      <4> QED
          BY <2>2, <2>4, <3>1, <4>1
    <3>2. CASE w # v
        BY <2>1, <3>2
    <3> QED
        BY <3>1, <3>2
  <2> QED
      BY <2>1, <2>3, <2>5 DEF Later
<1> QED
    BY <1>3, <1>4, <1>5 DEF Next

LEMMA SameUnits ==
    ASSUME TypeOK, Later, NEW v \in Versions, NEW k \in DOMAIN generations[v]
    PROVE  /\ v \in Versions' /\ k \in DOMAIN generations'[v]
           /\ Generation(v, k)' = Generation(v, k)
           /\ UnitsUpTo(v, k)' = UnitsUpTo(v, k)
           /\ FirstWithUnits(v, k)' <=> FirstWithUnits(v, k)
<1>1. generations[v] \in Seq(Nat) /\ k \in Nat
    BY DEF TypeOK, Versions
<1>2. 1 .. k \subseteq DOMAIN generations[v]
    BY <1>1
<1>3. \A g \in 1 .. k : generations'[v][g] = generations[v][g]
    BY <1>2 DEF Later
<1>4. \A g \in 1 .. k : Generation(v, g)' = Generation(v, g)
    BY <1>3 DEF Generation
<1>5. v \in Versions' /\ k \in DOMAIN generations'[v]
    BY DEF Later
<1>6. UnitsUpTo(v, k)' = UnitsUpTo(v, k)
    BY <1>4 DEF UnitsUpTo
<1>7. FirstWithUnits(v, k)' <=> FirstWithUnits(v, k)
  <2>1. \A h \in 1 .. k - 1 : generations'[v][h] = generations[v][h]
      BY <1>1, <1>3
  <2> QED
      BY <2>1 DEF FirstWithUnits
<1> QED
    BY <1>1, <1>4, <1>5, <1>6, <1>7

LEMMA UnitsStay ==
    ASSUME TypeOK, Later, NEW v \in Versions
    PROVE  UnitsOf(v) \subseteq UnitsOf(v)'
<1> SUFFICES ASSUME NEW u \in UnitsOf(v) PROVE u \in UnitsOf(v)'
    OBVIOUS
<1>1. PICK g \in DOMAIN generations[v] : u \in Generation(v, g)
    BY DEF UnitsOf
<1>2. g \in DOMAIN generations'[v] /\ u \in Generation(v, g)'
    BY <1>1, SameUnits
<1> QED
    BY <1>2 DEF UnitsOf

LEMMA OneSession ==
    ASSUME TypeOK, NEW s \in Sessions, Create(s) \/ Step(s) \/ Crash(s)
    PROVE  \A o \in Sessions \ {s} : job'[o] = job[o]
<1>1. ASSUME NEW j, Update(s, j) PROVE \A o \in Sessions \ {s} : job'[o] = job[o]
    BY <1>1 DEF Update, TypeOK
<1>2. ASSUME Fail(s) PROVE \A o \in Sessions \ {s} : job'[o] = job[o]
    BY <1>1, <1>2 DEF Fail
<1>3. CASE Create(s)
    BY <1>1, <1>2, <1>3 DEF Create
<1>4. CASE CheckUnits(s)
    BY <1>1, <1>4 DEF CheckUnits, Goto
<1>5. CASE CheckChunks(s)
    BY <1>1, <1>5 DEF CheckChunks
<1>6. CASE Source(s)
    BY <1>1, <1>2, <1>6 DEF Source
<1>7. CASE Embed(s)
    BY <1>1, <1>2, <1>7 DEF Embed
<1>8. CASE WriteUnit(s)
    BY <1>1, <1>2, <1>8 DEF WriteUnit
<1>9. CASE InsertChunk(s)
    BY <1>1, <1>2, <1>9 DEF InsertChunk, Insert
<1>10. CASE InsertEmbedding(s)
    BY <1>1, <1>2, <1>10 DEF InsertEmbedding, Insert
<1>11. CASE Commit(s)
    BY <1>1, <1>11 DEF Commit
<1>12. CASE Retrieve(s)
    BY <1>1, <1>2, <1>12 DEF Retrieve
<1>13. CASE Generate(s)
    BY <1>1, <1>2, <1>13 DEF Generate
<1>14. CASE Crash(s)
    BY <1>2, <1>14 DEF Crash
<1> QED
    BY <1>3, <1>4, <1>5, <1>6, <1>7, <1>8, <1>9, <1>10, <1>11, <1>12, <1>13, <1>14 DEF Step

\* The record of a session that does not step stays sound.
LEMMA OtherJob ==
    ASSUME TypeOK, Later, NEW s \in Sessions, JobOK(s), job'[s] = job[s]
    PROVE  JobOK(s)'
<1> DEFINE j == job[s]
<1>1. \A v \in Versions : v \in Versions'
    BY DEF Later
<1>2. ASSUME j.phase = "embed"
      PROVE  \E k \in DOMAIN generations'[j.target] :
                 j.queue = UnitsUpTo(j.target, k)' /\ j.queue # {}
  <2>1. j.target \in Versions
      BY <1>2 DEF JobOK
  <2>2. PICK k \in DOMAIN generations[j.target] :
            j.queue = UnitsUpTo(j.target, k) /\ j.queue # {}
      BY <1>2 DEF JobOK
  <2> QED
      BY <2>1, <2>2, SameUnits
<1>3. ASSUME j.phase \in Writing
      PROVE  \E k \in DOMAIN generations'[j.target] : Progress(s, k)'
  <2>1. j.target \in Versions
      BY <1>3 DEF JobOK
  <2>2. PICK k \in DOMAIN generations[j.target] : Progress(s, k)
      BY <1>3 DEF JobOK
  <2>3. /\ k \in DOMAIN generations'[j.target]
        /\ UnitsUpTo(j.target, k)' = UnitsUpTo(j.target, k)
      BY <2>1, <2>2, SameUnits
  <2>4. chunks \subseteq chunks' /\ embedded \subseteq embedded'
      BY DEF Later
  <2>5. Progress(s, k)'
      BY <2>2, <2>3, <2>4 DEF Progress
  <2> QED
      BY <2>3, <2>5
<1>4. j.phase \in Writing /\ kind' = "pdf" => j.model \in models'
    BY DEF JobOK, Later
<1> QED
    BY <1>1, <1>2, <1>3, <1>4 DEF JobOK

-----------------------------------------------------------------------------
\* The record of the session that steps.

\* A unit is taken in its place: the units taken so far have each an index of
\* their own, and the next one is new.
LEMMA TakeUnit ==
    ASSUME TypeOK, NEW s \in Sessions, JobOK(s), job[s].phase \in Writing,
           NEW u \in job[s].queue, u[3] = job[s].position,
           NEW more \in SUBSET {<<u, job[s].model>>},
           job' = [job EXCEPT ![s] = [Written(job[s]) EXCEPT
                      !.phase = "write", !.queue = job[s].queue \ {u},
                      !.writes = job[s].writes \cup more]],
           UNCHANGED Stored,
           u \in chunks \/ more # {},
           <<u, job[s].model>> \in embedded \cup more
    PROVE  JobOK(s)'
<1>1. job[s] \in Jobs
    BY DEF TypeOK
<1>2. /\ job'[s].phase = "write"
      /\ job'[s].queue = job[s].queue \ {u}
      /\ job'[s].writes = job[s].writes \cup more
      /\ job'[s].target = job[s].target
      /\ job'[s].model = job[s].model
      /\ job'[s].position = job[s].position + 1
      /\ job'[s].outcome = job[s].outcome
      /\ job'[s].version = job[s].version
    BY <1>1 DEF Written, TypeOK, Jobs
<1>3. UNCHANGED <<kind, generations, chunks, models, embedded>>
    BY DEF Stored
<1>4. /\ job[s].target \in Versions
      /\ kind = "pdf" => job[s].model \in models
      /\ job[s].outcome = "none" /\ job[s].version \in Versions
    BY DEF JobOK, Writing
<1>5. PICK k \in DOMAIN generations[job[s].target] : Progress(s, k)
    BY DEF JobOK
<1>6. PICK all : all = UnitsUpTo(job[s].target, k)
    OBVIOUS
<1>7. PICK old : old = all \ job[s].queue
    OBVIOUS
<1>8. PICK new : new = old \cup {u}
    OBVIOUS
<1>9. u \in all /\ all # {} /\ job[s].queue \subseteq all
    BY <1>5, <1>6 DEF Progress
<1>10. new = all \ job'[s].queue
    BY <1>2, <1>7, <1>8, <1>9
<1>11. \A w \in all : w \in Triples
    BY <1>4, <1>6, UnitIn
<1>12. \A w \in old : /\ w[3] < job[s].position
                      /\ w \in chunks \/ \E x \in job[s].writes : x[1] = w
                      /\ <<w, job[s].model>> \in embedded \cup job[s].writes
    BY <1>5, <1>6, <1>7 DEF Progress
<1>13. \A w, x \in old : w[3] = x[3] => w = x
    BY <1>5, <1>6, <1>7 DEF Progress
<1>14. \A w \in job[s].writes : w[1] \in old
    BY <1>5, <1>6, <1>7 DEF Progress
<1>15. job[s].position \in Nat
    BY <1>1 DEF Jobs
<1>16. \A w \in new : w[3] < job'[s].position
  <2>1. \A w \in old : w[3] \in Nat
      BY <1>7, <1>11 DEF Triples
  <2>2. \A w \in old : w[3] < job[s].position + 1
    <3> SUFFICES ASSUME NEW w \in old PROVE w[3] < job[s].position + 1
        OBVIOUS
    <3>1. w[3] < job[s].position /\ w[3] \in Nat
        BY <1>12, <2>1
    <3> QED
        BY <1>15, <3>1
  <2>3. u[3] < job[s].position + 1
      BY <1>15
  <2> QED
      BY <1>2, <1>8, <2>2, <2>3
<1>17. \A w \in new : w \in chunks \/ \E x \in job'[s].writes : x[1] = w
  <2>1. \A w \in old : w \in chunks \/ \E x \in job'[s].writes : x[1] = w
      BY <1>2, <1>12
  <2>2. more # {} => <<u, job[s].model>> \in job'[s].writes
      BY <1>2
  <2>3. u \in chunks \/ \E x \in job'[s].writes : x[1] = u
      BY <2>2
  <2> QED
      BY <1>8, <2>1, <2>3
<1>18. \A w \in new : <<w, job'[s].model>> \in embedded \cup job'[s].writes
    BY <1>2, <1>8, <1>12
<1>19. \A w, x \in new : w[3] = x[3] => w = x
  <2>1. \A w \in old : w[3] \in Nat
      BY <1>7, <1>11 DEF Triples
  <2>2. \A w \in old : w[3] # u[3]
    <3> SUFFICES ASSUME NEW w \in old PROVE w[3] # u[3]
        OBVIOUS
    <3>1. w[3] < job[s].position /\ w[3] \in Nat
        BY <1>12, <2>1
    <3> QED
        BY <1>15, <3>1
  <2> QED
      BY <1>8, <1>13, <2>2
<1>20. \A w \in job'[s].writes : w[1] \in new
    BY <1>2, <1>8, <1>14
<1>21. all = UnitsUpTo(job[s].target, k)'
    BY <1>2, <1>3, <1>6 DEF UnitsUpTo, Generation
<1>22. Progress(s, k)'
    BY <1>2, <1>3, <1>9, <1>10, <1>16, <1>17, <1>18, <1>19, <1>20, <1>21 DEF Progress
<1>23. k \in DOMAIN generations'[job'[s].target] /\ Versions' = Versions
    BY <1>2, <1>3, <1>4, <1>5 DEF Versions
<1> QED
    BY <1>2, <1>3, <1>4, <1>22, <1>23 DEF JobOK, Writing

LEMMA FailJob ==
    ASSUME TypeOK, NEW s \in Sessions, Fail(s)
    PROVE  JobOK(s)'
<1>1. job'[s] = [NewJob EXCEPT !.phase = "done", !.outcome = "failed"]
    BY DEF Fail, Update, TypeOK
<1>2. job'[s].phase = "done"
    BY <1>1 DEF NewJob
<1> QED
    BY <1>2 DEF JobOK, Writing

LEMMA OwnJob ==
    ASSUME TypeOK, RowsOK, NEW s \in Sessions, JobOK(s), Create(s) \/ Step(s) \/ Crash(s)
    PROVE  JobOK(s)'
<1> USE DEF TypeOK
<1>1. job[s] \in Jobs
    OBVIOUS
<1>2. ASSUME NEW j, Update(s, j) PROVE job'[s] = j
    BY <1>2 DEF Update
<1>3. ASSUME Create(s) PROVE JobOK(s)'
  <2>1. ASSUME ~ Fail(s)
        PROVE  \E v \in (IF s \in Attempts THEN Versions ELSE {Current}) :
                   Update(s, [job[s] EXCEPT !.version = v,
                                            !.phase = IF s \in Attempts THEN "query" ELSE "check"])
      BY <1>3, <2>1 DEF Create
  <2>2. job[s] = NewJob
      BY <1>3 DEF Create, At, JobOK
  <2>3. \A v \in (IF s \in Attempts THEN Versions ELSE {Current}) : v \in Versions
      BY DEF Versions, Current
  <2>4. CASE Fail(s)
      BY <2>4, FailJob
  <2>5. ASSUME NEW v \in Versions, NEW next_phase \in {"query", "check"},
               Update(s, [job[s] EXCEPT !.version = v, !.phase = next_phase])
        PROVE  JobOK(s)'
    <3>1. /\ job'[s].phase \in {"query", "check"}
          /\ job'[s].outcome = job[s].outcome /\ job'[s].writes = job[s].writes
          /\ job'[s].position = job[s].position
          /\ job'[s].version = v
        BY ONLY <1>1, <1>2, <2>5 DEF Jobs
    <3>2. Versions' = Versions
        BY <1>3 DEF Create, Stored, Versions
    <3> QED
        BY <2>2, <3>1, <3>2 DEF JobOK, Writing, NewJob
  <2>6. CASE ~ Fail(s)
    <3>1. PICK v \in Versions, next_phase \in {"query", "check"} :
              Update(s, [job[s] EXCEPT !.version = v, !.phase = next_phase])
        BY ONLY <2>1, <2>3, <2>6
    <3> QED
        BY ONLY <2>5, <3>1
  <2> QED
      BY ONLY <2>4, <2>6
<1>4. ASSUME CheckUnits(s) PROVE JobOK(s)'
  <2>1. /\ job'[s].phase \in {"source", "compare"}
        /\ job'[s].outcome = job[s].outcome /\ job'[s].writes = job[s].writes
        /\ job'[s].position = job[s].position
        /\ job'[s].version = job[s].version
    <3>1. \/ Update(s, [job[s] EXCEPT !.phase = "source"])
          \/ \E m \in models :
                Update(s, [job[s] EXCEPT !.phase = "compare", !.model = m,
                                         !.seen = UnitsOf(job[s].version)])
        BY <1>4 DEF CheckUnits, Goto
    <3> QED
        BY <1>1, <1>2, <3>1 DEF Jobs
  <2>2. Versions' = Versions /\ job[s].phase = "check"
      BY <1>4 DEF CheckUnits, Stored, Versions, At
  <2> QED
      BY <2>1, <2>2 DEF JobOK, Writing
<1>5. ASSUME CheckChunks(s) PROVE JobOK(s)'
  <2>1. /\ job'[s].phase \in {"query", "source"}
        /\ job'[s].outcome = job[s].outcome /\ job'[s].writes = job[s].writes
        /\ job'[s].position = job[s].position
        /\ job'[s].version = job[s].version
      BY <1>1, <1>2, <1>5 DEF CheckChunks, Jobs
  <2>2. Versions' = Versions /\ job[s].phase = "compare"
      BY <1>5 DEF CheckChunks, Stored, Versions, At
  <2> QED
      BY <2>1, <2>2 DEF JobOK, Writing
<1>6. ASSUME Source(s), ~ Fail(s) PROVE JobOK(s)'
  <2>1. /\ UnitsOf(Current) # {}
        /\ Update(s, [job[s] EXCEPT !.phase = "embed", !.target = Current,
                                    !.queue = UnitsOf(Current)])
        /\ job[s].phase = "source" /\ UNCHANGED Stored
      BY <1>6 DEF Source, Target, At
  <2>2. /\ job'[s].phase = "embed"
        /\ job'[s].target = Current /\ job'[s].queue = UnitsOf(Current)
        /\ job'[s].outcome = job[s].outcome /\ job'[s].writes = job[s].writes
        /\ job'[s].position = job[s].position
        /\ job'[s].version = job[s].version
      BY ONLY <1>1, <1>2, <2>1 DEF Jobs
  <2>3. Current \in Versions
      BY DEF Current, Versions
  <2>4. PICK k \in DOMAIN generations[Current] : UnitsOf(Current) = UnitsUpTo(Current, k)
      BY <2>1, <2>3, AllUnits
  <2>5. UNCHANGED <<generations, Versions, Current>> /\ UnitsUpTo(Current, k)' = UnitsUpTo(Current, k)
      BY <2>1 DEF Stored, Versions, Current, UnitsUpTo, Generation
  <2>6. PICK c : c = Current
      OBVIOUS
  <2>7. UnitsUpTo(job[s].target, k)' = UnitsUpTo(c, k)
      BY <2>1, <2>2, <2>6 DEF Stored, UnitsUpTo, Generation
  <2> QED
      BY <2>1, <2>2, <2>3, <2>4, <2>5, <2>6, <2>7 DEF JobOK, Writing
<1>7. ASSUME Embed(s), ~ Fail(s) PROVE JobOK(s)'
  <2>1. PICK m \in ModelsFor(s) : Update(s, [job[s] EXCEPT !.phase = "write", !.model = m])
      BY <1>7 DEF Embed
  <2>2. /\ job'[s].phase = "write" /\ job'[s].model = m
        /\ job'[s].target = job[s].target /\ job'[s].queue = job[s].queue
        /\ job'[s].outcome = job[s].outcome /\ job'[s].writes = job[s].writes
        /\ job'[s].position = job[s].position
        /\ job'[s].version = job[s].version
      BY <1>1, <1>2, <2>1 DEF Jobs
  <2>3. /\ job[s].phase = "embed"
        /\ UNCHANGED <<kind, generations, chunks, models, embedded>>
      BY <1>7 DEF Embed, At, Stored
  <2>4. PICK k \in DOMAIN generations[job[s].target] :
            job[s].queue = UnitsUpTo(job[s].target, k) /\ job[s].queue # {}
      BY <2>3 DEF JobOK
  <2>5. UnitsUpTo(job[s].target, k)' = job'[s].queue /\ job'[s].queue # {}
      BY <2>2, <2>3, <2>4 DEF UnitsUpTo, Generation
  <2>6. job'[s].writes = {}
      BY <2>2, <2>3 DEF JobOK
  <2>7. Progress(s, k)'
      BY <2>5, <2>6 DEF Progress
  <2>8. kind = "pdf" => m \in models
      BY DEF RowsOK, ModelsFor
  <2> QED
    <3>1. /\ job'[s].phase = "write" /\ job'[s].outcome = job[s].outcome
          /\ job[s].phase = "embed" /\ Versions' = Versions
          /\ job'[s].version = job[s].version /\ job'[s].target = job[s].target
          /\ job'[s].model = m /\ UNCHANGED <<kind, models>>
        BY ONLY <2>2, <2>3 DEF Versions
    <3>2. /\ \E k_1 \in DOMAIN generations'[job'[s].target] : Progress(s, k_1)'
          /\ kind' = "pdf" => job'[s].model \in models'
        BY ONLY <2>2, <2>3, <2>4, <2>7, <2>8
    <3> QED
        BY ONLY <3>1, <3>2, JobOK(s) DEF JobOK, Writing
<1>8. ASSUME WriteUnit(s), ~ Fail(s) PROVE JobOK(s)'
  <2>1. PICK u \in First(job[s].queue) : InPlace(s, u) /\
            (\/ Update(s, [[job[s] EXCEPT !.unit = u] EXCEPT !.phase = "insert_chunk"])
             \/ Update(s, [[job[s] EXCEPT !.unit = u] EXCEPT !.phase = "insert_embedding"])
             \/ <<u, job[s].model>> \in embedded /\ Update(s, Written([job[s] EXCEPT !.unit = u])))
      BY <1>8 DEF WriteUnit
  <2>2. u \in job[s].queue /\ u[3] = job[s].position
      BY <2>1 DEF First, InPlace
  <2>3. /\ job[s].phase = "write" /\ UNCHANGED Stored
        /\ UNCHANGED <<kind, generations, chunks, models, embedded>>
      BY <1>8 DEF WriteUnit, At, Stored
  <2>4. ASSUME NEW next_phase \in {"insert_chunk", "insert_embedding"},
               Update(s, [[job[s] EXCEPT !.unit = u] EXCEPT !.phase = next_phase])
        PROVE  JobOK(s)'
    <3>1. /\ job'[s].phase = next_phase /\ job'[s].unit = u
          /\ job'[s].target = job[s].target /\ job'[s].queue = job[s].queue
          /\ job'[s].outcome = job[s].outcome /\ job'[s].writes = job[s].writes
          /\ job'[s].position = job[s].position /\ job'[s].model = job[s].model
          /\ job'[s].version = job[s].version
        BY ONLY <1>1, <1>2, <2>4 DEF Jobs
    <3>2. PICK k \in DOMAIN generations[job[s].target] : Progress(s, k)
        BY <2>3 DEF JobOK, Writing
    <3>3. UnitsUpTo(job[s].target, k)' = UnitsUpTo(job[s].target, k)
        BY <2>3, <3>1 DEF UnitsUpTo, Generation
    <3>4. Progress(s, k)'
        BY <2>3, <3>1, <3>2, <3>3 DEF Progress
    <3> QED
        BY <2>2, <2>3, <3>1, <3>2, <3>4 DEF JobOK, Writing, Versions
  <2>5. ASSUME <<u, job[s].model>> \in embedded, Update(s, Written([job[s] EXCEPT !.unit = u]))
        PROVE  JobOK(s)'
    <3>1. u \in chunks
        BY <2>5 DEF RowsOK
    <3>2. Written([job[s] EXCEPT !.unit = u])
            = [Written(job[s]) EXCEPT !.phase = "write", !.queue = job[s].queue \ {u},
                                      !.writes = job[s].writes \cup {}]
        BY <1>1 DEF Written, Jobs
    <3>3. job' = [job EXCEPT ![s] = [Written(job[s]) EXCEPT
                     !.phase = "write", !.queue = job[s].queue \ {u},
                     !.writes = job[s].writes \cup {}]]
        BY <2>5, <3>2 DEF Update
    <3> QED
        BY <2>2, <2>3, <2>5, <3>1, <3>3, TakeUnit DEF Writing
  <2> QED
      BY <2>1, <2>4, <2>5
<1>9. ASSUME InsertChunk(s) \/ InsertEmbedding(s), ~ Fail(s) PROVE JobOK(s)'
  <2>1. /\ Insert(s) /\ UNCHANGED Stored
        /\ job[s].phase \in {"insert_chunk", "insert_embedding"}
      BY <1>9 DEF InsertChunk, InsertEmbedding, At
  <2>2. PICK u : u = job[s].unit
      OBVIOUS
  <2>3. u \in job[s].queue /\ u[3] = job[s].position /\ job[s].phase \in Writing
      BY <2>1, <2>2 DEF JobOK, Writing
  <2>4. [Written(job[s]) EXCEPT !.writes = @ \cup {<<job[s].unit, job[s].model>>}]
          = [Written(job[s]) EXCEPT !.phase = "write", !.queue = job[s].queue \ {u},
                                    !.writes = job[s].writes \cup {<<u, job[s].model>>}]
      BY <1>1, <2>2 DEF Written, Jobs
  <2>5. job' = [job EXCEPT ![s] = [Written(job[s]) EXCEPT
                   !.phase = "write", !.queue = job[s].queue \ {u},
                   !.writes = job[s].writes \cup {<<u, job[s].model>>}]]
      BY <2>1, <2>4 DEF Insert, Update
  <2>6. PICK more \in SUBSET {<<u, job[s].model>>} : more = {<<u, job[s].model>>}
      OBVIOUS
  <2>7. /\ job' = [job EXCEPT ![s] = [Written(job[s]) EXCEPT
                     !.phase = "write", !.queue = job[s].queue \ {u},
                     !.writes = job[s].writes \cup more]]
        /\ more # {} /\ <<u, job[s].model>> \in embedded \cup more
      BY ONLY <2>5, <2>6
  <2> QED
      BY ONLY TypeOK, JobOK(s), <2>1, <2>3, <2>7, TakeUnit
<1>10. ASSUME Commit(s) PROVE JobOK(s)'
  <2>1. /\ job'[s].phase = "query" /\ job'[s].version = job[s].version
        /\ job'[s].outcome = job[s].outcome
      BY <1>1, <1>2, <1>10, ZenonT(60) DEF Commit, Jobs
  <2>2. Versions' = Versions /\ job[s].phase = "write"
      BY <1>10 DEF Commit, Versions, At
  <2> QED
      BY <2>1, <2>2 DEF JobOK, Writing
<1>11. ASSUME Retrieve(s), ~ Fail(s) PROVE JobOK(s)'
  <2>1. /\ job'[s].phase = "generate" /\ job'[s].version = job[s].version
        /\ job'[s].outcome = job[s].outcome
      BY <1>1, <1>2, <1>11 DEF Retrieve, Jobs
  <2>2. Versions' = Versions /\ job[s].phase = "query"
      BY <1>11 DEF Retrieve, Stored, Versions, At
  <2> QED
      BY <2>1, <2>2 DEF JobOK, Writing
<1>12. ASSUME Generate(s), ~ Fail(s) PROVE JobOK(s)'
  <2>1. job'[s].phase = "done"
      BY <1>1, <1>2, <1>12 DEF Generate, Jobs
  <2> QED
      BY <2>1 DEF JobOK, Writing
<1>13. CASE Fail(s)
    BY <1>13, FailJob
<1>14. CASE Crash(s)
    BY <1>14, FailJob DEF Crash
<1> QED
    BY <1>3, <1>4, <1>5, <1>6, <1>7, <1>8, <1>9, <1>10, <1>11, <1>12, <1>13, <1>14 DEF Step

-----------------------------------------------------------------------------
\* The tables.

\* At the end of its queue, a session has taken the units of one generation:
\* the first that has any.
LEMMA OneGeneration ==
    ASSUME TypeOK, NEW s \in Sessions, JobOK(s), job[s].phase = "write", job[s].queue = {}
    PROVE  \E g \in DOMAIN generations[job[s].target] :
               /\ FirstWithUnits(job[s].target, g)
               /\ Generation(job[s].target, g) # {}
               /\ \A u \in Generation(job[s].target, g) :
                     /\ u \in chunks \/ \E w \in job[s].writes : w[1] = u
                     /\ <<u, job[s].model>> \in embedded \cup job[s].writes
               /\ \A w \in job[s].writes : w[1] \in Generation(job[s].target, g)
<1>1. PICK v \in Versions : v = job[s].target
    BY DEF JobOK, Writing
<1>2. PICK k \in DOMAIN generations[v] : Progress(s, k)
    BY <1>1 DEF JobOK, Writing
<1>3. generations[v] \in Seq(Nat) /\ k \in Nat
    BY DEF TypeOK, Versions
<1>4. PICK all : all = UnitsUpTo(v, k)
    OBVIOUS
<1>5. /\ all # {}
      /\ \A u \in all : /\ u \in chunks \/ \E w \in job[s].writes : w[1] = u
                        /\ <<u, job[s].model>> \in embedded \cup job[s].writes
      /\ \A u, w \in all : u[3] = w[3] => u = w
      /\ \A w \in job[s].writes : w[1] \in all
    BY <1>1, <1>2, <1>4 DEF Progress
<1>6. \A u : u \in all <=>
          u \in Triples /\ u[1] = v /\ u[2] \in 1 .. k /\ u[3] < generations[v][u[2]]
    BY <1>4, UnitIn
<1>7. PICK o : o \in all
    BY <1>5
<1>8. PICK g \in 1 .. k : g = o[2]
    BY <1>6, <1>7
<1>9. g \in DOMAIN generations[v] /\ 1 .. k \subseteq DOMAIN generations[v]
    BY <1>3
<1>10. \A h \in 1 .. k : generations[v][h] \in Nat
    BY <1>3, <1>9
<1>11. ASSUME NEW h \in 1 .. k, generations[v][h] # 0
       PROVE  <<v, h, 0>> \in all
  <2>1. <<v, h, 0>> \in Triples
      BY <1>3, SMTT(30) DEF Triples, Versions
  <2>2. 0 < generations[v][h]
      BY <1>10, <1>11
  <2> QED
      BY <1>6, <2>1, <2>2
<1>12. generations[v][g] # 0
  <2>1. o[3] \in Nat /\ o[3] < generations[v][g]
      BY <1>6, <1>7, <1>8 DEF Triples
  <2> QED
      BY <1>10, <2>1
<1>13. ASSUME NEW h \in 1 .. k, generations[v][h] # 0 PROVE h = g
  <2>1. <<v, h, 0>> = <<v, g, 0>>
      BY <1>5, <1>11, <1>12, <1>13
  <2> QED
      BY <2>1
<1>14. FirstWithUnits(v, g)
  <2>1. \A h \in 1 .. g - 1 : h \in 1 .. k /\ h # g
      BY <1>3
  <2> QED
      BY <1>13, <2>1 DEF FirstWithUnits
<1>15. Generation(v, g) = all
  <2>1. ASSUME NEW u \in all PROVE u[2] = g
    <3>1. u[2] \in 1 .. k /\ u[3] \in Nat /\ u[3] < generations[v][u[2]]
        BY <1>6, <2>1 DEF Triples
    <3>2. generations[v][u[2]] # 0
        BY <1>10, <3>1
    <3> QED
        BY <1>13, <3>1, <3>2
  <2>2. \A u : u \in Generation(v, g) <=>
            u \in Triples /\ u[1] = v /\ u[2] = g /\ u[3] < generations[v][g]
      BY <1>9, GenerationIn
  <2>3. \A u : u \in Generation(v, g) <=> u \in all
      BY <1>6, <2>1, <2>2
  <2> QED
      BY <2>3
<1> QED
    BY <1>1, <1>5, <1>9, <1>14, <1>15

\* Two generations that are each the first with units are the same one.
LEMMA OneFirst ==
    ASSUME TypeOK, NEW v \in Versions,
           NEW g \in DOMAIN generations[v], NEW h \in DOMAIN generations[v],
           FirstWithUnits(v, g), FirstWithUnits(v, h),
           Generation(v, g) # {}, Generation(v, h) # {}
    PROVE  g = h
<1>1. generations[v] \in Seq(Nat) /\ g \in Nat /\ h \in Nat /\ g >= 1 /\ h >= 1
    BY DEF TypeOK, Versions
<1>2. generations[v][g] # 0 /\ generations[v][h] # 0
  <2>1. \A x \in DOMAIN generations[v] : generations[v][x] = 0 => Generation(v, x) = {}
      BY DEF Generation
  <2> QED
      BY <2>1
<1>3. ~ (g \in 1 .. h - 1) /\ ~ (h \in 1 .. g - 1)
    BY <1>2 DEF FirstWithUnits
<1> QED
    BY <1>1, <1>3

\* A commit keeps the index whole.
LEMMA CommitWhole ==
    ASSUME TypeOK, TypeOK', Later, NEW s \in Sessions, JobOK(s), WholeFirst, Commit(s)
    PROVE  WholeFirst'
<1> SUFFICES ASSUME NEW v \in Versions', NormalizedChunks(v)' # {}
             PROVE  \E g \in DOMAIN generations'[v] : \E m \in models' :
                        /\ FirstWithUnits(v, g)'
                        /\ NormalizedChunks(v)' = Generation(v, g)'
                        /\ Generation(v, g)' \X {m} \subseteq embedded'
    BY DEF WholeFirst
<1>1. /\ generations' = generations /\ Versions' = Versions
      /\ job[s].phase = "write" /\ job[s].queue = {}
      /\ chunks' = chunks \cup {w[1] : w \in job[s].writes}
      /\ embedded' = embedded \cup job[s].writes
      /\ models' = models \cup {job[s].model}
    BY DEF Commit, At, Versions
<1>2. PICK g \in DOMAIN generations[job[s].target] :
          /\ FirstWithUnits(job[s].target, g)
          /\ Generation(job[s].target, g) # {}
          /\ \A u \in Generation(job[s].target, g) :
                /\ u \in chunks \/ \E w \in job[s].writes : w[1] = u
                /\ <<u, job[s].model>> \in embedded \cup job[s].writes
          /\ \A w \in job[s].writes : w[1] \in Generation(job[s].target, g)
    BY <1>1, OneGeneration
<1>3. PICK t \in Versions : t = job[s].target
    BY <1>1 DEF JobOK, Writing
<1>4. \A u \in Generation(t, g) : u \in Triples /\ u[1] = t /\ u[2] # 0
  <2>1. g # 0
      BY <1>3 DEF TypeOK, Versions
  <2> QED
      BY <1>2, <1>3, <2>1, GenerationIn
<1>5. PICK old : old = NormalizedChunks(v)
    OBVIOUS
<1>6. PICK new : new = NormalizedChunks(v)'
    OBVIOUS
<1>7. \A c : c \in new <=> c \in chunks' /\ c[1] = v /\ c[2] # 0
    BY <1>6 DEF NormalizedChunks, ChunksOf
<1>8. \A c : c \in old <=> c \in chunks /\ c[1] = v /\ c[2] # 0
    BY <1>5 DEF NormalizedChunks, ChunksOf
<1>9. old = {} \/ \E h \in DOMAIN generations[v] : \E m \in models :
          /\ FirstWithUnits(v, h)
          /\ old = Generation(v, h)
          /\ Generation(v, h) \X {m} \subseteq embedded
    BY <1>1, <1>5 DEF WholeFirst
<1>10. \A h : Generation(v, h)' = Generation(v, h) /\ (FirstWithUnits(v, h)' <=> FirstWithUnits(v, h))
    BY <1>1 DEF Generation, FirstWithUnits
<1>11. CASE v # t
  <2>1. \A w \in job[s].writes : w[1][1] = t
      BY <1>2, <1>3, <1>4
  <2>2. new = old
    <3>1. \A c : c \in chunks' /\ c[1] = v => c \in chunks
        BY <1>1, <1>11, <2>1
    <3>2. \A c : c \in new <=> c \in old
        BY <1>1, <1>7, <1>8, <3>1
    <3> QED
        BY <3>2
  <2> QED
      BY <1>1, <1>6, <1>9, <1>10, <2>2
<1>12. CASE v = t
  <2>1. old \subseteq Generation(t, g)
    <3>1. CASE old = {}
        BY <3>1
    <3>2. CASE old # {}
      <4>1. PICK h \in DOMAIN generations[v] : FirstWithUnits(v, h) /\ old = Generation(v, h)
          BY <1>9, <3>2
      <4>2. h = g
          BY <1>2, <1>3, <1>12, <3>2, <4>1, OneFirst
      <4> QED
          BY <1>12, <4>1, <4>2
    <3> QED
        BY <3>1, <3>2
  <2>2. new \subseteq Generation(t, g)
    <3> SUFFICES ASSUME NEW c \in new PROVE c \in Generation(t, g)
        OBVIOUS
    <3>1. c \in old \/ \E w \in job[s].writes : c = w[1]
        BY <1>1, <1>7, <1>8
    <3> QED
        BY <1>2, <1>3, <2>1, <3>1
  <2>3. Generation(t, g) \subseteq new
    <3> SUFFICES ASSUME NEW c \in Generation(t, g) PROVE c \in new
        OBVIOUS
    <3>1. c \in chunks'
        BY <1>1, <1>2, <1>3
    <3> QED
        BY <1>4, <1>7, <1>12, <3>1
  <2>4. Generation(t, g) \X {job[s].model} \subseteq embedded'
      BY <1>1, <1>2, <1>3
  <2>5. job[s].model \in models' /\ g \in DOMAIN generations'[v] /\ FirstWithUnits(v, g)
      BY <1>1, <1>2, <1>3, <1>12
  <2> QED
      BY <1>6, <1>10, <1>12, <2>2, <2>3, <2>4, <2>5
<1> QED
    BY <1>11, <1>12

\* Nothing else touches the chunks of normalized units.
LEMMA StepWhole ==
    ASSUME TypeOK, TypeOK', Later, RowsOK, WholeFirst, Next, \A s \in Sessions : JobOK(s)
    PROVE  WholeFirst'
<1>1. ASSUME NEW s \in Sessions, Commit(s) PROVE WholeFirst'
    BY <1>1, CommitWhole
<1>2. ASSUME \A v \in Versions' :
                 \/ NormalizedChunks(v)' = {}
                 \/ v \in Versions /\ NormalizedChunks(v)' = NormalizedChunks(v)
      PROVE  WholeFirst'
  <2> SUFFICES ASSUME NEW v \in Versions', NormalizedChunks(v)' # {}
               PROVE  \E g \in DOMAIN generations'[v] : \E m \in models' :
                          /\ FirstWithUnits(v, g)'
                          /\ NormalizedChunks(v)' = Generation(v, g)'
                          /\ Generation(v, g)' \X {m} \subseteq embedded'
      BY DEF WholeFirst
  <2>1. v \in Versions /\ NormalizedChunks(v)' = NormalizedChunks(v)
      BY <1>2
  <2>2. PICK g \in DOMAIN generations[v], m \in models :
            /\ FirstWithUnits(v, g)
            /\ NormalizedChunks(v) = Generation(v, g)
            /\ Generation(v, g) \X {m} \subseteq embedded
      BY <2>1 DEF WholeFirst
  <2>3. /\ g \in DOMAIN generations'[v] /\ FirstWithUnits(v, g)'
        /\ Generation(v, g)' = Generation(v, g)
      BY <2>1, <2>2, SameUnits
  <2>4. m \in models' /\ embedded \subseteq embedded'
      BY DEF Later
  <2> QED
      BY <2>1, <2>2, <2>3, <2>4
<1>3. ASSUME UNCHANGED chunks PROVE WholeFirst'
  <2>1. \A v : NormalizedChunks(v)' = NormalizedChunks(v)
      BY <1>3 DEF NormalizedChunks, ChunksOf
  <2>2. \A v : NormalizedChunks(v) # {} => v \in Versions
      BY DEF NormalizedChunks, ChunksOf, RowsOK
  <2> QED
      BY <1>2, <2>1, <2>2
<1>4. ASSUME NewVersion PROVE WholeFirst'
  <2>1. chunks' \subseteq chunks \cup SemanticChunks(Current + 1) /\ chunks \subseteq chunks'
      BY <1>4 DEF NewVersion
  <2>2. \A c \in SemanticChunks(Current + 1) : c[2] = 0
      BY DEF SemanticChunks
  <2>3. \A v : NormalizedChunks(v)' = NormalizedChunks(v)
      BY <2>1, <2>2 DEF NormalizedChunks, ChunksOf
  <2>4. \A v : NormalizedChunks(v) # {} => v \in Versions
      BY DEF NormalizedChunks, ChunksOf, RowsOK
  <2> QED
      BY <1>2, <2>3, <2>4
<1> QED
    BY <1>1, <1>3, <1>4 DEF Next, Create, Step, Crash, CheckUnits, CheckChunks, Source, Embed,
       WriteUnit, InsertChunk, InsertEmbedding, Retrieve, Generate, Normalize, Stored

\* A commit adds chunks of units of its version.
LEMMA CommittedUnits ==
    ASSUME TypeOK, NEW s \in Sessions, JobOK(s), Commit(s)
    PROVE  \A c \in chunks' : c \in chunks \/ (c[1] \in Versions /\ c[2] # 0)
<1>1. /\ job[s].phase = "write" /\ job[s].queue = {}
      /\ chunks' = chunks \cup {w[1] : w \in job[s].writes}
    BY DEF Commit, At
<1>2. PICK t \in Versions : t = job[s].target
    BY <1>1 DEF JobOK, Writing
<1>3. PICK g \in DOMAIN generations[t] : \A w \in job[s].writes : w[1] \in Generation(t, g)
    BY <1>1, <1>2, OneGeneration
<1>4. g # 0
    BY DEF TypeOK, Versions
<1>5. \A u \in Generation(t, g) : u[1] = t /\ u[2] # 0
    BY <1>4, GenerationIn
<1> QED
    BY <1>1, <1>3, <1>5

LEMMA StepRows ==
    ASSUME TypeOK, TypeOK', Later, RowsOK, Next, \A s \in Sessions : JobOK(s)
    PROVE  RowsOK'
<1>1. ASSUME UNCHANGED <<kind, chunks, models, embedded>> PROVE RowsOK'
    BY <1>1 DEF RowsOK, Later
<1>2. ASSUME NEW s \in Sessions, Commit(s) PROVE RowsOK'
  <2>1. /\ kind' = kind /\ Versions' = Versions
        /\ job[s].phase = "write" /\ job[s].queue = {}
        /\ chunks' = chunks \cup {w[1] : w \in job[s].writes}
        /\ embedded' = embedded \cup job[s].writes
        /\ models' = models \cup {job[s].model}
      BY <1>2 DEF Commit, At, Versions
  <2>5. kind = "pdf" => models' = models
      BY <2>1 DEF JobOK, Writing
  <2>6. IsFiniteSet(models')
      BY <2>1, FS_AddElement DEF RowsOK
  <2>7. \A c \in chunks' : c[1] \in Versions'
      BY <1>2, <2>1, CommittedUnits DEF RowsOK
  <2>8. \A e \in embedded' : e[1] \in chunks'
      BY <2>1 DEF RowsOK
  <2>9. \A c \in chunks' : c[2] = 0 => c \in chunks
      BY <1>2, CommittedUnits
  <2> QED
      BY <2>1, <2>5, <2>6, <2>7, <2>8, <2>9 DEF RowsOK
<1>3. ASSUME NewVersion PROVE RowsOK'
  <2>1. PICK stored : stored = IF kind = "pdf" THEN SemanticChunks(Current + 1) ELSE {}
      OBVIOUS
  <2>2. /\ chunks' = chunks \cup stored
        /\ embedded' = embedded \cup (stored \X models)
        /\ kind' = kind /\ models' = models
      BY <1>3, <2>1 DEF NewVersion
  <2>3. PICK n \in Sizes : generations' = Append(generations, <<n>>)
      BY <1>3 DEF NewVersion
  <2>4. Current + 1 \in Versions'
      BY <2>3 DEF TypeOK, Versions, Current
  <2>5. \A c \in stored : kind = "pdf" /\ c[1] = Current + 1 /\ c \in SemanticChunks(c[1])
      BY <2>1 DEF SemanticChunks
  <2>6. \A c \in chunks' : c[1] \in Versions'
      BY <2>2, <2>4, <2>5 DEF RowsOK, Later
  <2>7. \A e \in embedded' : e[1] \in chunks'
      BY <2>2 DEF RowsOK
  <2>8. \A c \in chunks' : c[2] = 0 =>
            /\ kind = "pdf" /\ c \in SemanticChunks(c[1])
            /\ \A m \in models : <<c, m>> \in embedded'
      BY <2>2, <2>5 DEF RowsOK
  <2> QED
      BY <2>2, <2>6, <2>7, <2>8 DEF RowsOK
<1> QED
    BY <1>1, <1>2, <1>3 DEF Next, Create, Step, Crash, CheckUnits, CheckChunks, Source, Embed,
       WriteUnit, InsertChunk, InsertEmbedding, Retrieve, Generate, Normalize, Stored

-----------------------------------------------------------------------------
\* The answers.

\* Chunks of normalized units stay.
LEMMA ChunksStay ==
    ASSUME Later, NEW v
    PROVE  NormalizedChunks(v) \subseteq NormalizedChunks(v)'
<1> QED
    BY DEF Later, NormalizedChunks, ChunksOf

\* What a session knows stays right while others step.
LEMMA OtherAnswer ==
    ASSUME TypeOK, Later, NEW s \in Sessions, JobOK(s), AnswerOK(s), job'[s] = job[s]
    PROVE  AnswerOK(s)'
<1>1. PICK j : j = job[s]
    OBVIOUS
<1>2. PICK v : v = j.version
    OBVIOUS
<1>3. PICK b : b = Basis(s)
    OBVIOUS
<1>4. Basis(s)' = b /\ (Answered(s)' <=> Answered(s))
    BY <1>3 DEF Basis, Answered
<1>5. j.phase = "check" => v \in Versions
    BY <1>1, <1>2 DEF JobOK
<1>6. j.phase = "check" /\ s \in Requests => UnitsOf(v)' # {}
    BY <1>1, <1>2, <1>5, UnitsStay DEF AnswerOK
<1>7. /\ NormalizedChunks(v) \subseteq NormalizedChunks(v)'
      /\ NormalizedChunks(b) \subseteq NormalizedChunks(b)'
    BY ChunksStay
<1>8. \A w \in Versions : w \in Versions'
    BY DEF Later
<1> QED
    BY <1>1, <1>2, <1>3, <1>4, <1>6, <1>7, <1>8 DEF AnswerOK

\* A session that only goes on to another phase before it asks.
LEMMA Onwards ==
    ASSUME NEW s \in Sessions, AnswerOK(s), job'[s].outcome = "none",
           job[s].phase \notin {"query", "generate", "done"},
           job'[s].phase \notin {"check", "compare", "query", "generate", "done"},
           job'[s].indexed_now = job[s].indexed_now, job'[s].sources = job[s].sources
    PROVE  AnswerOK(s)'
<1>1. ~ job'[s].indexed_now /\ job'[s].sources = {}
    BY DEF AnswerOK
<1> QED
    BY <1>1 DEF AnswerOK, Answered

\* What the session that steps knows.
LEMMA OwnAnswer ==
    ASSUME TypeOK, TypeOK', Later, NEW s \in Sessions,
           JobOK(s), JobOK(s)', AnswerOK(s), Create(s) \/ Step(s) \/ Crash(s)
    PROVE  AnswerOK(s)'
<1>1. job[s] \in Jobs
    BY DEF TypeOK
<1>2. ASSUME NEW j, Update(s, j) PROVE job'[s] = j
    BY <1>2 DEF Update, TypeOK
<1>3. CASE Fail(s)
  <2>1. /\ job'[s].phase = "done" /\ job'[s].outcome = "failed" /\ job'[s].sources = {}
      BY <1>2, <1>3 DEF Fail, NewJob
  <2> QED
      BY <2>1 DEF AnswerOK, Answered
<1>4. ASSUME Create(s), ~ Fail(s) PROVE AnswerOK(s)'
  <2>1. PICK v \in IF s \in Attempts THEN Versions ELSE {Current} :
            /\ UnitsOf(v) # {}
            /\ Update(s, [job[s] EXCEPT !.version = v,
                             !.phase = IF s \in Attempts THEN "query" ELSE "check"])
      BY <1>4 DEF Create
  <2>2. job[s] = NewJob /\ UNCHANGED Stored
      BY <1>4 DEF Create, At, JobOK
  <2>3. job'[s] = [NewJob EXCEPT !.version = v,
                                 !.phase = IF s \in Attempts THEN "query" ELSE "check"]
      BY <1>2, <2>1, <2>2
  <2>4. /\ job'[s].sources = {} /\ ~ job'[s].indexed_now /\ job'[s].outcome = "none"
        /\ job'[s].version = v /\ job'[s].phase = IF s \in Attempts THEN "query" ELSE "check"
      BY <2>3 DEF NewJob
  <2>5. v \in Versions
      BY DEF Current, Versions, TypeOK
  <2>6. UnitsOf(v)' # {}
      BY <2>1, <2>5, UnitsStay
  <2>7. s \in Requests => s \notin Attempts
      BY RagAssumption
  <2> QED
      BY <2>4, <2>6, <2>7 DEF AnswerOK, Answered
<1>5. ASSUME CheckUnits(s) PROVE AnswerOK(s)'
  <2>1. \/ Update(s, [job[s] EXCEPT !.phase = "source"])
        \/ \E m \in models :
              Update(s, [job[s] EXCEPT !.phase = "compare", !.model = m,
                                       !.seen = UnitsOf(job[s].version)])
      BY <1>5 DEF CheckUnits, Goto
  <2>2. /\ job'[s].phase \in {"source", "compare"} /\ job'[s].outcome = job[s].outcome
        /\ job'[s].indexed_now = job[s].indexed_now /\ job'[s].sources = job[s].sources
        /\ job'[s].phase = "compare" => job'[s].seen = UnitsOf(job[s].version)
    <3>1. CASE job'[s] = [job[s] EXCEPT !.phase = "source"]
        BY <1>1, <3>1 DEF Jobs
    <3>2. ASSUME NEW m, job'[s] = [job[s] EXCEPT !.phase = "compare", !.model = m,
                                                 !.seen = UnitsOf(job[s].version)]
          PROVE  /\ job'[s].phase = "compare" /\ job'[s].outcome = job[s].outcome
                 /\ job'[s].indexed_now = job[s].indexed_now /\ job'[s].sources = job[s].sources
                 /\ job'[s].seen = UnitsOf(job[s].version)
        BY <1>1, <3>2 DEF Jobs
    <3> QED
        BY <1>2, <2>1, <3>1, <3>2
  <2>3. job[s].phase = "check"
      BY <1>5 DEF CheckUnits, At
  <2>4. /\ job[s].outcome = "none" /\ ~ job[s].indexed_now /\ job[s].sources = {}
        /\ s \in Requests => UnitsOf(job[s].version) # {}
      BY <2>3 DEF AnswerOK, JobOK
  <2>5. /\ job'[s].phase \in {"source", "compare"} /\ job'[s].outcome = "none"
        /\ ~ job'[s].indexed_now /\ job'[s].sources = {}
        /\ s \in Requests /\ job'[s].phase = "compare" => job'[s].seen # {}
      BY ONLY <2>2, <2>4
  <2> QED
      BY ONLY <2>5 DEF AnswerOK, Answered
<1>6. ASSUME CheckChunks(s) PROVE AnswerOK(s)'
  <2>1. /\ job[s].phase = "compare" /\ UNCHANGED Stored
        /\ Update(s, [job[s] EXCEPT !.seen = {}, !.model = "none",
              !.phase = IF IsIndexed(job[s].version, job[s].seen, job[s].model)
                        THEN "query" ELSE "source"])
      BY <1>6 DEF CheckChunks, At
  <2>2. /\ s \in Requests => job[s].seen # {}
        /\ job[s].outcome = "none" /\ ~ job[s].indexed_now /\ job[s].sources = {}
      BY <2>1 DEF AnswerOK, JobOK
  <2>3. PICK v \in Versions : v = job[s].version
      BY <2>1 DEF JobOK
  <2>4. /\ job'[s].phase = "query" \/ job'[s].phase = "source"
        /\ job'[s].phase = "query" => NormalizedChunks(v) = job[s].seen
        /\ job'[s].outcome = "none" /\ job'[s].version = v
        /\ job'[s].indexed_now = job[s].indexed_now /\ job'[s].sources = job[s].sources
      BY <1>1, <1>2, <2>1, <2>2, <2>3, ZenonT(60) DEF Jobs, IsIndexed
  <2>5. ~ job'[s].indexed_now /\ job'[s].sources = {}
      BY ONLY <2>2, <2>4
  <2>6. v \in Versions' /\ NormalizedChunks(v)' = NormalizedChunks(v)
      BY <2>1 DEF Stored, Versions, NormalizedChunks, ChunksOf
  <2>7. Basis(s)' = v
      BY <2>4, <2>5 DEF Basis
  <2>8. s \in Requests /\ Answered(s)' => NormalizedChunks(v)' # {}
      BY <2>2, <2>4, <2>6 DEF Answered
  <2> QED
      BY <2>4, <2>5, <2>6, <2>7, <2>8 DEF AnswerOK
<1>7. ASSUME job[s].phase \in {"source", "embed"} \cup Writing,
             job'[s].phase \in {"embed"} \cup Writing,
             job'[s].indexed_now = job[s].indexed_now, job'[s].sources = job[s].sources
      PROVE  AnswerOK(s)'
  <2>1. /\ job[s].phase \in {"source", "embed", "write", "insert_chunk", "insert_embedding"}
        /\ job'[s].phase \in {"embed", "write", "insert_chunk", "insert_embedding"}
      BY ONLY <1>7 DEF Writing
  <2>2. job'[s].outcome = "none"
      BY <2>1 DEF JobOK
  <2> QED
      BY <1>7, <2>1, <2>2, Onwards
<1>8. ASSUME Source(s), ~ Fail(s) PROVE AnswerOK(s)'
  <2>1. PICK v, q :
            Update(s, [job[s] EXCEPT !.phase = "embed", !.target = v, !.queue = q])
      BY <1>8 DEF Source
  <2>2. /\ job'[s].phase = "embed" /\ job'[s].indexed_now = job[s].indexed_now
        /\ job'[s].sources = job[s].sources
      BY ONLY <1>1, <1>2, <2>1 DEF Jobs
  <2>3. job[s].phase = "source"
      BY <1>8 DEF Source, At
  <2> QED
      BY ONLY <1>7, <2>2, <2>3
<1>9. ASSUME Embed(s), ~ Fail(s) PROVE AnswerOK(s)'
  <2>1. PICK m : Update(s, [job[s] EXCEPT !.phase = "write", !.model = m])
      BY <1>9 DEF Embed
  <2>2. /\ job'[s].phase = "write" /\ job'[s].indexed_now = job[s].indexed_now
        /\ job'[s].sources = job[s].sources
      BY ONLY <1>1, <1>2, <2>1 DEF Jobs
  <2>3. job[s].phase = "embed"
      BY <1>9 DEF Embed, At
  <2> QED
      BY ONLY <1>7, <2>2, <2>3 DEF Writing
<1>10. \A j \in Jobs : /\ Written(j).phase = "write" /\ Written(j).indexed_now = j.indexed_now
                       /\ Written(j).sources = j.sources
    BY DEF Written, Jobs
<1>11. ASSUME WriteUnit(s), ~ Fail(s) PROVE AnswerOK(s)'
  <2>1. PICK u \in job[s].queue :
            \/ Update(s, [[job[s] EXCEPT !.unit = u] EXCEPT !.phase = "insert_chunk"])
            \/ Update(s, [[job[s] EXCEPT !.unit = u] EXCEPT !.phase = "insert_embedding"])
            \/ Update(s, Written([job[s] EXCEPT !.unit = u]))
      BY <1>11 DEF WriteUnit, First
  <2>2. PICK f : f = [job[s] EXCEPT !.unit = u]
      OBVIOUS
  <2>3. f \in Jobs /\ f.indexed_now = job[s].indexed_now /\ f.sources = job[s].sources
      BY <1>1, <2>2 DEF Jobs
  <2>4. \/ job'[s] = [f EXCEPT !.phase = "insert_chunk"]
        \/ job'[s] = [f EXCEPT !.phase = "insert_embedding"]
        \/ job'[s] = Written(f)
      BY <1>2, <2>1, <2>2
  <2>5. /\ job'[s].phase \in Writing /\ job'[s].indexed_now = f.indexed_now
        /\ job'[s].sources = f.sources
      BY <1>10, <2>4, <2>3 DEF Jobs, Writing
  <2>6. job[s].phase = "write"
      BY <1>11 DEF WriteUnit, At
  <2> QED
      BY ONLY <1>7, <2>5, <2>6, <2>3 DEF Writing
<1>12. ASSUME Insert(s), job[s].phase \in {"insert_chunk", "insert_embedding"} PROVE AnswerOK(s)'
  <2>1. /\ job'[s].phase = "write" /\ job'[s].indexed_now = job[s].indexed_now
        /\ job'[s].sources = job[s].sources
      BY ONLY <1>1, <1>2, <1>12 DEF Insert, Written, Jobs
  <2> QED
      BY ONLY <1>7, <1>12, <2>1 DEF Writing
<1>13. ASSUME Commit(s) PROVE AnswerOK(s)'
  <2>1. PICK t \in Versions : t = job[s].target
      BY <1>13 DEF Commit, At, JobOK, Writing
  <2>2. PICK g \in DOMAIN generations[t] :
            /\ Generation(t, g) # {}
            /\ \A u \in Generation(t, g) : u \in chunks \/ \E w \in job[s].writes : w[1] = u
      BY <1>13, <2>1, OneGeneration, ZenonT(60) DEF Commit, At
  <2>3. PICK u : u \in Generation(t, g)
      BY <2>2
  <2>4. u[1] = t /\ u[2] # 0
    <3>1. g # 0
        BY DEF TypeOK, Versions
    <3> QED
        BY <2>3, <3>1, GenerationIn
  <2>5. u \in chunks'
      BY <1>13, <2>2, <2>3 DEF Commit
  <2>6. NormalizedChunks(t)' # {}
      BY <2>4, <2>5 DEF NormalizedChunks, ChunksOf
  <2>7. /\ job'[s].phase = "query" /\ job'[s].indexed_now = TRUE /\ job'[s].target = t
        /\ job'[s].sources = job[s].sources
    <3>1. job'[s] = [job[s] EXCEPT !.phase = "query", !.indexed_now = TRUE, !.writes = {},
                                   !.model = "none", !.position = 0]
        BY <1>2, <1>13 DEF Commit
    <3> QED
        BY <1>1, <2>1, <3>1 DEF Jobs
  <2>8. job'[s].sources = {}
      BY <1>13, <2>7 DEF AnswerOK, Commit, At
  <2>9. Basis(s)' = t /\ t \in Versions'
      BY <2>7 DEF Basis, Later
  <2> QED
      BY <2>6, <2>7, <2>8, <2>9 DEF AnswerOK
<1>14. ASSUME Retrieve(s), ~ Fail(s) PROVE AnswerOK(s)'
  <2>1. PICK v \in Versions : v = job[s].version
      BY <1>14 DEF Retrieve, At, JobOK
  <2> PICK m \in models : \E near \in Nearest(v, m) :
            Update(s, [job[s] EXCEPT !.phase = "generate", !.sources = Candidates(near, v)])
      BY <1>14, <2>1 DEF Retrieve
  <2>2. PICK near \in Nearest(v, m) :
            Update(s, [job[s] EXCEPT !.phase = "generate", !.sources = Candidates(near, v)])
      OBVIOUS
  <2>3. job[s].phase = "query" /\ UNCHANGED Stored
      BY <1>14 DEF Retrieve, At
  <2>4. /\ job'[s].phase = "generate" /\ job'[s].sources = Candidates(near, v)
        /\ job'[s].version = v /\ job'[s].indexed_now = job[s].indexed_now
        /\ job'[s].target = job[s].target
      BY <1>1, <1>2, <2>1, <2>2 DEF Jobs
  <2>5. Candidates(near, v) \subseteq NormalizedChunks(v)
    <3>1. \A c \in UnitsOf(v) : c[2] # 0
      <4>1. \A k \in DOMAIN generations[v] : k # 0
          BY DEF TypeOK, Versions
      <4> QED
          BY <4>1, GenerationIn DEF UnitsOf
    <3>2. near \subseteq ChunksOf(v)
        BY DEF Nearest
    <3> QED
        BY <3>1, <3>2 DEF Candidates, NormalizedChunks
  <2>6. PICK b : b = Basis(s)
      OBVIOUS
  <2>7. Basis(s)' = b
      BY <2>1, <2>4, <2>6 DEF Basis
  <2>8. /\ Versions' = Versions /\ NormalizedChunks(v)' = NormalizedChunks(v)
        /\ NormalizedChunks(b)' = NormalizedChunks(b)
      BY <2>3 DEF Stored, Versions, NormalizedChunks, ChunksOf
  <2>9. s \in Requests => b \in Versions /\ NormalizedChunks(b) # {}
      BY <2>3, <2>6 DEF AnswerOK, Answered
  <2> QED
      BY <2>4, <2>5, <2>7, <2>8, <2>9 DEF AnswerOK
<1>15. ASSUME Generate(s), ~ Fail(s) PROVE AnswerOK(s)'
  <2>1. /\ job[s].phase = "generate" /\ UNCHANGED Stored
        /\ Update(s, [job[s] EXCEPT !.phase = "done", !.outcome = "answered"])
      BY <1>15 DEF Generate, At
  <2>2. /\ job'[s].phase = "done" /\ job'[s].version = job[s].version
        /\ job'[s].sources = job[s].sources
        /\ job'[s].indexed_now = job[s].indexed_now /\ job'[s].target = job[s].target
      BY ONLY <1>1, <1>2, <2>1 DEF Jobs
  <2>3. PICK b : b = Basis(s)
      OBVIOUS
  <2>4. PICK v : v = job[s].version
      OBVIOUS
  <2>5. Basis(s)' = b
      BY <2>2, <2>3 DEF Basis
  <2>6. /\ Versions' = Versions /\ NormalizedChunks(v)' = NormalizedChunks(v)
        /\ NormalizedChunks(b)' = NormalizedChunks(b)
      BY <2>1 DEF Stored, Versions, NormalizedChunks, ChunksOf
  <2>7. /\ s \in Requests => b \in Versions /\ NormalizedChunks(b) # {}
        /\ job[s].sources # {} => v \in Versions /\ job[s].sources \subseteq NormalizedChunks(v)
      BY <2>1, <2>3, <2>4 DEF AnswerOK, Answered
  <2> QED
      BY <2>2, <2>4, <2>5, <2>6, <2>7 DEF AnswerOK
<1>16. CASE Crash(s)
    BY <1>3, <1>16 DEF Crash
<1> QED
    BY <1>3, <1>4, <1>5, <1>6, <1>8, <1>9, <1>11, <1>12, <1>13, <1>14, <1>15, <1>16
    DEF Step, InsertChunk, InsertEmbedding, At

-----------------------------------------------------------------------------
\* The invariant, and what it says of the answers.

LEMMA Initially == Init => IInv
<1> SUFFICES ASSUME Init PROVE IInv
    OBVIOUS
<1>1. TypeOK
    BY InitType
<1>2. generations \in Seq(Seq(Nat)) /\ Len(generations) = 1 /\ Versions = 1 .. 1
  <2>1. PICK n \in Sizes : generations = <<<<n>>>>
      BY DEF Init
  <2> QED
      BY <1>1, <2>1 DEF TypeOK, Versions
<1>3. \A c \in chunks : kind = "pdf" /\ c[1] = 1 /\ c[2] = 0 /\ c \in SemanticChunks(c[1])
    BY DEF Init, SemanticChunks
<1>4. RowsOK
  <2>1. IsFiniteSet(models)
    <3>1. models = {"indexing"} \/ models = {}
        BY DEF Init
    <3> QED
        BY <3>1, FS_EmptySet, FS_Singleton
  <2>2. kind = "pdf" => models # {}
      BY DEF Init
  <2>3. embedded = chunks \X models
      BY DEF Init
  <2> QED
      BY <1>2, <1>3, <2>1, <2>2, <2>3 DEF RowsOK
<1>5. WholeFirst
    BY <1>3 DEF WholeFirst, NormalizedChunks, ChunksOf
<1>6. \A s \in Sessions : job[s] = NewJob
    BY DEF Init
<1>7. \A s \in Sessions : JobOK(s)
    BY <1>6 DEF JobOK, NewJob, Writing
<1>8. \A s \in Sessions : AnswerOK(s)
    BY <1>6 DEF AnswerOK, NewJob, Answered
<1> QED
    BY <1>1, <1>4, <1>5, <1>7, <1>8 DEF IInv

LEMMA Inductive == IInv /\ [Next]_vars => IInv'
<1> SUFFICES ASSUME IInv, [Next]_vars PROVE IInv'
    OBVIOUS
<1>1. CASE UNCHANGED vars
  <2>1. UNCHANGED <<kind, generations, chunks, models, embedded, job>>
      BY <1>1 DEF vars
  <2>2. TypeOK'
      BY <2>1 DEF IInv, TypeOK
  <2>3. RowsOK'
      BY <2>1 DEF IInv, RowsOK, Versions
  <2>4. WholeFirst'
      BY <2>1 DEF IInv, WholeFirst, Versions, NormalizedChunks, ChunksOf, FirstWithUnits, Generation
  <2>5. \A s \in Sessions : JobOK(s)'
    <3>1. Later
        BY <2>1 DEF Later, Versions
    <3> QED
        BY <2>1, <3>1, OtherJob DEF IInv
  <2>6. \A s \in Sessions : AnswerOK(s)'
    <3>1. Later
        BY <2>1 DEF Later, Versions
    <3> QED
        BY <2>1, <3>1, OtherAnswer DEF IInv
  <2> QED
      BY <2>2, <2>3, <2>4, <2>5, <2>6 DEF IInv
<1>2. CASE Next
  <2>1. TypeOK /\ RowsOK /\ WholeFirst /\ (\A s \in Sessions : JobOK(s))
        /\ (\A s \in Sessions : AnswerOK(s))
      BY DEF IInv
  <2>2. TypeOK'
      BY <1>2, <2>1, SessionStepType, DocumentStepType DEF Next
  <2>3. Later
      BY <1>2, <2>1, StepGrows
  <2>4. RowsOK'
      BY <1>2, <2>1, <2>2, <2>3, StepRows
  <2>5. WholeFirst'
      BY <1>2, <2>1, <2>2, <2>3, StepWhole
  <2>6. CASE NewVersion \/ Normalize
    <3>1. job' = job
        BY <2>6 DEF NewVersion, Normalize
    <3>2. \A s \in Sessions : JobOK(s)'
        BY <2>1, <2>3, <3>1, OtherJob
    <3>3. \A s \in Sessions : AnswerOK(s)'
        BY <2>1, <2>3, <3>1, OtherAnswer
    <3> QED
        BY <2>2, <2>4, <2>5, <3>2, <3>3 DEF IInv
  <2>7. ASSUME NEW s \in Sessions, Create(s) \/ Step(s) \/ Crash(s) PROVE IInv'
    <3>1. \A o \in Sessions \ {s} : job'[o] = job[o]
        BY <2>1, <2>7, OneSession
    <3>2. JobOK(s)'
        BY <2>1, <2>7, OwnJob
    <3>3. \A o \in Sessions : JobOK(o)'
        BY <2>1, <2>3, <3>1, <3>2, OtherJob
    <3>4. AnswerOK(s)'
        BY <2>1, <2>2, <2>3, <2>7, <3>2, OwnAnswer
    <3>5. \A o \in Sessions : AnswerOK(o)'
        BY <2>1, <2>3, <3>1, <3>4, OtherAnswer
    <3> QED
        BY <2>2, <2>4, <2>5, <3>3, <3>5 DEF IInv
  <2> QED
      BY <1>2, <2>6, <2>7 DEF Next
<1> QED
    BY <1>1, <1>2

\* What the tables hold and what each session knows of them, in every behaviour:
\* PostgresVectorIndexStore.write, the index test and answer_question.
THEOREM Invariance == Spec => []IInv
<1> QED
    BY Initially, Inductive, PTL DEF Spec

\* A version that has chunks of normalized units has a whole index.
LEMMA IndexedIsWhole ==
    ASSUME WholeFirst, NEW v \in Versions, NormalizedChunks(v) # {}
    PROVE  Whole(v)
<1> QED
    BY DEF WholeFirst, Whole

\* The chunks of a version's normalized units are none or one whole generation,
\* embedded by one model, however many requests write beside each other: the
\* position check of PostgresVectorIndexStore.write and the single commit of
\* answer_question suffice, and no lock is needed for it.
THEOREM WholeIndexes == Spec => []IndexWhole
<1>1. IInv => IndexWhole
    BY IndexedIsWhole DEF IInv, IndexWhole
<1> QED
    BY <1>1, Invariance, PTL

\* A request that answers has found or written a whole index, and all sources of
\* an answer are of the one generation that the index of its version is made of,
\* whatever the search finds of it (answer_question, PostgresVectorIndexStore.write,
\* PostgresVectorRetriever.retrieve).
THEOREM AnswersStandOnIndex == Spec => []AnswersFromIndex
<1>1. IInv => AnswersFromIndex
  <2> SUFFICES ASSUME IInv, NEW s \in Sessions
               PROVE  /\ s \in Requests /\ job[s].outcome = "answered" => Whole(Basis(s))
                      /\ job[s].sources # {} =>
                            /\ Whole(job[s].version)
                            /\ job[s].sources \subseteq NormalizedChunks(job[s].version)
      BY DEF AnswersFromIndex, Basis
  <2>1. WholeFirst /\ AnswerOK(s)
      BY DEF IInv
  <2>2. ASSUME s \in Requests, job[s].outcome = "answered" PROVE Whole(Basis(s))
    <3>1. Basis(s) \in Versions /\ NormalizedChunks(Basis(s)) # {}
        BY <2>1, <2>2 DEF AnswerOK, Answered
    <3> QED
        BY <2>1, <3>1, IndexedIsWhole
  <2>3. ASSUME job[s].sources # {}
        PROVE  /\ Whole(job[s].version)
               /\ job[s].sources \subseteq NormalizedChunks(job[s].version)
    <3>1. /\ job[s].version \in Versions
          /\ job[s].sources \subseteq NormalizedChunks(job[s].version)
        BY <2>1, <2>3 DEF AnswerOK
    <3> QED
        BY <2>1, <2>3, <3>1, IndexedIsWhole
  <2> QED
      BY <2>2, <2>3
<1> QED
    BY <1>1, Invariance, PTL

-----------------------------------------------------------------------------
\* The benchmark: what has been scored, whichever services answer.

\* What is noted of a question.
Verdicts == [kind : {"off", "decided", "protocol", "technical"}, yes : BOOLEAN,
             evidence : {"none", "right", "wrong"}]
Noted(m) == [question : DOMAIN Questions, ranks : [Series(m) -> Nat], judged : Verdicts]
WithAnswer(m) == {o \in Noted(m) : Questions[o.question].answerable}
Hit(m, s, n) == {o \in WithAnswer(m) : o.ranks[s] \in 1 .. n}
FoundBy(m, s) == {o \in WithAnswer(m) : o.ranks[s] # 0}
Decided(m) == {o \in Noted(m) : o.judged.kind = "decided"}
FalseYes(m) == {o \in Decided(m) : ~ Questions[o.question].answerable /\ o.judged.yes}
FalseNo(m) == {o \in Decided(m) : Questions[o.question].answerable /\ ~ o.judged.yes}
WrongIn(m) == {o \in Decided(m) : o.judged.evidence = "wrong"}

\* How many of a list are in a set.
Tally(list, T) == Cardinality({k \in DOMAIN list : list[k] \in T})

\* A score is the one of a list of observations.
ScoreOf(score, m, s, list) ==
    LET hit(n) == Tally(list, Hit(m, s, n))
    IN  /\ score \in [evaluated : Nat, hit1 : Nat, hit3 : Nat, hit5 : Nat, reciprocals : Nat]
        /\ score.evaluated = Tally(list, WithAnswer(m))
        /\ score.hit1 = hit(1) /\ score.hit3 = hit(3) /\ score.hit5 = hit(5)
        /\ score.reciprocals \in 60 * hit(1) .. 60 * hit(1) + 30 * (Tally(list, FoundBy(m, s)) - hit(1))

\* A matrix is the one of a list of observations.
Cells == {"tp", "fp", "fn", "tn", "protocol", "technical", "correct", "evidence", "both",
          "evidence_fp"}
Gates == [Cells -> Nat]
Sums(g) ==
    /\ g.correct = g.tp + g.tn
    /\ g.evidence + g.evidence_fp = g.tp
    /\ g.both = g.evidence + g.tn
All(g) == g.tp + g.fp + g.fn + g.tn + g.protocol + g.technical
GateOf(g, m, list) ==
    /\ g \in Gates /\ Sums(g)
    /\ "gate" \in m.use => All(g) = Len(list)
    /\ g.fp = Tally(list, FalseYes(m)) /\ g.fn = Tally(list, FalseNo(m))
    /\ g.evidence_fp = Tally(list, WrongIn(m))

\* The question in progress: its ranks may be in the scores already, and its
\* verdict in the matrix.
Now == [question |-> pending.question, ranks |-> pending.ranks, judged |-> pending.judged]
Asks == {"gate", "reranker", "bge", "count"}
Heard == IF mode.kind = "classic" /\ phase \in Asks THEN Append(observations, Now) ELSE observations
Settled == IF phase = "count" THEN Append(observations, Now) ELSE observations

ModeOK ==
    /\ mode \in [kind : {"none", "classic", "v1", "v1_v4", "docling"}, use : SUBSET Flags]
    /\ mode.kind = "classic" => mode.use \subseteq {"gate"}
    /\ mode.kind # "classic" => "gate" \notin mode.use
QuestionsOK ==
    /\ questions \in Seq(DOMAIN Questions)
    /\ \A j, k \in DOMAIN questions : questions[j] = questions[k] => j = k
    /\ next \in Nat

\* A verdict is about the evidence where the question and the judge say yes.
Fair(o) ==
    /\ o.judged.kind # "decided" => o.judged.evidence = "none"
    /\ o.judged.evidence # "none" => Questions[o.question].answerable /\ o.judged.yes

ObservationsOK ==
    /\ observations \in Seq(Noted(mode))
    /\ Len(observations) <= Len(questions)
    /\ \A k \in DOMAIN observations : observations[k].question = questions[k] /\ Fair(observations[k])
PendingOK ==
    /\ {"question", "ranks", "judged"} \subseteq DOMAIN pending
    /\ Now \in Noted(mode) /\ Fair(Now)
    /\ pending.question = questions[next + 1] /\ next < Len(questions)
    /\ phase # "count" => pending.judged = NotJudged
    /\ phase = "gate" => mode.kind = "classic" /\ Uses("gate")
    /\ phase \in {"reranker", "bge"} => mode.kind = "docling" /\ Uses(phase)

ScoresOK ==
    /\ DOMAIN scores = Series(mode)
    /\ \A s \in Series(mode) : ScoreOf(scores[s], mode, s, Heard)
CountsOK ==
    /\ counts \in [answerable : Nat, unanswerable : Nat, protocol : Nat, technical : Nat, bge : Nat]
    /\ counts.answerable = Tally(observations, WithAnswer(mode))
    /\ counts.answerable + counts.unanswerable = Len(observations)
ReportOK ==
    /\ Len(observations) = Len(questions)
    /\ Cardinality(report.misclassified) = gate.fp + gate.fn
    /\ Cardinality(report.evidence) = gate.evidence_fp
    /\ Cardinality(report.detailed) = gate.fp + gate.fn + gate.evidence_fp

\* Before the first question.
Fresh ==
    /\ observations = <<>> /\ gate = NoGate /\ counts = NoCounts
    /\ phase # "start" => scores = [s \in Series(mode) |-> NoScore]
    /\ phase # "index" => next = 0
Begun == {"start", "index", "load", "build"}
BenchmarkInv ==
    /\ phase \in Begun \cup Asks \cup {"ask", "done", "refused", "failed"}
    /\ ModeOK /\ QuestionsOK
    /\ phase \in Begun => Fresh
    /\ phase \in Asks \cup {"ask", "done"} =>
          /\ next = Len(observations)
          /\ ObservationsOK /\ ScoresOK /\ GateOf(gate, mode, Settled) /\ CountsOK
    /\ phase \in Asks => PendingOK
    /\ phase = "done" => ReportOK

\* A set of natural numbers has a least one.
LEMMA LeastIs ==
    ASSUME NEW S, S \subseteq Nat, S # {}
    PROVE  Min(S) \in S
<1> DEFINE R == StrictSubsetOrdering(Nat)
           D == FiniteSubsetsOf(Nat)
           T == {0 .. (x - 1) : x \in S}
<1>1. IsWellFoundedOn(R, D)
    BY FS_StrictSubsetOrderingWellFounded
<1>2. T \subseteq D /\ T # {}
  <2>1. \A x \in S : x \in Nat /\ 0 .. (x - 1) \subseteq Nat /\ IsFiniteSet(0 .. (x - 1))
      BY FS_Interval
  <2>2. \A t \in T : t \in D
      BY <2>1 DEF FiniteSubsetsOf
  <2>3. PICK x : x \in S
      OBVIOUS
  <2>4. 0 .. (x - 1) \in T
      BY <2>3
  <2> QED
      BY <2>2, <2>4
<1>3. PICK t \in T : \A u \in T : ~ (<<u, t>> \in R)
    BY <1>1, <1>2, WFMin
<1>4. PICK x \in S : t = 0 .. (x - 1)
    OBVIOUS
<1>5. ASSUME NEW y \in S PROVE x <= y
  <2>1. SUFFICES ASSUME y < x PROVE FALSE
      OBVIOUS
  <2>2. x \in Nat /\ y \in Nat
      OBVIOUS
  <2>3. 0 .. (y - 1) \subseteq 0 .. (x - 1) /\ y \in 0 .. (x - 1) /\ y \notin 0 .. (y - 1)
      BY <2>1, <2>2
  <2>4. <<0 .. (y - 1), 0 .. (x - 1)>> \in R
      BY <2>2, <2>3 DEF StrictSubsetOrdering
  <2>5. 0 .. (y - 1) \in T
      OBVIOUS
  <2> QED
      BY <1>3, <1>4, <2>4, <2>5
<1> QED
    BY <1>5 DEF Min

\* A rank is a number, 0 if nothing is found.
LEMMA RanksAreNumbers ==
    /\ \A list, expected : ExpectedPageRank(list, expected) \in Nat
    /\ \A results, expected : FindExpectedRank(results, expected) \in Nat
<1>1. ASSUME NEW list, NEW expected PROVE ExpectedPageRank(list, expected) \in Nat
  <2>1. PICK S : S = {k \in 1 .. Len(list) : list[k] \in expected}
      OBVIOUS
  <2>2. S \subseteq Nat
      BY <2>1
  <2>3. ExpectedPageRank(list, expected) = IF S = {} THEN 0 ELSE Min(S)
      BY <2>1 DEF ExpectedPageRank, FirstPlace
  <2>4. S # {} => Min(S) \in Nat
      BY <2>2, LeastIs
  <2> QED
      BY <2>3, <2>4
<1>2. ASSUME NEW results, NEW expected PROVE FindExpectedRank(results, expected) \in Nat
  <2>1. PICK list : list = AttachPages(results)
      OBVIOUS
  <2>2. PICK S : S = {k \in 1 .. Len(list) : list[k] \cap expected # {}}
      OBVIOUS
  <2>3. S \subseteq Nat
      BY <2>2
  <2>4. FindExpectedRank(results, expected) = IF S = {} THEN 0 ELSE Min(S)
      BY <2>1, <2>2 DEF FindExpectedRank, FirstPlace
  <2>5. S # {} => Min(S) \in Nat
      BY <2>3, LeastIs
  <2> QED
      BY <2>4, <2>5
<1> QED
    BY <1>1, <1>2

LEMMA TallyNone == \A T : Tally(<<>>, T) = 0
<1>1. ASSUME NEW T PROVE {k \in DOMAIN <<>> : <<>>[k] \in T} = {}
    OBVIOUS
<1> QED
    BY <1>1, FS_EmptySet DEF Tally

LEMMA TallyAppend ==
    ASSUME NEW S, NEW list \in Seq(S), NEW o, NEW T
    PROVE  /\ Tally(list, T) \in Nat
           /\ Tally(Append(list, o), T) = Tally(list, T) + (IF o \in T THEN 1 ELSE 0)
<1>1. PICK n \in Nat : n = Len(list) /\ DOMAIN list = 1 .. n
    OBVIOUS
<1>2. PICK K : K = {k \in 1 .. n : list[k] \in T}
    OBVIOUS
<1>3. IsFiniteSet(K) /\ Cardinality(K) \in Nat
  <2>1. IsFiniteSet(1 .. n) /\ K \subseteq 1 .. n
      BY <1>2, FS_Interval
  <2>2. IsFiniteSet(K)
      BY <2>1, FS_Subset
  <2> QED
      BY <2>2, FS_CardinalityType
<1>4. Tally(list, T) = Cardinality(K)
    BY <1>1, <1>2 DEF Tally
<1>5. PICK more : more = Append(list, o)
    OBVIOUS
<1>6. /\ DOMAIN more = 1 .. (n + 1) /\ more[n + 1] = o
      /\ \A k \in 1 .. n : more[k] = list[k]
    BY <1>1, <1>5
<1>7. {k \in DOMAIN more : more[k] \in T} = K \cup (IF o \in T THEN {n + 1} ELSE {})
    BY <1>1, <1>2, <1>6
<1>8. Tally(more, T) = Cardinality(K \cup (IF o \in T THEN {n + 1} ELSE {}))
    BY <1>7 DEF Tally
<1>9. n + 1 \notin K
    BY <1>1, <1>2
<1>10. Cardinality(K \cup {n + 1}) = Cardinality(K) + 1
    BY <1>3, <1>9, FS_AddElement
<1>11. CASE o \in T
    BY <1>3, <1>4, <1>5, <1>8, <1>10, <1>11
<1>12. CASE o \notin T
  <2>1. K \cup (IF o \in T THEN {n + 1} ELSE {}) = K
      BY <1>12
  <2> QED
      BY <1>3, <1>4, <1>5, <1>8, <1>12, <2>1
<1> QED
    BY <1>11, <1>12

\* The sixtieths that a rank adds.
LEMMA Sixtieths ==
    ASSUME NEW rank \in Nat, rank > 1
    PROVE  60 \div rank \in 0 .. 30
<1>1. PICK q \in Int : q = 60 \div rank
    OBVIOUS
<1>2. PICK r \in Int : r = 60 % rank
    OBVIOUS
<1>3. 60 = rank * q + r /\ 0 <= r /\ r < rank
    BY <1>1, <1>2
<1>4. q >= 0
  <2>1. SUFFICES ASSUME q <= -1 PROVE FALSE
      OBVIOUS
  <2>2. rank * q <= - rank
      BY <2>1
  <2> QED
      BY <1>3, <2>2
<1>5. q <= 30
  <2>1. SUFFICES ASSUME q >= 31 PROVE FALSE
      OBVIOUS
  <2>2. rank * q >= 2 * q
      BY <2>1
  <2> QED
      BY <1>3, <2>1, <2>2
<1> QED
    BY <1>1, <1>4, <1>5

\* Adding a rank to a score is observing one question more.
LEMMA ScoreAdds ==
    ASSUME NEW m, NEW s \in Series(m), NEW score, NEW list \in Seq(Noted(m)), NEW o \in Noted(m),
           ScoreOf(score, m, s, list), NEW answered, answered = Questions[o.question].answerable
    PROVE  ScoreOf(IF answered THEN AddRank(score, o.ranks[s]) ELSE score, m, s, Append(list, o))
<1> DEFINE more == Append(list, o)
           A == WithAnswer(m)
           F == FoundBy(m, s)
           one(n) == IF o \in Hit(m, s, n) THEN 1 ELSE 0
<1>1. \A T : /\ Tally(list, T) \in Nat
             /\ Tally(more, T) = Tally(list, T) + (IF o \in T THEN 1 ELSE 0)
    BY TallyAppend
<1>2. o.ranks[s] \in Nat
    BY DEF Noted
<1>3. CASE ~ answered
  <2>1. o \notin A
      BY <1>3 DEF WithAnswer
  <2>2. o \notin F /\ \A n : o \notin Hit(m, s, n)
      BY <2>1 DEF FoundBy, Hit
  <2>3. /\ Tally(more, A) = Tally(list, A) /\ Tally(more, F) = Tally(list, F)
        /\ \A n : Tally(more, Hit(m, s, n)) = Tally(list, Hit(m, s, n))
      BY <1>1, <2>1, <2>2
  <2> QED
      BY <1>3, <2>3 DEF ScoreOf
<1>4. CASE answered
  <2>1. PICK rank \in Nat : rank = o.ranks[s]
      BY <1>2
  <2>2. o \in A
      BY <1>4 DEF WithAnswer
  <2>3. (o \in F <=> rank # 0) /\ \A n : o \in Hit(m, s, n) <=> rank \in 1 .. n
      BY <2>1, <2>2 DEF FoundBy, Hit
  <2>4. PICK e \in Nat, f \in Nat, h1 \in Nat, h3 \in Nat, h5 \in Nat :
          /\ e = Tally(list, A) /\ f = Tally(list, F)
          /\ h1 = Tally(list, Hit(m, s, 1)) /\ h3 = Tally(list, Hit(m, s, 3))
          /\ h5 = Tally(list, Hit(m, s, 5))
      BY <1>1
  <2>5. /\ Tally(more, A) = e + 1 /\ Tally(more, F) = f + (IF rank # 0 THEN 1 ELSE 0)
        /\ Tally(more, Hit(m, s, 1)) = h1 + (IF rank \in 1 .. 1 THEN 1 ELSE 0)
        /\ Tally(more, Hit(m, s, 3)) = h3 + (IF rank \in 1 .. 3 THEN 1 ELSE 0)
        /\ Tally(more, Hit(m, s, 5)) = h5 + (IF rank \in 1 .. 5 THEN 1 ELSE 0)
      BY <1>1, <2>2, <2>3, <2>4
  <2>6. /\ score \in [evaluated : Nat, hit1 : Nat, hit3 : Nat, hit5 : Nat, reciprocals : Nat]
        /\ score.evaluated = e /\ score.hit1 = h1 /\ score.hit3 = h3 /\ score.hit5 = h5
        /\ score.reciprocals \in 60 * h1 .. 60 * h1 + 30 * (f - h1)
      BY <2>4 DEF ScoreOf
  <2>7. PICK share \in Nat :
          /\ share = (IF rank = 0 THEN 0 ELSE 60 \div rank)
          /\ rank = 0 => share = 0
          /\ rank = 1 => share = 60
          /\ rank > 1 => share <= 30
    <3>1. CASE rank = 0
        BY <3>1
    <3>2. CASE rank = 1
        BY <3>2
    <3>3. CASE rank > 1
      <4>1. PICK share \in Nat : share = 60 \div rank /\ share <= 30
          BY <3>3, Sixtieths
      <4> QED
          BY <3>3, <4>1
    <3> QED
        BY <3>1, <3>2, <3>3
  <2>8. PICK new : new = AddRank(score, rank)
      OBVIOUS
  <2>9. new = [evaluated |-> e + 1,
               hit1 |-> h1 + (IF rank \in 1 .. 1 THEN 1 ELSE 0),
               hit3 |-> h3 + (IF rank \in 1 .. 3 THEN 1 ELSE 0),
               hit5 |-> h5 + (IF rank \in 1 .. 5 THEN 1 ELSE 0),
               reciprocals |-> score.reciprocals + share]
      BY <2>6, <2>7, <2>8 DEF AddRank
  <2>10. /\ new.evaluated = e + 1 /\ new.reciprocals = score.reciprocals + share
         /\ new.hit1 = h1 + (IF rank \in 1 .. 1 THEN 1 ELSE 0)
         /\ new.hit3 = h3 + (IF rank \in 1 .. 3 THEN 1 ELSE 0)
         /\ new.hit5 = h5 + (IF rank \in 1 .. 5 THEN 1 ELSE 0)
         /\ new \in [evaluated : Nat, hit1 : Nat, hit3 : Nat, hit5 : Nat, reciprocals : Nat]
      BY <2>6, <2>9, SMTT(30)
  <2>11. PICK k1 \in Nat, g \in Nat : k1 = Tally(more, Hit(m, s, 1)) /\ g = Tally(more, F)
      BY <2>5
  <2>12. new.reciprocals \in 60 * k1 .. 60 * k1 + 30 * (g - k1)
    <3>1. PICK before \in Int : before = score.reciprocals /\ before >= 60 * h1
                                /\ before <= 60 * h1 + 30 * (f - h1)
        BY <2>6
    <3>2. new.reciprocals = before + share
        BY <2>10, <3>1
    <3>3. CASE rank = 0
      <4>1. k1 = h1 /\ g = f
          BY <2>5, <2>11, <3>3
      <4> QED
          BY <2>7, <3>1, <3>2, <3>3, <4>1
    <3>4. CASE rank = 1
      <4>1. k1 = h1 + 1 /\ g = f + 1
          BY <2>5, <2>11, <3>4
      <4> QED
          BY <2>7, <3>1, <3>2, <3>4, <4>1
    <3>5. CASE rank > 1
      <4>1. k1 = h1 /\ g = f + 1
          BY <2>5, <2>11, <3>5
      <4> QED
          BY <2>7, <3>1, <3>2, <3>5, <4>1
    <3> QED
        BY <3>3, <3>4, <3>5
  <2>13. ScoreOf(new, m, s, more)
      BY <2>5, <2>10, <2>11, <2>12 DEF ScoreOf
  <2> QED
      BY <1>4, <2>1, <2>8, <2>13
<1> QED
    BY <1>3, <1>4

\* A verdict does not matter to the scores.
LEMMA ScoreSame ==
    ASSUME NEW m, NEW s \in Series(m), NEW score, NEW list \in Seq(Noted(m)),
           NEW o \in Noted(m), NEW p \in Noted(m), o.question = p.question, o.ranks = p.ranks,
           ScoreOf(score, m, s, Append(list, o))
    PROVE  ScoreOf(score, m, s, Append(list, p))
<1>1. /\ o \in WithAnswer(m) <=> p \in WithAnswer(m)
      /\ o \in FoundBy(m, s) <=> p \in FoundBy(m, s)
      /\ \A n : o \in Hit(m, s, n) <=> p \in Hit(m, s, n)
    BY DEF WithAnswer, FoundBy, Hit
<1>2. \A T : (o \in T <=> p \in T) => Tally(Append(list, o), T) = Tally(Append(list, p), T)
    BY TallyAppend
<1> QED
    BY <1>1, <1>2 DEF ScoreOf

\* A verdict that is none adds nothing to the matrix.
LEMMA GateSame ==
    ASSUME NEW m, NEW g, NEW list \in Seq(Noted(m)), NEW o \in Noted(m),
           GateOf(g, m, list), o.judged = NotJudged, "gate" \notin m.use
    PROVE  GateOf(g, m, Append(list, o))
<1>1. o \notin FalseYes(m) /\ o \notin FalseNo(m) /\ o \notin WrongIn(m)
    BY DEF FalseYes, FalseNo, WrongIn, Decided, NotJudged
<1>2. \A T : o \notin T => Tally(Append(list, o), T) = Tally(list, T)
    BY TallyAppend
<1> QED
    BY <1>1, <1>2 DEF GateOf

Entered(g, tp, fp, fn, tn, same, ev, evfp) ==
    [g EXCEPT !.tp = @ + tp, !.fp = @ + fp, !.fn = @ + fn, !.tn = @ + tn, !.correct = @ + same,
              !.evidence = @ + ev, !.evidence_fp = @ + evfp, !.both = @ + ev + tn]

OneCell(tp, fp, fn, tn, same, ev, evfp) ==
    /\ {tp, fp, fn, tn, same, ev, evfp} \subseteq 0 .. 1
    /\ tp + fp + fn + tn = 1 /\ same = tp + tn /\ ev + evfp = tp
Grown(g, new, fp, fn, evfp) ==
    /\ new \in Gates /\ Sums(new) /\ All(new) = All(g) + 1
    /\ new.fp = g.fp + fp /\ new.fn = g.fn + fn /\ new.evidence_fp = g.evidence_fp + evfp

\* The sums of a matrix, when one cell grows.
LEMMA CellsAdd ==
    ASSUME NEW g, g \in Gates, Sums(g),
           NEW tp, NEW fp, NEW fn, NEW tn, NEW same, NEW ev, NEW evfp,
           OneCell(tp, fp, fn, tn, same, ev, evfp)
    PROVE  Grown(g, Entered(g, tp, fp, fn, tn, same, ev, evfp), fp, fn, evfp)
<1>0. PICK new : new = Entered(g, tp, fp, fn, tn, same, ev, evfp)
    OBVIOUS
<1>9. /\ tp \in 0 .. 1 /\ fp \in 0 .. 1 /\ fn \in 0 .. 1 /\ tn \in 0 .. 1 /\ same \in 0 .. 1
      /\ ev \in 0 .. 1 /\ evfp \in 0 .. 1
      /\ tp + fp + fn + tn = 1 /\ same = tp + tn /\ ev + evfp = tp
    BY DEF OneCell
<1>1. DOMAIN g = Cells
    BY DEF Gates
<1>2. new.protocol = g.protocol /\ new.technical = g.technical
    BY <1>0, <1>1 DEF Cells, Entered
<1>3. new.tp = g.tp + tp /\ new.fp = g.fp + fp /\ new.fn = g.fn + fn /\ new.tn = g.tn + tn
    BY <1>0, <1>1 DEF Cells, Entered
<1>4. /\ new.correct = g.correct + same /\ new.evidence = g.evidence + ev
      /\ new.evidence_fp = g.evidence_fp + evfp /\ new.both = g.both + ev + tn
    BY <1>0, <1>1 DEF Cells, Entered
<1>5. /\ g.tp \in Nat /\ g.fp \in Nat /\ g.fn \in Nat /\ g.tn \in Nat /\ g.protocol \in Nat
      /\ g.technical \in Nat /\ g.correct \in Nat /\ g.evidence \in Nat /\ g.both \in Nat
      /\ g.evidence_fp \in Nat
    BY DEF Gates, Cells
<1>6. new \in Gates
  <2>1. new.tp \in Nat /\ new.fp \in Nat /\ new.fn \in Nat /\ new.tn \in Nat
      BY ONLY <1>3, <1>5, <1>9
  <2>2. new.protocol \in Nat /\ new.technical \in Nat
      BY <1>2, <1>5
  <2>3. new.correct \in Nat /\ new.evidence \in Nat
      BY ONLY <1>4, <1>5, <1>9
  <2>4. new.both \in Nat /\ new.evidence_fp \in Nat
      BY ONLY <1>4, <1>5, <1>9
  <2>5. new = [c \in Cells |-> new[c]]
      BY <1>0, <1>1 DEF Entered
  <2>6. \A c \in Cells : new[c] \in Nat
      BY <2>1, <2>2, <2>3, <2>4 DEF Cells
  <2> QED
      BY <2>5, <2>6 DEF Gates
<1>7. Sums(new)
    BY ONLY <1>3, <1>4, <1>5, <1>9, Sums(g) DEF Sums
<1>8. All(new) = All(g) + 1
    BY ONLY <1>2, <1>3, <1>5, <1>9 DEF All
<1> QED
    BY <1>0, <1>3, <1>4, <1>6, <1>7, <1>8 DEF Grown

\* A decision enters one cell; one that is right, its evidence too.
LEMMA GateAdds ==
    ASSUME NEW m, NEW g, NEW list \in Seq(Noted(m)), NEW o \in Noted(m), GateOf(g, m, list),
           NEW expected \in BOOLEAN, NEW right \in BOOLEAN,
           expected = Questions[o.question].answerable,
           o.judged.kind = "decided",
           o.judged.evidence = (IF ~ (expected /\ o.judged.yes) THEN "none"
                                ELSE IF right THEN "right" ELSE "wrong")
    PROVE  GateOf(AddGate(g, expected, o.judged.yes, right), m, Append(list, o))
<1>1. PICK yes \in BOOLEAN : yes = o.judged.yes
    BY DEF Noted, Verdicts
<1>2. /\ o \in FalseYes(m) <=> ~ expected /\ yes
      /\ o \in FalseNo(m) <=> expected /\ ~ yes
      /\ o \in WrongIn(m) <=> expected /\ yes /\ ~ right
    BY <1>1 DEF FalseYes, FalseNo, WrongIn, Decided
<1>3. \A T : /\ Tally(list, T) \in Nat
             /\ Tally(Append(list, o), T) = Tally(list, T) + (IF o \in T THEN 1 ELSE 0)
    BY TallyAppend, SMTT(30)
<1>4. PICK new : new = AddGate(g, expected, yes, right)
    OBVIOUS
<1>5. g \in Gates /\ Sums(g)
    BY DEF GateOf
<1>6a. PICK tp \in 0 .. 1 : tp = (IF expected /\ yes THEN 1 ELSE 0)
    OBVIOUS
<1>6b. PICK fp \in 0 .. 1 : fp = (IF ~ expected /\ yes THEN 1 ELSE 0)
    OBVIOUS
<1>6c. PICK fn \in 0 .. 1 : fn = (IF expected /\ ~ yes THEN 1 ELSE 0)
    OBVIOUS
<1>6d. PICK tn \in 0 .. 1 : tn = (IF ~ expected /\ ~ yes THEN 1 ELSE 0)
    OBVIOUS
<1>6e. PICK same \in 0 .. 1 : same = (IF expected = yes THEN 1 ELSE 0)
    OBVIOUS
<1>6f. PICK ev \in 0 .. 1 : ev = (IF expected /\ yes /\ right THEN 1 ELSE 0)
    OBVIOUS
<1>6g. PICK evfp \in 0 .. 1 : evfp = (IF expected /\ yes /\ ~ right THEN 1 ELSE 0)
    OBVIOUS
<1>7. new = Entered(g, tp, fp, fn, tn, same, ev, evfp)
    BY <1>4, <1>6a, <1>6b, <1>6c, <1>6d, <1>6e, <1>6f, <1>6g DEF AddGate, Entered
<1>8. /\ tp + fp + fn + tn = 1 /\ same = tp + tn /\ ev + evfp = tp
      /\ fp = (IF o \in FalseYes(m) THEN 1 ELSE 0) /\ fn = (IF o \in FalseNo(m) THEN 1 ELSE 0)
      /\ evfp = (IF o \in WrongIn(m) THEN 1 ELSE 0)
    BY <1>2, <1>6a, <1>6b, <1>6c, <1>6d, <1>6e, <1>6f, <1>6g
<1>9. Grown(g, new, fp, fn, evfp)
  <2>1. OneCell(tp, fp, fn, tn, same, ev, evfp)
      BY <1>6a, <1>6b, <1>6c, <1>6d, <1>6e, <1>6f, <1>6g, <1>8 DEF OneCell
  <2> QED
      BY <1>5, <1>7, <2>1, CellsAdd
<1>10. Len(Append(list, o)) = Len(list) + 1
    OBVIOUS
<1>11. "gate" \in m.use => All(new) = Len(Append(list, o))
    BY <1>9, <1>10 DEF GateOf, Grown
<1>12. /\ new.fp = Tally(Append(list, o), FalseYes(m))
       /\ new.fn = Tally(Append(list, o), FalseNo(m))
       /\ new.evidence_fp = Tally(Append(list, o), WrongIn(m))
    BY <1>3, <1>8, <1>9 DEF GateOf, Grown
<1>13. GateOf(new, m, Append(list, o))
    BY <1>9, <1>11, <1>12 DEF GateOf, Grown
<1> QED
    BY <1>1, <1>4, <1>13

LEMMA OneMore ==
    \A a, b, c, d, p, t \in Nat : /\ a + b + c + d + (p + 1) + t = a + b + c + d + p + t + 1
                                  /\ a + b + c + d + p + (t + 1) = a + b + c + d + p + t + 1
OBVIOUS

\* So does a reply that is refused, or none.
LEMMA GateErrs ==
    ASSUME NEW m, NEW g, NEW list \in Seq(Noted(m)), NEW o \in Noted(m), GateOf(g, m, list),
           NEW cell \in {"protocol", "technical"}, o.judged.kind # "decided"
    PROVE  GateOf([g EXCEPT ![cell] = @ + 1], m, Append(list, o))
<1>1. o \notin FalseYes(m) /\ o \notin FalseNo(m) /\ o \notin WrongIn(m)
    BY DEF FalseYes, FalseNo, WrongIn, Decided
<1>2. \A T : o \notin T => Tally(Append(list, o), T) = Tally(list, T)
    BY TallyAppend
<1>3. PICK new : new = [g EXCEPT ![cell] = @ + 1]
    OBVIOUS
<1>4. g \in Gates
    BY DEF GateOf
<1>5. /\ new \in Gates
      /\ \A c \in Cells : new[c] = IF c = cell THEN g[c] + 1 ELSE g[c]
    BY <1>3, <1>4 DEF Gates, Cells
<1>6. /\ new.tp = g.tp /\ new.fp = g.fp /\ new.fn = g.fn /\ new.tn = g.tn
      /\ new.correct = g.correct /\ new.evidence = g.evidence /\ new.both = g.both
      /\ new.evidence_fp = g.evidence_fp
    BY <1>5 DEF Cells
<1>7. All(new) = All(g) + 1
  <2>1. /\ g.tp \in Nat /\ g.fp \in Nat /\ g.fn \in Nat /\ g.tn \in Nat
        /\ g.protocol \in Nat /\ g.technical \in Nat
      BY <1>4 DEF Gates, Cells
  <2>2. \/ new.protocol = g.protocol + 1 /\ new.technical = g.technical
        \/ new.protocol = g.protocol /\ new.technical = g.technical + 1
      BY <1>5 DEF Cells
  <2>5. PICK a \in Nat, b \in Nat, c \in Nat, d \in Nat, p \in Nat, t \in Nat :
          a = g.tp /\ b = g.fp /\ c = g.fn /\ d = g.tn /\ p = g.protocol /\ t = g.technical
      BY <2>1
  <2>6. All(g) = a + b + c + d + p + t
      BY <2>5 DEF All
  <2>3. CASE new.protocol = g.protocol + 1 /\ new.technical = g.technical
    <3>1. All(new) = a + b + c + d + (p + 1) + t
        BY <1>6, <2>3, <2>5 DEF All
    <3> QED
        BY <2>6, <3>1, OneMore
  <2>4. CASE new.protocol = g.protocol /\ new.technical = g.technical + 1
    <3>1. All(new) = a + b + c + d + p + (t + 1)
        BY <1>6, <2>4, <2>5 DEF All
    <3> QED
        BY <2>6, <3>1, OneMore
  <2> QED
      BY <2>2, <2>3, <2>4
<1>8. Sums(new)
    BY <1>6 DEF GateOf, Sums
<1>9. Len(Append(list, o)) = Len(list) + 1
    OBVIOUS
<1>10. "gate" \in m.use => All(new) = Len(Append(list, o))
    BY <1>7, <1>9 DEF GateOf
<1> QED
    BY <1>1, <1>2, <1>3, <1>5, <1>6, <1>8, <1>10 DEF GateOf

\* Every question is asked once, so the questions of the observations in a set
\* are as many as these.
HavingIn(list, T) == {o.question : o \in {p \in ToSet(list) : p \in T}}
LEMMA HavingTally ==
    ASSUME NEW S, NEW list \in Seq(S), NEW T,
           \A j, k \in DOMAIN list : list[j].question = list[k].question => j = k
    PROVE  Cardinality(HavingIn(list, T)) = Tally(list, T)
<1>1. PICK n \in Nat : n = Len(list) /\ DOMAIN list = 1 .. n
    OBVIOUS
<1>2. PICK K : K = {k \in DOMAIN list : list[k] \in T}
    OBVIOUS
<1>3. IsFiniteSet(K)
  <2>1. IsFiniteSet(1 .. n) /\ K \subseteq 1 .. n
      BY <1>1, <1>2, FS_Interval
  <2> QED
      BY <2>1, FS_Subset
<1>4. PICK H : H = HavingIn(list, T)
    OBVIOUS
<1>5. H = {list[k].question : k \in K}
    BY <1>2, <1>4 DEF HavingIn, ToSet
<1>6. PICK f : f = [k \in K |-> list[k].question]
    OBVIOUS
<1>7. f \in Bijection(K, H)
    BY <1>2, <1>5, <1>6 DEF Bijection, Injection, Surjection, IsInjective
<1>8. Cardinality(H) = Cardinality(K)
    BY <1>3, <1>7, FS_Bijection DEF ExistsBijection
<1> QED
    BY <1>2, <1>4, <1>8 DEF Tally

\* Two lists of questions that share none.
LEMMA TallyUnion ==
    ASSUME NEW S, NEW list \in Seq(S), NEW T, NEW U, \A o : ~ (o \in T /\ o \in U)
    PROVE  Tally(list, T \cup U) = Tally(list, T) + Tally(list, U)
<1>1. PICK n \in Nat : n = Len(list) /\ DOMAIN list = 1 .. n
    OBVIOUS
<1>2. PICK A, B : A = {k \in 1 .. n : list[k] \in T} /\ B = {k \in 1 .. n : list[k] \in U}
    OBVIOUS
<1>3. IsFiniteSet(A) /\ IsFiniteSet(B)
  <2>1. IsFiniteSet(1 .. n) /\ A \subseteq 1 .. n /\ B \subseteq 1 .. n
      BY <1>2, FS_Interval
  <2> QED
      BY <2>1, FS_Subset
<1>4. A \cap B = {} /\ A \cup B = {k \in 1 .. n : list[k] \in T \cup U}
    BY <1>2
<1>5. /\ Tally(list, T) = Cardinality(A) /\ Tally(list, U) = Cardinality(B)
      /\ Tally(list, T \cup U) = Cardinality(A \cup B)
    BY <1>1, <1>2, <1>4 DEF Tally
<1>6. Cardinality(A \cup B) = Cardinality(A) + Cardinality(B) - Cardinality(A \cap B)
    BY <1>3, FS_Union
<1>7. Cardinality(A \cap B) = 0
    BY <1>4, FS_EmptySet
<1>8. Cardinality(A) \in Nat /\ Cardinality(B) \in Nat
    BY <1>3, FS_CardinalityType
<1> QED
    BY <1>5, <1>6, <1>7, <1>8

\* The questions, all of them in their order.
AllQuestions == [q \in DOMAIN Questions |-> q]
LEMMA QuestionsInOrder ==
    /\ AllQuestions \in Seq(DOMAIN Questions)
    /\ \A j, k \in DOMAIN AllQuestions : AllQuestions[j] = AllQuestions[k] => j = k
<1>1. Questions \in Seq([answerable : BOOLEAN, expected : SUBSET Nat])
    BY BenchmarkAssumption
<1>2. PICK n \in Nat : DOMAIN Questions = 1 .. n
    BY <1>1
<1> QED
    BY <1>2 DEF AllQuestions

\* Before the first question nothing is scored.
LEMMA NothingYet ==
    ASSUME NEW m
    PROVE  /\ \A s : ScoreOf(NoScore, m, s, <<>>)
           /\ GateOf(NoGate, m, <<>>)
           /\ Tally(<<>>, WithAnswer(m)) = 0
           /\ NoCounts.answerable = 0 /\ NoCounts.unanswerable = 0
           /\ NoCounts \in [answerable : Nat, unanswerable : Nat, protocol : Nat, technical : Nat,
                            bge : Nat]
<1>1. \A T : Tally(<<>>, T) = 0
    BY TallyNone
<1>2. ASSUME NEW s PROVE ScoreOf(NoScore, m, s, <<>>)
  <2>1. NoScore.reciprocals = 0 /\ 0 \in 60 * 0 .. 60 * 0 + 30 * (0 - 0)
      BY DEF NoScore
  <2> QED
      BY <1>1, <2>1 DEF ScoreOf, NoScore
<1>3. NoGate \in Gates
    BY DEF NoGate, Gates, Cells
<1>4. Sums(NoGate) /\ All(NoGate) = 0
    BY DEF Sums, All, NoGate
<1>5. NoGate.fp = 0 /\ NoGate.fn = 0 /\ NoGate.evidence_fp = 0
    BY DEF NoGate
<1>6. GateOf(NoGate, m, <<>>)
    BY <1>1, <1>3, <1>4, <1>5 DEF GateOf
<1> QED
    BY <1>1, <1>2, <1>6 DEF NoCounts

\* The program starts on the questions.
LEMMA StartsAsking ==
    ASSUME BenchmarkInv, phase \in Begun \ {"start"}, phase' = "ask", next' = 0,
           questions' = questions, mode' = mode, UNCHANGED Results
    PROVE  BenchmarkInv'
<1> USE DEF Begun, Asks
<1>1. Fresh /\ ModeOK /\ QuestionsOK
    BY DEF BenchmarkInv
<1>2. ModeOK' /\ QuestionsOK'
    BY <1>1 DEF ModeOK, QuestionsOK, Uses
<1>3. /\ observations' = <<>> /\ gate' = NoGate /\ counts' = NoCounts
      /\ scores' = [s \in Series(mode) |-> NoScore]
    BY <1>1 DEF Fresh, Results
<1>4. Len(observations') = 0 /\ DOMAIN observations' = {}
    BY <1>3
<1>5. ObservationsOK'
  <2>1. Len(questions') \in Nat
      BY <1>1 DEF QuestionsOK
  <2>2. observations' \in Seq(Noted(mode'))
      BY <1>3
  <2> QED
      BY <1>4, <2>1, <2>2 DEF ObservationsOK
<1>6. Heard' = <<>> /\ Settled' = <<>>
    BY <1>3 DEF Heard, Settled
<1>7. ScoresOK'
    BY <1>3, <1>6, NothingYet DEF ScoresOK
<1>8. GateOf(gate', mode', Settled')
    BY <1>3, <1>6, NothingYet
<1>9. CountsOK'
    BY <1>3, <1>4, NothingYet DEF CountsOK
<1> QED
    BY <1>2, <1>4, <1>5, <1>7, <1>8, <1>9 DEF BenchmarkInv

\* It stops.
LEMMA ExitKeeps ==
    ASSUME BenchmarkInv, NEW why, Exit(why)
    PROVE  BenchmarkInv'
<1>1. ModeOK' /\ QuestionsOK'
    BY DEF BenchmarkInv, ModeOK, QuestionsOK, Exit
<1> QED
    BY <1>1 DEF BenchmarkInv, Exit, Begun, Asks

LEMMA InitKept == ASSUME QBInit PROVE BenchmarkInv
<1>1. ModeOK /\ QuestionsOK /\ Fresh
    BY DEF QBInit, ModeOK, QuestionsOK, Fresh, NoMode
<1> QED
    BY <1>1 DEF QBInit, BenchmarkInv, Begun, Asks

LEMMA ParseKeeps == ASSUME BenchmarkInv, Parse PROVE BenchmarkInv'
<1>1. phase = "start" /\ Fresh /\ ModeOK /\ QuestionsOK /\ next = 0
    BY DEF BenchmarkInv, Parse, Begun, Fresh
<1>2. /\ observations' = <<>> /\ gate' = NoGate /\ counts' = NoCounts /\ next' = 0
    BY <1>1 DEF Parse, Fresh
<1>3. CASE Refused
  <2>1. mode' = mode /\ questions' = questions /\ phase' = "refused"
      BY <1>3 DEF Parse
  <2>2. ModeOK' /\ QuestionsOK'
      BY <1>1, <1>2, <2>1 DEF ModeOK, QuestionsOK
  <2> QED
      BY <2>1, <2>2 DEF BenchmarkInv, Begun, Asks
<1>4. CASE ~ Refused
  <2>1. /\ mode' = Mode /\ phase' \in {"index", "load"}
        /\ questions' \in {[q \in DOMAIN Questions |-> q], <<>>}
        /\ scores' = [s \in Series(mode') |-> NoScore]
      BY <1>4 DEF Parse
  <2>2. ModeOK'
      BY <2>1 DEF ModeOK, Mode, Has, Flags
  <2>3. QuestionsOK'
    <3>1. CASE questions' = AllQuestions
        BY <1>2, <3>1, QuestionsInOrder DEF QuestionsOK
    <3>2. CASE questions' = <<>>
        BY <1>2, <3>2 DEF QuestionsOK
    <3> QED
        BY <2>1, <3>1, <3>2 DEF AllQuestions
  <2>4. Fresh'
      BY <1>2, <2>1 DEF Fresh
  <2> QED
      BY <2>1, <2>2, <2>3, <2>4 DEF BenchmarkInv, Begun, Asks
<1> QED
    BY <1>3, <1>4

LEMMA IndexFileKeeps == ASSUME BenchmarkInv, IndexFile PROVE BenchmarkInv'
<1>1. CASE Exit("outside")
    BY <1>1, ExitKeeps
<1>2. CASE next' = next + 1 /\ UNCHANGED <<phase, Input, error, pending, Results>>
  <2>1. phase = "index" /\ phase' = "index"
      BY <1>2 DEF IndexFile
  <2>2. ModeOK' /\ QuestionsOK' /\ Fresh'
      BY <1>2, <2>1 DEF BenchmarkInv, ModeOK, QuestionsOK, Fresh, Begun, Input, Results
  <2> QED
      BY <2>1, <2>2 DEF BenchmarkInv, Begun, Asks
<1>3. CASE next' = 0 /\ phase' = "ask" /\ UNCHANGED <<Input, error, pending, Results>>
    BY <1>3, StartsAsking DEF IndexFile, Begun, Input
<1> QED
    BY <1>1, <1>2, <1>3 DEF IndexFile

LEMMA LoadKeeps == ASSUME BenchmarkInv, Load PROVE BenchmarkInv'
<1>1. CASE Exit("outside")
    BY <1>1, ExitKeeps
<1>2. CASE /\ questions' \in Filtered /\ phase' = "build"
           /\ UNCHANGED <<args, mode, error, pages, next, pending, Results>>
  <2>1. phase = "load"
      BY DEF Load
  <2>2. questions' \in Seq(DOMAIN Questions)
        /\ \A j, k \in DOMAIN questions' : questions'[j] = questions'[k] => j = k
    <3>1. CASE questions' = AllQuestions
        BY <3>1, QuestionsInOrder
    <3>2. CASE \E q \in DOMAIN Questions : questions' = <<q>>
        BY <3>2
    <3> QED
        BY <1>2, <3>1, <3>2 DEF Filtered, AllQuestions
  <2>3. ModeOK' /\ QuestionsOK' /\ Fresh'
      BY <1>2, <2>1, <2>2 DEF BenchmarkInv, ModeOK, QuestionsOK, Fresh, Begun, Results
  <2> QED
      BY <1>2, <2>3 DEF BenchmarkInv, Begun, Asks
<1> QED
    BY <1>1, <1>2 DEF Load, Mismatch

LEMMA BuildKeeps == ASSUME BenchmarkInv, Build PROVE BenchmarkInv'
<1>1. CASE \E why : Exit(why)
    BY <1>1, ExitKeeps
<1>2. CASE phase' = "ask" /\ UNCHANGED <<args, mode, error, questions, next, pending, Results>>
  <2>1. phase = "build" /\ next' = 0
      BY <1>2 DEF Build, BenchmarkInv, Begun, Fresh
  <2> QED
      BY <1>2, <2>1, StartsAsking DEF Begun
<1> QED
    BY <1>1, <1>2 DEF Build

LEMMA OfSeq == \A S : \A list \in Seq(S) : \A k \in DOMAIN list : list[k] \in S
OBVIOUS

LEMMA QuestionType == \A q \in DOMAIN Questions : Questions[q].answerable \in BOOLEAN
<1>1. Questions \in Seq([answerable : BOOLEAN, expected : SUBSET Nat])
    BY BenchmarkAssumption
<1>2. ASSUME NEW q \in DOMAIN Questions PROVE Questions[q] \in [answerable : BOOLEAN, expected : SUBSET Nat]
    BY <1>1, OfSeq
<1>3. ASSUME NEW r \in [answerable : BOOLEAN, expected : SUBSET Nat] PROVE r.answerable \in BOOLEAN
    OBVIOUS
<1> QED
    BY <1>2, <1>3

\* A question is asked: its ranks enter the scores at once in the classic
\* benchmark, and its verdict is not known yet.
LEMMA AskedKeeps ==
    ASSUME BenchmarkInv, phase = "ask", next < Len(questions),
           UNCHANGED <<mode, questions, next, gate, counts, observations, report>>,
           phase' \in Asks, {"question", "ranks", "judged"} \subseteq DOMAIN pending',
           pending'.question = questions[next + 1], pending'.judged = NotJudged,
           pending'.ranks \in [Series(mode) -> Nat],
           phase' = "gate" => mode.kind = "classic" /\ Uses("gate"),
           phase' \in {"reranker", "bge"} => mode.kind = "docling" /\ Uses(phase'),
           phase' = "count" => ~ Uses("gate"),
           scores' = IF mode.kind = "classic" /\ Questions[questions[next + 1]].answerable
                     THEN [s \in DOMAIN scores |-> AddRank(scores[s], pending'.ranks[s])]
                     ELSE scores
    PROVE  BenchmarkInv'
<1>1. /\ ModeOK /\ QuestionsOK /\ ObservationsOK /\ ScoresOK /\ CountsOK
      /\ next = Len(observations) /\ GateOf(gate, mode, Settled)
    BY DEF BenchmarkInv
<1>2. Heard = observations /\ Settled = observations
    BY DEF Heard, Settled, Asks
<1>3. PICK o : o = [question |-> questions[next + 1], ranks |-> pending'.ranks, judged |-> NotJudged]
    OBVIOUS
<1>4. Now' = o
    BY <1>3 DEF Now
<1>5. questions[next + 1] \in DOMAIN Questions
    BY <1>1 DEF QuestionsOK
<1>6. o \in Noted(mode)
    BY <1>3, <1>5 DEF Noted, NotJudged, Verdicts
<1>7. Fair(o)
    BY <1>3 DEF Fair, NotJudged
<1>8. ModeOK' /\ QuestionsOK' /\ ObservationsOK' /\ CountsOK'
    BY <1>1 DEF ModeOK, QuestionsOK, ObservationsOK, CountsOK
<1>9. PendingOK'
    BY <1>3, <1>4, <1>6, <1>7 DEF PendingOK, Uses
<1>10. observations \in Seq(Noted(mode))
    BY <1>1 DEF ObservationsOK
<1>11. ScoresOK'
  <2>1. Heard' = IF mode.kind = "classic" THEN Append(observations, o) ELSE observations
      BY <1>4 DEF Heard
  <2>2. DOMAIN scores = Series(mode) /\ \A s \in Series(mode) : ScoreOf(scores[s], mode, s, observations)
      BY <1>1, <1>2 DEF ScoresOK
  <2>3. CASE mode.kind # "classic"
      BY <2>1, <2>2, <2>3 DEF ScoresOK
  <2>4. CASE mode.kind = "classic"
    <3>1. PICK answered \in BOOLEAN : answered = Questions[o.question].answerable
        BY <1>3, <1>5, QuestionType
    <3>2. scores' = IF answered THEN [s \in DOMAIN scores |-> AddRank(scores[s], o.ranks[s])] ELSE scores
        BY <1>3, <2>4, <3>1
    <3>3. ASSUME NEW s \in Series(mode) PROVE ScoreOf(scores'[s], mode, s, Append(observations, o))
      <4>1. ScoreOf(IF answered THEN AddRank(scores[s], o.ranks[s]) ELSE scores[s], mode, s,
                    Append(observations, o))
          BY <1>6, <1>10, <2>2, <3>1, ScoreAdds
      <4>2. scores'[s] = IF answered THEN AddRank(scores[s], o.ranks[s]) ELSE scores[s]
          BY <2>2, <3>2
      <4> QED
          BY <4>1, <4>2
    <3>4. DOMAIN scores' = Series(mode)
        BY <2>2, <3>2
    <3> QED
        BY <2>1, <2>4, <3>3, <3>4 DEF ScoresOK
  <2> QED
      BY <2>3, <2>4
<1>12. GateOf(gate', mode', Settled')
  <2>1. CASE phase' # "count"
      BY <1>1, <1>2, <2>1 DEF Settled
  <2>2. CASE phase' = "count"
    <3>1. Settled' = Append(observations, o)
        BY <1>4, <2>2 DEF Settled
    <3>2. GateOf(gate, mode, Append(observations, o))
        BY <1>1, <1>2, <1>3, <1>6, <1>10, <2>2, GateSame DEF Uses
    <3> QED
        BY <3>1, <3>2
  <2> QED
      BY <2>1, <2>2
<1> QED
    BY <1>1, <1>8, <1>9, <1>11, <1>12 DEF BenchmarkInv, Begun, Asks

LEMMA AskFailsKeeps == ASSUME BenchmarkInv, AskFails PROVE BenchmarkInv'
    BY ExitKeeps DEF AskFails

\* The ranks of a question without an answer are 0.
LEMMA AnswerableRanks ==
    ASSUME NEW f, \A s \in DOMAIN f : f[s] \in Nat
    PROVE  Answerable(f) \in [DOMAIN f -> Nat]
BY DEF Answerable

LEMMA AskClassicKeeps == ASSUME BenchmarkInv, AskClassic PROVE BenchmarkInv'
<1>1. /\ phase = "ask" /\ mode.kind = "classic" /\ next < Len(questions)
      /\ UNCHANGED <<mode, questions, next, gate, counts, observations, report>>
      /\ phase' = After("ask")
    BY DEF AskClassic, Asking, Input
<1>2. mode.use \subseteq {"gate"}
    BY <1>1 DEF BenchmarkInv, ModeOK
<1>3. phase' = IF Uses("gate") THEN "gate" ELSE "count"
    BY <1>1, <1>2 DEF After, Uses
<1>4. PICK results, ranks, shown :
        /\ DOMAIN results = {"vector", "lexical", "hybrid"}
        /\ ranks = Answerable([s \in DOMAIN results |->
                                  FindExpectedRank(results[s], Question.expected)])
        /\ pending' = [question |-> questions[next + 1], ranks |-> ranks, judged |-> NotJudged,
                       chunks |-> shown]
        /\ IF Question.answerable THEN Score(ranks) ELSE UNCHANGED scores
  <2>1. PICK vector, lexical :
          LET results == [vector |-> vector, lexical |-> lexical,
                          hybrid |-> SearchHybridChunks(vector, lexical)]
              ranks == Answerable([s \in DOMAIN results |->
                                      FindExpectedRank(results[s], Question.expected)])
          IN  /\ pending' = [question |-> questions[next + 1], ranks |-> ranks, judged |-> NotJudged,
                             chunks |-> IF Uses("gate") THEN Cut(vector, JudgeTopK) ELSE <<>>]
              /\ IF Question.answerable THEN Score(ranks) ELSE UNCHANGED scores
      BY DEF AskClassic
  <2>2. PICK results : results = [vector |-> vector, lexical |-> lexical,
                                  hybrid |-> SearchHybridChunks(vector, lexical)]
      OBVIOUS
  <2>3. DOMAIN results = {"vector", "lexical", "hybrid"}
      BY <2>2
  <2>4. PICK ranks : ranks = Answerable([s \in DOMAIN results |->
                                            FindExpectedRank(results[s], Question.expected)])
      OBVIOUS
  <2>5. /\ pending' = [question |-> questions[next + 1], ranks |-> ranks, judged |-> NotJudged,
                       chunks |-> IF Uses("gate") THEN Cut(vector, JudgeTopK) ELSE <<>>]
        /\ IF Question.answerable THEN Score(ranks) ELSE UNCHANGED scores
      BY <2>1, <2>2, <2>4
  <2> QED
      BY <2>3, <2>4, <2>5
<1>5. DOMAIN results = Series(mode)
    BY <1>1, <1>4 DEF Series
<1>6. ranks \in [Series(mode) -> Nat]
  <2>1. PICK f : f = [s \in DOMAIN results |-> FindExpectedRank(results[s], Question.expected)]
      OBVIOUS
  <2>2. DOMAIN f = Series(mode) /\ \A s \in DOMAIN f : f[s] \in Nat
      BY <1>5, <2>1, RanksAreNumbers
  <2>3. ranks = Answerable(f)
      BY <1>4, <2>1
  <2> QED
      BY <2>2, <2>3, AnswerableRanks
<1>7. /\ pending'.question = questions[next + 1] /\ pending'.judged = NotJudged
      /\ pending'.ranks = ranks /\ {"question", "ranks", "judged"} \subseteq DOMAIN pending'
    BY <1>4
<1>8. scores' = IF mode.kind = "classic" /\ Questions[questions[next + 1]].answerable
                THEN [s \in DOMAIN scores |-> AddRank(scores[s], pending'.ranks[s])] ELSE scores
    BY <1>1, <1>4, <1>7 DEF Question, Score
<1> QED
    BY <1>1, <1>3, <1>6, <1>7, <1>8, AskedKeeps DEF Asks

LEMMA AskDoclingKeeps == ASSUME BenchmarkInv, AskDocling PROVE BenchmarkInv'
<1>1. /\ phase = "ask" /\ mode.kind = "docling" /\ next < Len(questions)
      /\ UNCHANGED <<mode, questions, next, gate, counts, observations, report, scores>>
      /\ phase' = After("ask")
    BY DEF AskDocling, Asking, Input, Results
<1>2. ~ Uses("gate")
    BY <1>1 DEF BenchmarkInv, ModeOK, Uses
<1>3. phase' = IF Uses("reranker") THEN "reranker" ELSE IF Uses("bge") THEN "bge" ELSE "count"
    BY <1>1, <1>2 DEF After
<1>4. /\ pending'.question = questions[next + 1] /\ pending'.judged = NotJudged
      /\ {"question", "ranks", "judged"} \subseteq DOMAIN pending'
    BY DEF AskDocling
<1>5. pending'.ranks \in [Series(mode) -> Nat]
  <2>1. PICK f : /\ pending'.ranks = Answerable(f) /\ DOMAIN f = Series(mode)
                 /\ \A s \in DOMAIN f : \E list : f[s] = ExpectedPageRank(list, Question.expected)
      BY DEF AskDocling
  <2> QED
      BY <2>1, RanksAreNumbers, AnswerableRanks
<1> QED
    BY <1>1, <1>2, <1>3, <1>4, <1>5, AskedKeeps DEF Asks

LEMMA AskEmbeddingsKeeps == ASSUME BenchmarkInv, AskEmbeddings PROVE BenchmarkInv'
<1>1. /\ phase = "ask" /\ mode.kind \in {"v1", "v1_v4"} /\ next < Len(questions)
      /\ UNCHANGED <<mode, questions, next, gate, counts, observations, report, scores>>
      /\ phase' = "count"
    BY DEF AskEmbeddings, Asking, Input, Results
<1>2. ~ Uses("gate")
    BY <1>1 DEF BenchmarkInv, ModeOK, Uses
<1>3. /\ pending'.question = questions[next + 1] /\ pending'.judged = NotJudged
      /\ {"question", "ranks", "judged"} \subseteq DOMAIN pending'
    BY DEF AskEmbeddings
<1>4. pending'.ranks \in [Series(mode) -> Nat]
  <2>1. PICK near, xnear :
          pending'.ranks = Answerable(
            [s \in Series(mode) |->
               CASE s = "v1" -> ExpectedPageRank(PagesOf(Ranked("v1", near)), Question.expected)
                 [] s = "x1" -> ExpectedPageRank(PagesOf(Ranked("v1", xnear)), Question.expected)
                 [] OTHER -> ExpectedPageRank(PagesOf(Ranked("v4", xnear)), Question.expected)])
      BY SMTT(30) DEF AskEmbeddings
  <2>2. PICK f : pending'.ranks = Answerable(f) /\ DOMAIN f = Series(mode)
                 /\ \A s \in DOMAIN f : \E list : f[s] = ExpectedPageRank(list, Question.expected)
      BY <2>1
  <2> QED
      BY <2>2, RanksAreNumbers, AnswerableRanks
<1> QED
    BY <1>1, <1>2, <1>3, <1>4, AskedKeeps DEF Asks

\* A judge's reply, or the lack of one, enters the matrix.
LEMMA JudgedKeeps ==
    ASSUME BenchmarkInv, phase = "gate", phase' = "count",
           UNCHANGED <<mode, questions, next, scores, counts, observations, report>>,
           {"question", "ranks", "judged"} \subseteq DOMAIN pending',
           pending'.question = pending.question, pending'.ranks = pending.ranks,
           Now' \in Noted(mode), Fair(Now'),
           GateOf(gate', mode, Append(observations, Now'))
    PROVE  BenchmarkInv'
<1>1. /\ ModeOK /\ QuestionsOK /\ ObservationsOK /\ ScoresOK /\ CountsOK /\ PendingOK
      /\ next = Len(observations)
    BY DEF BenchmarkInv, Asks
<1>2. mode.kind = "classic" /\ Now \in Noted(mode) /\ observations \in Seq(Noted(mode))
    BY <1>1 DEF PendingOK, ObservationsOK
<1>3. Heard = Append(observations, Now) /\ Heard' = Append(observations, Now')
    BY <1>2 DEF Heard, Asks
<1>4. Settled' = Append(observations, Now')
    BY DEF Settled
<1>5. Now.question = Now'.question /\ Now.ranks = Now'.ranks
    BY DEF Now
<1>6. ScoresOK'
  <2>1. DOMAIN scores = Series(mode) /\ \A s \in Series(mode) : ScoreOf(scores[s], mode, s, Append(observations, Now))
      BY <1>1, <1>3 DEF ScoresOK
  <2>2. \A s \in Series(mode) : ScoreOf(scores[s], mode, s, Append(observations, Now'))
      BY <1>2, <1>5, <2>1, ScoreSame
  <2> QED
      BY <1>3, <2>1, <2>2 DEF ScoresOK
<1>7. ModeOK' /\ QuestionsOK' /\ ObservationsOK' /\ CountsOK'
    BY <1>1 DEF ModeOK, QuestionsOK, ObservationsOK, CountsOK
<1>8. PendingOK'
    BY <1>1 DEF PendingOK
<1> QED
    BY <1>1, <1>4, <1>6, <1>7, <1>8 DEF BenchmarkInv, Begun, Asks

LEMMA JudgeKeeps == ASSUME BenchmarkInv, Judge PROVE BenchmarkInv'
<1>1. /\ phase = "gate" /\ PendingOK /\ QuestionsOK /\ ObservationsOK /\ GateOf(gate, mode, observations)
    BY DEF Judge, BenchmarkInv, Asks, Settled
<1>2. /\ {"question", "ranks", "judged"} \subseteq DOMAIN pending /\ pending.judged = NotJudged
      /\ Now \in Noted(mode) /\ pending.question = questions[next + 1]
      /\ observations \in Seq(Noted(mode))
    BY <1>1 DEF PendingOK, ObservationsOK
<1>3. pending.question \in DOMAIN Questions /\ pending.ranks \in [Series(mode) -> Nat]
    BY <1>2 DEF Now, Noted
<1>4. PICK expected \in BOOLEAN : expected = Questions[pending.question].answerable
    BY <1>3, QuestionType
<1>5. CASE Exit("outside")
    BY <1>5, ExitKeeps
<1>6. ASSUME NEW cell \in {"protocol", "technical"}, gate' = [gate EXCEPT ![cell] = @ + 1],
             pending' = [pending EXCEPT !.judged.kind = cell, !.chunks = <<>>], phase' = "count",
             UNCHANGED <<Input, error, next, scores, counts, observations, report>>
      PROVE  BenchmarkInv'
  <2>1. /\ pending'.question = pending.question /\ pending'.ranks = pending.ranks
        /\ pending'.judged = [pending.judged EXCEPT !.kind = cell]
        /\ {"question", "ranks", "judged"} \subseteq DOMAIN pending'
      BY <1>2, <1>6
  <2>2. PICK judged \in Verdicts : /\ judged = pending'.judged
                                  /\ judged.kind = cell /\ judged.evidence = "none"
    <3>1. PICK verdict \in Verdicts : verdict = pending.judged /\ verdict.evidence = "none"
      <4>1. NotJudged \in Verdicts /\ NotJudged.evidence = "none"
          BY DEF NotJudged, Verdicts
      <4> QED
          BY <1>2, <4>1
    <3>2. PICK judged : judged = [verdict EXCEPT !.kind = cell]
        OBVIOUS
    <3>3. judged \in Verdicts /\ judged.kind = cell /\ judged.evidence = "none"
        BY <3>1, <3>2 DEF Verdicts
    <3> QED
        BY <2>1, <3>1, <3>2, <3>3
  <2>3. Now' = [question |-> pending.question, ranks |-> pending.ranks, judged |-> judged]
      BY <2>1, <2>2 DEF Now
  <2>4. Now' \in Noted(mode) /\ Now'.judged.kind # "decided"
      BY <1>3, <2>2, <2>3 DEF Noted
  <2>5. Fair(Now')
      BY <2>2, <2>3 DEF Fair
  <2>6. GateOf(gate', mode, Append(observations, Now'))
    <3>1. PICK o \in Noted(mode) : o = Now'
        BY <2>4
    <3> QED
        BY <1>1, <1>2, <1>6, <2>4, <3>1, GateErrs
  <2> QED
      BY <1>1, <1>6, <2>1, <2>4, <2>5, <2>6, JudgedKeeps DEF Input
<1>7. ASSUME NEW yes \in BOOLEAN, NEW right \in BOOLEAN,
             gate' = AddGate(gate, Question.answerable, yes, right),
             pending' = [pending EXCEPT !.chunks = <<>>, !.judged =
                            [kind |-> "decided", yes |-> yes,
                             evidence |-> IF ~ (Question.answerable /\ yes) THEN "none"
                                          ELSE IF right THEN "right" ELSE "wrong"]],
             phase' = "count",
             UNCHANGED <<Input, error, next, scores, counts, observations, report>>
      PROVE  BenchmarkInv'
  <2>1. Question.answerable = expected
      BY <1>2, <1>4 DEF Question
  <2>2. PICK evidence \in {"none", "right", "wrong"} :
          evidence = IF ~ (expected /\ yes) THEN "none" ELSE IF right THEN "right" ELSE "wrong"
      OBVIOUS
  <2>3. pending' = [pending EXCEPT !.chunks = <<>>,
                                   !.judged = [kind |-> "decided", yes |-> yes, evidence |-> evidence]]
      BY <1>7, <2>1, <2>2
  <2>4. /\ pending'.question = pending.question /\ pending'.ranks = pending.ranks
        /\ pending'.judged = [kind |-> "decided", yes |-> yes, evidence |-> evidence]
        /\ {"question", "ranks", "judged"} \subseteq DOMAIN pending'
      BY <1>2, <2>3
  <2>5. Now' = [question |-> pending.question, ranks |-> pending.ranks,
                judged |-> [kind |-> "decided", yes |-> yes, evidence |-> evidence]]
      BY <2>4 DEF Now
  <2>6. PICK o \in Noted(mode) : o = Now'
      BY <1>3, <2>5 DEF Noted, Verdicts
  <2>7. /\ o.question = pending.question /\ o.judged.kind = "decided" /\ o.judged.yes = yes
        /\ o.judged.evidence = evidence
      BY <2>5, <2>6
  <2>8. Fair(o)
      BY <1>4, <2>2, <2>7 DEF Fair
  <2>9. GateOf(AddGate(gate, expected, o.judged.yes, right), mode, Append(observations, o))
      BY <1>1, <1>2, <1>4, <2>2, <2>7, GateAdds
  <2>10. GateOf(gate', mode, Append(observations, Now'))
      BY <1>7, <2>1, <2>6, <2>7, <2>9
  <2> QED
      BY <1>1, <1>7, <2>4, <2>6, <2>8, <2>10, JudgedKeeps DEF Input
<1>8. \/ Exit("outside")
      \/ /\ \/ \E cell \in {"protocol", "technical"} :
                   /\ gate' = [gate EXCEPT ![cell] = @ + 1]
                   /\ pending' = [pending EXCEPT !.judged.kind = cell, !.chunks = <<>>]
            \/ \E yes \in BOOLEAN, right \in BOOLEAN :
                   /\ gate' = AddGate(gate, Question.answerable, yes, right)
                   /\ pending' = [pending EXCEPT !.chunks = <<>>, !.judged =
                            [kind |-> "decided", yes |-> yes,
                             evidence |-> IF ~ (Question.answerable /\ yes) THEN "none"
                                          ELSE IF right THEN "right" ELSE "wrong"]]
         /\ phase' = "count"
         /\ UNCHANGED <<Input, error, next, scores, counts, observations, report>>
    BY DEF Judge
<1> QED
    BY <1>5, <1>6, <1>7, <1>8

\* A reranker leaves the rank of its own series.
LEMMA RerankedKeeps ==
    ASSUME BenchmarkInv, phase \in {"reranker", "bge"},
           phase' \in {"bge", "count"}, phase' = "bge" => Uses("bge"),
           UNCHANGED <<mode, questions, next, scores, gate, observations, report>>,
           counts' \in [answerable : Nat, unanswerable : Nat, protocol : Nat, technical : Nat, bge : Nat],
           counts'.answerable = counts.answerable, counts'.unanswerable = counts.unanswerable,
           {"question", "ranks", "judged"} \subseteq DOMAIN pending',
           pending'.question = pending.question, pending'.judged = pending.judged,
           NEW series, NEW rank \in Nat, pending'.ranks = [pending.ranks EXCEPT ![series] = rank]
    PROVE  BenchmarkInv'
<1>1. /\ ModeOK /\ QuestionsOK /\ ObservationsOK /\ ScoresOK /\ CountsOK /\ PendingOK
      /\ next = Len(observations) /\ GateOf(gate, mode, observations)
    BY DEF BenchmarkInv, Asks, Settled
<1>2. /\ mode.kind = "docling" /\ Now \in Noted(mode) /\ Fair(Now)
      /\ pending.judged = NotJudged /\ observations \in Seq(Noted(mode))
    BY <1>1 DEF PendingOK, ObservationsOK
<1>3. pending.question \in DOMAIN Questions /\ pending.ranks \in [Series(mode) -> Nat]
    BY <1>2 DEF Now, Noted
<1>4. PICK o : o = [question |-> pending.question, ranks |-> pending'.ranks, judged |-> NotJudged]
    OBVIOUS
<1>5. Now' = o
    BY <1>2, <1>4 DEF Now
<1>6. o \in Noted(mode)
    BY <1>3, <1>4 DEF Noted, NotJudged, Verdicts
<1>7. Fair(o)
    BY <1>4 DEF Fair, NotJudged
<1>8. ModeOK' /\ QuestionsOK' /\ ObservationsOK' /\ CountsOK'
    BY <1>1 DEF ModeOK, QuestionsOK, ObservationsOK, CountsOK
<1>9. PendingOK'
    BY <1>1, <1>2, <1>5, <1>6, <1>7 DEF PendingOK, Uses
<1>10. ScoresOK'
  <2>1. Heard = observations /\ Heard' = observations
      BY <1>2 DEF Heard
  <2> QED
      BY <1>1, <2>1 DEF ScoresOK
<1>11. GateOf(gate', mode', Settled')
  <2>1. "gate" \notin mode.use
      BY <1>1, <1>2 DEF ModeOK
  <2>2. GateOf(gate, mode, Append(observations, o))
      BY <1>1, <1>2, <1>4, <1>6, <2>1, GateSame
  <2>3. Settled' = IF phase' = "count" THEN Append(observations, o) ELSE observations
      BY <1>5 DEF Settled
  <2> QED
      BY <1>1, <2>2, <2>3
<1> QED
    BY <1>1, <1>8, <1>9, <1>10, <1>11 DEF BenchmarkInv, Begun, Asks

\* What Rerank and FallBack leave of the question.
LEMMA RerankLeaves ==
    ASSUME NEW reranker, NEW ranking, PendingOK
    PROVE  LET p == Rerank(reranker, ranking)
           IN  /\ {"question", "ranks", "judged"} \subseteq DOMAIN p
               /\ p.question = pending.question /\ p.judged = pending.judged
               /\ \E rank \in Nat : p.ranks = [pending.ranks EXCEPT ![reranker] = rank]
<1>1. {"question", "ranks", "judged"} \subseteq DOMAIN pending
    BY DEF PendingOK
<1>2. \E order : \E rank \in Nat :
        Rerank(reranker, ranking) = [pending EXCEPT !.orders[reranker] = order, !.ranks[reranker] = rank]
  <2>1. PICK order : order = [k \in DOMAIN Shortlist |-> Shortlist[ranking[k]]]
      OBVIOUS
  <2>2. PICK rank \in Nat : rank = IF Question.answerable
                                  THEN ExpectedPageRank(order, Question.expected) ELSE 0
      BY RanksAreNumbers
  <2>3. Rerank(reranker, ranking) = [pending EXCEPT !.orders[reranker] = order, !.ranks[reranker] = rank]
      BY <2>1, <2>2 DEF Rerank
  <2> QED
      BY <2>3
<1> QED
    BY <1>1, <1>2

LEMMA FallBackLeaves ==
    ASSUME NEW reranker, PendingOK
    PROVE  LET p == FallBack(reranker)
           IN  /\ {"question", "ranks", "judged"} \subseteq DOMAIN p
               /\ p.question = pending.question /\ p.judged = pending.judged
               /\ \E rank \in Nat : p.ranks = [pending.ranks EXCEPT ![reranker] = rank]
<1>1. PICK p : p = Rerank(reranker, InRrfOrder)
    OBVIOUS
<1>2. /\ {"question", "ranks", "judged"} \subseteq DOMAIN p
      /\ p.question = pending.question /\ p.judged = pending.judged
      /\ \E rank \in Nat : p.ranks = [pending.ranks EXCEPT ![reranker] = rank]
    BY <1>1, RerankLeaves, SMTT(30)
<1>3. FallBack(reranker) = [p EXCEPT !.failed = @ \cup {reranker}]
    BY <1>1 DEF FallBack
<1> QED
    BY <1>2, <1>3

LEMMA CountsMay ==
    ASSUME CountsOK, NEW cell \in {"protocol", "technical", "bge"}
    PROVE  LET more == [counts EXCEPT ![cell] = @ + 1]
           IN  /\ more \in [answerable : Nat, unanswerable : Nat, protocol : Nat, technical : Nat,
                            bge : Nat]
               /\ more.answerable = counts.answerable /\ more.unanswerable = counts.unanswerable
BY DEF CountsOK

LEMMA RerankOllamaKeeps == ASSUME BenchmarkInv, RerankOllama PROVE BenchmarkInv'
<1>1. PendingOK /\ CountsOK /\ phase = "reranker"
    BY DEF RerankOllama, BenchmarkInv, Asks
<1>2. /\ phase' \in {"bge", "count"} /\ (phase' = "bge" => Uses("bge"))
      /\ UNCHANGED <<mode, questions, next, scores, gate, observations, report>>
    BY DEF RerankOllama, After, Input
<1>3. /\ counts' \in [answerable : Nat, unanswerable : Nat, protocol : Nat, technical : Nat, bge : Nat]
      /\ counts'.answerable = counts.answerable /\ counts'.unanswerable = counts.unanswerable
  <2>1. counts' = counts \/ \E cell \in {"protocol", "technical"} : counts' = [counts EXCEPT ![cell] = @ + 1]
      BY DEF RerankOllama
  <2> QED
      BY <1>1, <2>1, CountsMay DEF CountsOK
<1>4. /\ {"question", "ranks", "judged"} \subseteq DOMAIN pending'
      /\ pending'.question = pending.question /\ pending'.judged = pending.judged
      /\ \E rank \in Nat : pending'.ranks = [pending.ranks EXCEPT !["reranker"] = rank]
  <2>1. pending' = FallBack("reranker") \/ \E ranking : pending' = Rerank("reranker", ranking)
      BY DEF RerankOllama
  <2> QED
      BY <1>1, <2>1, RerankLeaves, FallBackLeaves
<1> QED
    BY <1>1, <1>2, <1>3, <1>4, RerankedKeeps

LEMMA RerankBgeKeeps == ASSUME BenchmarkInv, RerankBge PROVE BenchmarkInv'
<1>1. PendingOK /\ CountsOK /\ phase = "bge"
    BY DEF RerankBge, BenchmarkInv, Asks
<1>2. phase' = "count" /\ UNCHANGED <<mode, questions, next, scores, gate, observations, report>>
    BY DEF RerankBge, Input
<1>3. /\ counts' \in [answerable : Nat, unanswerable : Nat, protocol : Nat, technical : Nat, bge : Nat]
      /\ counts'.answerable = counts.answerable /\ counts'.unanswerable = counts.unanswerable
  <2>1. counts' = counts \/ counts' = [counts EXCEPT !["bge"] = @ + 1]
      BY DEF RerankBge
  <2> QED
      BY <1>1, <2>1, CountsMay DEF CountsOK
<1>4. /\ {"question", "ranks", "judged"} \subseteq DOMAIN pending'
      /\ pending'.question = pending.question /\ pending'.judged = pending.judged
      /\ \E rank \in Nat : pending'.ranks = [pending.ranks EXCEPT !["bge"] = rank]
  <2>1. pending' = FallBack("bge") \/ \E ranking : pending' = Rerank("bge", ranking)
      BY DEF RerankBge
  <2> QED
      BY <1>1, <2>1, RerankLeaves, FallBackLeaves
<1> QED
    BY <1>1, <1>2, <1>3, <1>4, RerankedKeeps

\* One question more, with an answer or without.
Figures == [answerable : Nat, unanswerable : Nat, protocol : Nat, technical : Nat, bge : Nat]
LEMMA CountAdds ==
    ASSUME NEW c \in Figures, NEW n \in Nat, c.answerable + c.unanswerable = n,
           NEW cell \in {"answerable", "unanswerable"}
    PROVE  LET more == [c EXCEPT ![cell] = @ + 1]
           IN  /\ more \in Figures
               /\ more.answerable = c.answerable + (IF cell = "answerable" THEN 1 ELSE 0)
               /\ more.answerable + more.unanswerable = n + 1
<1>1. PICK a \in Nat, u \in Nat : a = c.answerable /\ u = c.unanswerable
    BY DEF Figures
<1>2. PICK more : more = [c EXCEPT ![cell] = @ + 1]
    OBVIOUS
<1>3. more \in Figures
    BY <1>2 DEF Figures
<1>4. CASE cell = "answerable"
  <2>1. more.answerable = a + 1 /\ more.unanswerable = u
      BY <1>1, <1>2, <1>4 DEF Figures
  <2> QED
      BY <1>1, <1>2, <1>3, <1>4, <2>1
<1>5. CASE cell = "unanswerable"
  <2>1. more.answerable = a /\ more.unanswerable = u + 1
      BY <1>1, <1>2, <1>5 DEF Figures
  <2> QED
      BY <1>1, <1>2, <1>3, <1>5, <2>1
<1> QED
    BY <1>4, <1>5

\* The question in progress becomes an observation.
LEMMA CountKeeps == ASSUME BenchmarkInv, Count PROVE BenchmarkInv'
<1>1. /\ phase = "count" /\ phase' = "ask" /\ next' = next + 1
      /\ observations' = Append(observations, Now)
      /\ UNCHANGED <<mode, questions, gate, report>>
    BY DEF Count, Now, Input
<1>2. /\ ModeOK /\ QuestionsOK /\ ObservationsOK /\ ScoresOK /\ CountsOK /\ PendingOK
      /\ next = Len(observations) /\ GateOf(gate, mode, observations')
    BY <1>1 DEF BenchmarkInv, Asks, Settled
<1>3. PICK o \in Noted(mode) : o = Now
    BY <1>2 DEF PendingOK
<1>4. /\ o.question = pending.question /\ o.ranks = pending.ranks
      /\ o.question = questions[next + 1] /\ next < Len(questions) /\ Fair(o)
    BY <1>2, <1>3 DEF PendingOK, Now
<1>5. o.question \in DOMAIN Questions
    BY <1>3 DEF Noted
<1>6. PICK answered \in BOOLEAN : answered = Questions[o.question].answerable
    BY <1>5, QuestionType
<1>7. Question.answerable = answered
    BY <1>4, <1>6 DEF Question
<1>8. PICK n \in Nat : n = Len(observations) /\ DOMAIN observations = 1 .. n /\ observations \in Seq(Noted(mode))
    BY <1>2 DEF ObservationsOK
<1>9. /\ Len(observations') = n + 1 /\ DOMAIN observations' = 1 .. (n + 1)
      /\ observations'[n + 1] = o /\ \A k \in 1 .. n : observations'[k] = observations[k]
      /\ observations' \in Seq(Noted(mode))
    BY <1>1, <1>3, <1>8
<1>10. ObservationsOK'
  <2>1. ASSUME NEW k \in 1 .. (n + 1)
        PROVE  observations'[k].question = questions[k] /\ Fair(observations'[k])
    <3>1. CASE k \in 1 .. n
        BY <1>2, <1>8, <1>9, <3>1 DEF ObservationsOK
    <3>2. CASE k = n + 1
        BY <1>2, <1>4, <1>8, <1>9, <3>2
    <3> QED
        BY <3>1, <3>2
  <2>2. n + 1 <= Len(questions)
    <3>1. Len(questions) \in Nat
        BY <1>2 DEF QuestionsOK
    <3> QED
        BY <1>2, <1>4, <1>8, <3>1
  <2> QED
      BY <1>1, <1>9, <2>1, <2>2 DEF ObservationsOK, Fair
<1>11. ModeOK' /\ QuestionsOK'
    BY <1>1, <1>2 DEF ModeOK, QuestionsOK
<1>12. Heard' = observations' /\ Settled' = observations'
    BY <1>1 DEF Heard, Settled, Asks
<1>13. ScoresOK'
  <2>1. DOMAIN scores = Series(mode) /\ \A s \in Series(mode) : ScoreOf(scores[s], mode, s, Heard)
      BY <1>2 DEF ScoresOK
  <2>2. CASE mode.kind = "classic"
    <3>1. Heard = observations' /\ scores' = scores
        BY <1>1, <2>2 DEF Heard, Asks, Count
    <3> QED
        BY <1>1, <1>12, <2>1, <3>1 DEF ScoresOK
  <2>3. CASE mode.kind # "classic"
    <3>1. Heard = observations
        BY <2>3 DEF Heard
    <3>2. scores' = IF answered THEN [s \in DOMAIN scores |-> AddRank(scores[s], o.ranks[s])] ELSE scores
        BY <1>4, <1>7, <2>3 DEF Count, Score
    <3>3. ASSUME NEW s \in Series(mode) PROVE ScoreOf(scores'[s], mode, s, Append(observations, o))
      <4>1. ScoreOf(IF answered THEN AddRank(scores[s], o.ranks[s]) ELSE scores[s], mode, s,
                    Append(observations, o))
          BY <1>6, <1>8, <2>1, <3>1, ScoreAdds
      <4>2. scores'[s] = IF answered THEN AddRank(scores[s], o.ranks[s]) ELSE scores[s]
          BY <2>1, <3>2
      <4> QED
          BY <4>1, <4>2
    <3>4. DOMAIN scores' = Series(mode)
        BY <2>1, <3>2
    <3> QED
        BY <1>1, <1>3, <1>12, <3>3, <3>4 DEF ScoresOK
  <2> QED
      BY <2>2, <2>3
<1>14. GateOf(gate', mode', Settled')
    BY <1>1, <1>2, <1>12
<1>15. CountsOK'
  <2>1. counts' = [counts EXCEPT ![IF answered THEN "answerable" ELSE "unanswerable"] = @ + 1]
      BY <1>7 DEF Count
  <2>2. /\ Tally(observations, WithAnswer(mode)) \in Nat
        /\ Tally(observations', WithAnswer(mode))
             = Tally(observations, WithAnswer(mode)) + (IF o \in WithAnswer(mode) THEN 1 ELSE 0)
      BY <1>1, <1>3, <1>8, TallyAppend
  <2>3. o \in WithAnswer(mode) <=> answered
      BY <1>6 DEF WithAnswer
  <2>4. /\ counts \in Figures /\ counts.answerable = Tally(observations, WithAnswer(mode))
        /\ counts.answerable + counts.unanswerable = n
      BY <1>2, <1>8 DEF CountsOK, Figures
  <2>5. PICK cell \in {"answerable", "unanswerable"} : cell = IF answered THEN "answerable" ELSE "unanswerable"
      OBVIOUS
  <2>6. /\ counts' \in Figures
        /\ counts'.answerable = counts.answerable + (IF cell = "answerable" THEN 1 ELSE 0)
        /\ counts'.answerable + counts'.unanswerable = n + 1
      BY <2>1, <2>4, <2>5, CountAdds
  <2>7. (IF cell = "answerable" THEN 1 ELSE 0) = (IF o \in WithAnswer(mode) THEN 1 ELSE 0)
      BY <2>3, <2>5
  <2>8. counts'.answerable = Tally(observations', WithAnswer(mode))
      BY <2>2, <2>4, <2>6, <2>7
  <2> QED
      BY <1>1, <1>9, <2>6, <2>8 DEF CountsOK, Figures
<1>16. next' = Len(observations')
    BY <1>1, <1>2, <1>8, <1>9
<1> QED
    BY <1>1, <1>10, <1>11, <1>13, <1>14, <1>15, <1>16 DEF BenchmarkInv, Begun, Asks

\* The lists that are printed are as long as the matrix says.
LEMMA ReportKeeps == ASSUME BenchmarkInv, Report PROVE BenchmarkInv'
<1>1. /\ phase = "ask" /\ phase' = "done" /\ next = Len(questions)
      /\ UNCHANGED <<mode, questions, next, scores, gate, counts, observations>>
    BY DEF Report, Input
<1>2. /\ ModeOK /\ QuestionsOK /\ ObservationsOK /\ ScoresOK /\ CountsOK
      /\ next = Len(observations) /\ GateOf(gate, mode, observations)
    BY <1>1 DEF BenchmarkInv, Asks, Settled
<1>3. /\ observations \in Seq(Noted(mode))
      /\ \A k \in DOMAIN observations : observations[k].question = questions[k] /\ Fair(observations[k])
      /\ DOMAIN observations = DOMAIN questions
  <2>1. PICK n \in Nat : n = Len(observations) /\ DOMAIN observations = 1 .. n
      BY <1>2 DEF ObservationsOK
  <2>2. questions \in Seq(DOMAIN Questions) /\ Len(questions) = n
      BY <1>1, <1>2, <2>1 DEF QuestionsOK
  <2>3. DOMAIN questions = 1 .. n
      BY <2>2
  <2> QED
      BY <1>2, <2>1, <2>3 DEF ObservationsOK
<1>4. \A j, k \in DOMAIN observations : observations[j].question = observations[k].question => j = k
    BY <1>2, <1>3 DEF QuestionsOK
<1>5. \A p \in ToSet(observations) : p \in Noted(mode) /\ Fair(p)
    BY <1>3 DEF ToSet
<1> DEFINE Y == FalseYes(mode)
           N == FalseNo(mode)
           W == WrongIn(mode)
<1>6. \A p \in ToSet(observations) : (Misclassified(p) <=> p \in Y \cup N) /\ (WrongEvidence(p) <=> p \in W)
  <2>1. ASSUME NEW p \in ToSet(observations)
        PROVE  (Misclassified(p) <=> p \in Y \cup N) /\ (WrongEvidence(p) <=> p \in W)
    <3>1. p \in Noted(mode) /\ Fair(p)
        BY <1>5
    <3>2. p.question \in DOMAIN Questions /\ p.judged.yes \in BOOLEAN
        BY <3>1 DEF Noted, Verdicts
    <3>3. PICK yes \in BOOLEAN, expected \in BOOLEAN :
            yes = p.judged.yes /\ expected = Questions[p.question].answerable
        BY <3>2, QuestionType
    <3>4. Misclassified(p) <=> p \in Y \cup N
        BY <3>1, <3>3 DEF Misclassified, FalseYes, FalseNo, Decided
    <3>5. WrongEvidence(p) <=> p \in W
        BY <3>1 DEF WrongEvidence, WrongIn, Decided, Fair
    <3> QED
        BY <3>4, <3>5
  <2> QED
      BY <2>1
<1>7. /\ Having(Misclassified) = HavingIn(observations, Y \cup N)
      /\ Having(WrongEvidence) = HavingIn(observations, W)
    BY <1>6 DEF Having, HavingIn
<1>8. HavingIn(observations, Y \cup N) \cup HavingIn(observations, W) = HavingIn(observations, (Y \cup N) \cup W)
    BY DEF HavingIn
<1>9. /\ report'.misclassified = HavingIn(observations, Y \cup N)
      /\ report'.evidence = HavingIn(observations, W)
      /\ report'.detailed = HavingIn(observations, (Y \cup N) \cup W)
    BY <1>7, <1>8 DEF Report
<1>10. \A T : Cardinality(HavingIn(observations, T)) = Tally(observations, T)
    BY <1>3, <1>4, HavingTally
<1>11. PICK fp \in Nat, fn \in Nat, wrong \in Nat :
          /\ fp = gate.fp /\ fn = gate.fn /\ wrong = gate.evidence_fp
          /\ fp = Tally(observations, Y) /\ fn = Tally(observations, N) /\ wrong = Tally(observations, W)
    BY <1>2 DEF GateOf, Gates, Cells
<1>12. \A o : ~ (o \in Y /\ o \in N)
    BY DEF FalseYes, FalseNo
<1>13. Tally(observations, Y \cup N) = fp + fn
    BY <1>3, <1>11, <1>12, TallyUnion
<1>14. Tally(observations, (Y \cup N) \cup W) = fp + fn + wrong
  <2>1. PICK V : V = {o \in W : Fair(o)}
      OBVIOUS
  <2>2. \A o : ~ (o \in Y \cup N /\ o \in V)
      BY <2>1 DEF FalseYes, FalseNo, WrongIn, Fair
  <2>3. \A k \in DOMAIN observations : observations[k] \in V <=> observations[k] \in W
      BY <1>3, <2>1
  <2>4. /\ Tally(observations, V) = Tally(observations, W)
        /\ Tally(observations, (Y \cup N) \cup V) = Tally(observations, (Y \cup N) \cup W)
      BY <2>3 DEF Tally
  <2>5. Tally(observations, (Y \cup N) \cup V) = Tally(observations, Y \cup N) + Tally(observations, V)
      BY <1>3, <2>2, TallyUnion
  <2> QED
      BY <1>11, <1>13, <2>4, <2>5
<1>15. ReportOK'
    BY <1>1, <1>2, <1>9, <1>10, <1>11, <1>13, <1>14 DEF ReportOK
<1>16. ModeOK' /\ QuestionsOK' /\ ObservationsOK' /\ CountsOK'
    BY <1>1, <1>2 DEF ModeOK, QuestionsOK, ObservationsOK, CountsOK
<1>17. ScoresOK' /\ GateOf(gate', mode', Settled')
    BY <1>1, <1>2 DEF ScoresOK, Heard, Settled, Asks
<1> QED
    BY <1>1, <1>2, <1>15, <1>16, <1>17 DEF BenchmarkInv, Begun, Asks

\* The invariant says of each observation list what ScoresAccount counts.
LEMMA InvGivesAccount == ASSUME BenchmarkInv PROVE ScoresAccount
<1>1. CASE phase \in {"ask", "done"}
  <2>1. /\ ModeOK /\ QuestionsOK /\ ObservationsOK /\ ScoresOK /\ CountsOK
        /\ GateOf(gate, mode, observations)
      BY <1>1 DEF BenchmarkInv, Asks, Settled
  <2>2. /\ observations \in Seq(Noted(mode)) /\ \A k \in DOMAIN observations : observations[k] \in Noted(mode)
      BY <2>1, OfSeq DEF ObservationsOK
  <2>3. Observed(IsAnswerable) = Tally(observations, WithAnswer(mode))
    <3>1. {k \in DOMAIN observations : IsAnswerable(observations[k])}
             = {k \in DOMAIN observations : observations[k] \in WithAnswer(mode)}
        BY <2>2 DEF IsAnswerable, WithAnswer
    <3> QED
        BY <3>1 DEF Observed, Tally
  <2>4. ASSUME NEW s \in Series(mode) PROVE ScoreAgrees(s)
    <3>1. ASSUME NEW n
          PROVE  Observed(LAMBDA o : IsAnswerable(o) /\ o.ranks[s] \in 1 .. n) = Tally(observations, Hit(mode, s, n))
      <4>1. {k \in DOMAIN observations : IsAnswerable(observations[k]) /\ observations[k].ranks[s] \in 1 .. n}
               = {k \in DOMAIN observations : observations[k] \in Hit(mode, s, n)}
          BY <2>2 DEF IsAnswerable, WithAnswer, Hit
      <4> QED
          BY <4>1 DEF Observed, Tally
    <3>2. Observed(LAMBDA o : IsAnswerable(o) /\ o.ranks[s] # 0) = Tally(observations, FoundBy(mode, s))
      <4>1. {k \in DOMAIN observations : IsAnswerable(observations[k]) /\ observations[k].ranks[s] # 0}
               = {k \in DOMAIN observations : observations[k] \in FoundBy(mode, s)}
          BY <2>2 DEF IsAnswerable, WithAnswer, FoundBy
      <4> QED
          BY <4>1 DEF Observed, Tally
    <3>3. ScoreOf(scores[s], mode, s, observations)
        BY <1>1, <2>1 DEF ScoresOK, Heard, Asks
    <3> QED
        BY <2>3, <3>1, <3>2, <3>3 DEF ScoreAgrees, ScoreOf
  <2>5. GateAgrees
      BY <2>1 DEF GateOf, Sums, All, GateAgrees, Uses
  <2>6. phase = "done" => ReportOK
      BY DEF BenchmarkInv
  <2> QED
      BY <2>1, <2>3, <2>4, <2>5, <2>6 DEF ScoresAccount, ScoresOK, CountsOK, ReportOK
<1>2. CASE phase \notin {"ask", "done"}
    BY <1>2 DEF ScoresAccount
<1> QED
    BY <1>1, <1>2

THEOREM BenchmarkInvHolds == QBSpec => []BenchmarkInv
<1>1. ASSUME QBInit PROVE BenchmarkInv
    BY <1>1, InitKept
<1>2. ASSUME BenchmarkInv, [QBNext]_QBvars PROVE BenchmarkInv'
  <2>1. CASE UNCHANGED QBvars
    <3>1. Heard' = Heard /\ Settled' = Settled /\ Now' = Now
        BY <2>1 DEF QBvars, Heard, Settled, Now
    <3>2. /\ (ModeOK => ModeOK') /\ (QuestionsOK => QuestionsOK') /\ (Fresh => Fresh')
          /\ (ObservationsOK => ObservationsOK') /\ (ScoresOK => ScoresOK') /\ (CountsOK => CountsOK')
          /\ (PendingOK => PendingOK') /\ (ReportOK => ReportOK')
        BY <2>1, <3>1 DEF QBvars, ModeOK, QuestionsOK, Fresh, ObservationsOK, ScoresOK, CountsOK,
                         PendingOK, ReportOK, Uses
    <3> QED
        BY <1>2, <2>1, <3>1, <3>2 DEF QBvars, BenchmarkInv
  <2> QED
      BY <1>2, <2>1, ParseKeeps, IndexFileKeeps, LoadKeeps, BuildKeeps, AskFailsKeeps, AskClassicKeeps,
         AskDoclingKeeps, AskEmbeddingsKeeps, JudgeKeeps, RerankOllamaKeeps, RerankBgeKeeps, CountKeeps,
         ReportKeeps DEF QBNext
<1> QED
    BY <1>1, <1>2, PTL DEF QBSpec

\* At any moment between two questions the scores, the matrix and the counts are
\* those of the questions answered so far, and the report has as many questions
\* as the matrix (qa_benchmark.py: add_rank, AnswerabilityMetrics, the reports).
THEOREM ScoresAddUp == QBSpec => []ScoresAccount
<1>1. BenchmarkInv => ScoresAccount
    BY InvGivesAccount
<1> QED
    BY <1>1, BenchmarkInvHolds, PTL
=============================================================================
