------------------------- MODULE EvaluationCampaigns -------------------------
(***************************************************************************)
(* Questions, their attempts, and the campaigns that repeat them:          *)
(*   - the suite of an evaluation and its campaigns (qa/evaluation.py):    *)
(*     run_campaign executes every question of the suite with every        *)
(*     revision of the plan, and never looks at the status it finds;       *)
(*   - one RAG execution (qa/rag_execution.py): the attempt is committed   *)
(*     as "processing", then the answer is computed, then the evidence and *)
(*     the end of the attempt are committed together;                      *)
(*   - the older vector retrieval (qa/retrieval.py, qa/service.py), whose  *)
(*     calls each open and commit a session of their own.                  *)
(* The session of a request keeps what it has read of the campaign row     *)
(* ("seen") until a commit expires it, and an UPDATE leaves out a column   *)
(* that is assigned the value the session has already seen.                *)
(***************************************************************************)
EXTENDS Integers, FiniteSets, Sequences

CONSTANTS
    Questions,      \* Question rows, absent or created
    Campaigns,      \* EvaluationCampaign rows of one EvaluationSuite
    Revisions,      \* ConfigurationProfileRevision rows (never deleted)
    Runners,        \* requests that run campaigns
    Askers,         \* processes that ask by vector retrieval
    MaxPosition,    \* positions of the suite (bound)
    MaxRepetitions, \* repetitions of a plan (bound)
    MaxAttempts,    \* QuestionAttempt rows (bound)
    MaxRuns,        \* runs of campaigns, all together (bound)
    MaxEvidence,    \* QuestionEvidence rows of one attempt (bound)
    MaxCrashes,     \* processes that die (bound)
    NoCampaign, NoRevision, NoQuestion

ASSUME ActorsDisjoint == Runners \cap Askers = {}
ASSUME BoundsAssumption ==
    /\ MaxPosition \in Nat /\ MaxRepetitions \in Nat /\ MaxEvidence \in Nat
    /\ MaxAttempts \in Nat /\ MaxRuns \in Nat /\ MaxCrashes \in Nat
ASSUME NullsAssumption ==
    /\ NoCampaign \notin Campaigns
    /\ NoRevision \notin Revisions
    /\ NoQuestion \notin Questions
ASSUME FiniteAssumption == IsFiniteSet(Questions) /\ IsFiniteSet(Revisions)

Ids == 1 .. MaxAttempts
NoAttempt == 0

CampaignStates == {"none", "pending", "running", "completed", "failed"}
QuestionStates == {"absent", "pending", "processing", "resolved", "unresolved"}
Ended == {"completed", "failed", "resolved", "unresolved"}

Attempt == [question : Questions, number : Nat \ {0}, status : Ended \cup {"processing"},
            campaign : Campaigns \cup {NoCampaign}, revision : Revisions \cup {NoRevision},
            evidence : 0 .. MaxEvidence]

VARIABLES
    position,   \* EvaluationSuiteQuestion.position, 0 for a question outside
    question,   \* Question.status
    attempts,   \* QuestionAttempt rows by id, in the order of insertion
    plan,       \* EvaluationCampaign.configuration
    status,     \* EvaluationCampaign.status
    ended,      \* EvaluationCampaign.completed_at is not null
    job,        \* the open run_campaign of each runner
    ask,        \* the open vector question of each asker
    lost,       \* attempts whose process died (history variable)
    abandoned,  \* campaigns with a run that died (history variable)
    runs,       \* runs started so far (bounds the behaviours)
    crashes     \* processes that died so far (bounds the behaviours)

suite == <<position, question>>
campaigns == <<plan, status, ended>>
history == <<lost, abandoned, runs, crashes>>
vars == <<suite, attempts, campaigns, job, ask, history>>

Phases == {"idle", "started", "next", "numbered", "answering", "failing", "reported"}

\* "results" are the attempts of the RagExecutionResults, "errors" the number
\* of CampaignRunErrors by revision; "done" items of the plan are over.
NoJob == [phase |-> "idle", campaign |-> NoCampaign, seen |-> "none", seenEnded |-> FALSE,
          questions |-> <<>>, done |-> 0, number |-> 1, attempt |-> NoAttempt,
          results |-> {}, errors |-> [v \in Revisions |-> 0]]
Idle == [phase |-> "idle", question |-> NoQuestion, attempt |-> NoAttempt]

Exists(q) == question[q] # "absent"
AttemptsOf(q) == {a \in DOMAIN attempts : attempts[a].question = q}
Numbers(q) == {attempts[a].number : a \in AttemptsOf(q)}

\* mutant: the highest number itself, 0 if there is none
IsLastNumber(q, n) ==
    IF Numbers(q) = {} THEN n = 0 ELSE n \in Numbers(q) /\ \A m \in Numbers(q) : m <= n
\* _next_attempt_number: (max or 0) + 1.
IsNextNumber(q, n) ==
    IF Numbers(q) = {} THEN n = 1
    ELSE n - 1 \in Numbers(q) /\ \A m \in Numbers(q) : m < n

\* mutant: no unique constraint
NumberUnchecked(q, n) == TRUE
\* uq_question_attempts_question_number lets the row in.
NumberFree(q, n) == n \notin Numbers(q)

(***************************************************************************)
(* The plan of a campaign and the items of a run: for each revision, for   *)
(* each question in suite order, for each repetition.                      *)
(***************************************************************************)
Plans == [revisions : {s \in UNION {[1 .. n -> Revisions] : n \in 1 .. Cardinality(Revisions)} :
                         \A i, j \in DOMAIN s : s[i] = s[j] => i = j},
          repetitions : 1 .. MaxRepetitions]
NoPlan == [revisions |-> <<>>, repetitions |-> 0]

Members == {q \in Questions : position[q] > 0}

\* list_questions: ordered by position.
InOrder(s) ==
    /\ \A i, j \in DOMAIN s : i < j => position[s[i]] < position[s[j]]
    /\ {s[i] : i \in DOMAIN s} = Members

Total(j) == Len(plan[j.campaign].revisions) * Len(j.questions) * plan[j.campaign].repetitions
ItemQuestion(j) == j.questions[((j.done \div plan[j.campaign].repetitions) % Len(j.questions)) + 1]
ItemRevision(j) ==
    plan[j.campaign].revisions[(j.done \div (Len(j.questions) * plan[j.campaign].repetitions)) + 1]

(***************************************************************************)
(* The rows before any call: a suite without question.                     *)
(***************************************************************************)
Init ==
    /\ position = [q \in Questions |-> 0]
    /\ question = [q \in Questions |-> "absent"]
    /\ attempts = <<>>
    /\ plan = [c \in Campaigns |-> NoPlan]
    /\ status = [c \in Campaigns |-> "none"]
    /\ ended = [c \in Campaigns |-> FALSE]
    /\ job = [r \in Runners |-> NoJob]
    /\ ask = [p \in Askers |-> Idle]
    /\ lost = {} /\ abandoned = {} /\ runs = 0 /\ crashes = 0

(***************************************************************************)
(* The suite.  A refused request (a question absent or already in the      *)
(* suite, a position in use) changes nothing.                              *)
(***************************************************************************)
CreateQuestion(q) ==
    /\ ~ Exists(q)
    /\ question' = [question EXCEPT ![q] = "pending"]
    /\ UNCHANGED <<position, attempts, campaigns, job, ask, history>>

\* The position is the caller's, or one past the last.
add_question(q, n) ==
    /\ Exists(q)
    /\ \A p \in Askers : ask[p].question # q    \* nobody else knows its id yet
    /\ q \notin Members
    /\ \A m \in Members : position[m] # n
    /\ position' = [position EXCEPT ![q] = n]
    /\ UNCHANGED <<question, attempts, campaigns, job, ask, history>>

remove_question(q) ==
    /\ q \in Members
    /\ position' = [position EXCEPT ![q] = 0]
    /\ UNCHANGED <<question, attempts, campaigns, job, ask, history>>

\* EvaluationCampaignService.create, with the plan _validate_plan_inputs lets by.
create(c, p) ==
    /\ status[c] = "none"
    /\ Members # {}
    /\ plan' = [plan EXCEPT ![c] = p]
    /\ status' = [status EXCEPT ![c] = "pending"]
    /\ UNCHANGED <<suite, attempts, ended, job, ask, history>>

(***************************************************************************)
(* run_campaign.                                                           *)
(***************************************************************************)

\* The campaign row, its plan and the questions are read.
Start(r, c) ==
    /\ job[r].phase = "idle" /\ runs < MaxRuns
    /\ status[c] # "none"
    /\ \E s \in UNION {[1 .. n -> Questions] : n \in 0 .. Cardinality(Questions)} :
         /\ InOrder(s)
         /\ job' = [job EXCEPT ![r] = [NoJob EXCEPT
                      !.phase = IF s = <<>> THEN "failing" ELSE "started",
                      !.campaign = c, !.questions = s,
                      !.seen = status[c], !.seenEnded = ended[c]]]
    /\ runs' = runs + 1
    /\ UNCHANGED <<suite, attempts, campaigns, ask, lost, abandoned, crashes>>

\* "running" is committed, with the columns the session believes changed.
Begin(r) ==
    /\ job[r].phase = "started"
    /\ LET c == job[r].campaign IN
         /\ status' = IF job[r].seen = "running" THEN status
                      ELSE [status EXCEPT ![c] = "running"]
         /\ ended' = IF job[r].seenEnded THEN [ended EXCEPT ![c] = FALSE] ELSE ended
    /\ job' = [job EXCEPT ![r].phase = "next", ![r].seen = "none"]
    /\ UNCHANGED <<suite, attempts, plan, ask, history>>

\* What the session has seen of the campaign once campaign.id was evaluated.
Seen(r) == IF job[r].seen = "none" THEN status[job[r].campaign] ELSE job[r].seen

\* mutant: the error of an execution is swallowed
Swallowed(j) == [j EXCEPT !.phase = "next", !.done = @ + 1, !.attempt = NoAttempt]
\* mutant: the item is tried again after an error
Retried(j) == [j EXCEPT !.phase = "next", !.attempt = NoAttempt]
\* An error of the current item is recorded and the loop goes on.
Recorded(j) == [j EXCEPT !.phase = "next", !.done = @ + 1, !.attempt = NoAttempt,
                         !.errors[ItemRevision(j)] = @ + 1]

\* The runtime of the next item cannot be built (no content, no model): the
\* error comes before the attempt, and nothing is committed.
Unprepared(r) ==
    /\ job[r].phase = "next" /\ job[r].done < Total(job[r])
    /\ job' = [job EXCEPT ![r] = Recorded([job[r] EXCEPT !.seen = Seen(r)])]
    /\ UNCHANGED <<suite, attempts, campaigns, ask, history>>

\* execute: the runtime is built and the attempt number is read.
Prepare(r) ==
    /\ job[r].phase = "next" /\ job[r].done < Total(job[r])
    /\ \E n \in 0 .. MaxAttempts + 1 :
         /\ IsNextNumber(ItemQuestion(job[r]), n)
         /\ job' = [job EXCEPT ![r].phase = "numbered", ![r].number = n, ![r].seen = Seen(r)]
    /\ UNCHANGED <<suite, attempts, campaigns, ask, history>>

\* The attempt is inserted and committed.
InsertAttempt(r) ==
    /\ job[r].phase = "numbered" /\ Len(attempts) < MaxAttempts
    /\ NumberFree(ItemQuestion(job[r]), job[r].number)
    /\ attempts' = Append(attempts, [question |-> ItemQuestion(job[r]), number |-> job[r].number,
                     status |-> "processing", campaign |-> job[r].campaign,
                     revision |-> ItemRevision(job[r]), evidence |-> 0])
    /\ job' = [job EXCEPT ![r].phase = "answering", ![r].seen = "none",
                          ![r].attempt = Len(attempts) + 1]
    /\ UNCHANGED <<suite, campaigns, ask, history>>

\* Another execution took the number: the commit fails outside the try of
\* execute, the session is not rolled back, and the error record itself, which
\* reads question.id, raises again: run_campaign gives up.
RefuseAttempt(r) ==
    /\ job[r].phase = "numbered"
    /\ ~ NumberFree(ItemQuestion(job[r]), job[r].number)
    /\ job' = [job EXCEPT ![r].phase = "failing"]
    /\ UNCHANGED <<suite, attempts, campaigns, ask, history>>

\* One QuestionEvidence row for each passage of the answer's context.
_persist_evidence(row) == [row EXCEPT !.evidence = MaxEvidence]

\* The answer, its evidence and the end of the attempt, in one commit.
Answer(r) ==
    /\ job[r].phase = "answering"
    /\ attempts' = [attempts EXCEPT ![job[r].attempt] =
                     [_persist_evidence(@) EXCEPT !.status = "completed"]]
    /\ job' = [job EXCEPT ![r].phase = "next", ![r].done = @ + 1,
                          ![r].results = @ \cup {job[r].attempt}, ![r].attempt = NoAttempt]
    /\ UNCHANGED <<suite, campaigns, ask, history>>

\* mutant: the failure is not recorded on the attempt
FailureForgotten(row) == row
\* What the handler of a failed answer leaves of the attempt.
FailedAttempt(row) == [row EXCEPT !.status = "failed"]

\* The answer fails: rollback, the attempt is committed as failed, and the
\* exception becomes a CampaignRunError.
FailAnswer(r) ==
    /\ job[r].phase = "answering"
    /\ attempts' = [attempts EXCEPT ![job[r].attempt] = FailedAttempt(@)]
    /\ job' = [job EXCEPT ![r] = Recorded(job[r])]
    /\ UNCHANGED <<suite, campaigns, ask, history>>

\* mutant: a run without any result does not write its end
EndOfSuccess(j, s) == IF j.results = {} THEN s ELSE "completed"
\* The status after the loop, whatever the number of errors.
EndStatus(j, s) == IF j.seen = "completed" THEN s ELSE "completed"

Complete(r) ==
    /\ job[r].phase = "next" /\ job[r].done >= Total(job[r])
    /\ status' = [status EXCEPT ![job[r].campaign] = EndStatus(job[r], @)]
    /\ ended' = [ended EXCEPT ![job[r].campaign] = TRUE]
    /\ job' = [job EXCEPT ![r].phase = "reported"]
    /\ UNCHANGED <<suite, attempts, plan, ask, history>>

\* The outer handler: rollback, "failed" is committed, the exception leaves.
FailRun(r) ==
    /\ job[r].phase = "failing"
    /\ status' = [status EXCEPT ![job[r].campaign] = "failed"]
    /\ ended' = [ended EXCEPT ![job[r].campaign] = TRUE]
    /\ job' = [job EXCEPT ![r] = NoJob]
    /\ UNCHANGED <<suite, attempts, plan, ask, history>>

\* The ConfigurationAggregate of one revision in the result.
_configuration_aggregate(j, v) ==
    [total |-> IF \E i \in DOMAIN plan[j.campaign].revisions : plan[j.campaign].revisions[i] = v
               THEN Len(j.questions) * plan[j.campaign].repetitions ELSE 0,
     completed |-> Cardinality({a \in j.results : attempts[a].revision = v}),
     failed |-> j.errors[v]]

\* The result leaves, and the response is built from it.
Return(r) ==
    /\ job[r].phase = "reported"
    /\ job' = [job EXCEPT ![r] = NoJob]
    /\ UNCHANGED <<suite, attempts, campaigns, ask, history>>

\* The process of the request dies.
CrashRun(r) ==
    /\ job[r].phase # "idle" /\ crashes < MaxCrashes
    /\ crashes' = crashes + 1
    /\ lost' = lost \cup ({job[r].attempt} \ {NoAttempt})
    /\ abandoned' = abandoned \cup {job[r].campaign}
    /\ job' = [job EXCEPT ![r] = NoJob]
    /\ UNCHANGED <<suite, attempts, campaigns, ask, runs>>

(***************************************************************************)
(* answer_question_with_vector_retrieval.                                  *)
(***************************************************************************)
Ask(p, q) ==
    /\ ask[p].phase = "idle" /\ ~ Exists(q)
    /\ question' = [question EXCEPT ![q] = "pending"]
    /\ ask' = [ask EXCEPT ![p] = [Idle EXCEPT !.phase = "asked", !.question = q]]
    /\ UNCHANGED <<position, attempts, campaigns, job, history>>

\* create_attempt: numbered by the number of attempts, question "processing".
create_attempt(p) ==
    /\ ask[p].phase = "asked" /\ Len(attempts) < MaxAttempts
    /\ LET q == ask[p].question IN
         /\ attempts' = Append(attempts, [question |-> q,
                          number |-> Cardinality(AttemptsOf(q)) + 1,
                          status |-> "processing", campaign |-> NoCampaign,
                          revision |-> NoRevision, evidence |-> 0])
         /\ question' = [question EXCEPT ![q] = "processing"]
    /\ ask' = [ask EXCEPT ![p].phase = "retrieving", ![p].attempt = Len(attempts) + 1]
    /\ UNCHANGED <<position, campaigns, job, history>>

\* add_evidence: one commit for each passage found.
add_evidence(p) ==
    /\ ask[p].phase = "retrieving"
    /\ attempts[ask[p].attempt].evidence < MaxEvidence
    /\ attempts' = [attempts EXCEPT ![ask[p].attempt].evidence = @ + 1]
    /\ UNCHANGED <<suite, campaigns, job, ask, history>>

\* complete_attempt, once there are passages; or with none, or after an
\* exception, whatever evidence was stored before it.
complete_attempt(p, resolution) ==
    /\ ask[p].phase = "retrieving"
    /\ resolution = "resolved" => attempts[ask[p].attempt].evidence > 0
    /\ attempts' = [attempts EXCEPT ![ask[p].attempt].status = resolution]
    /\ question' = [question EXCEPT ![ask[p].question] = resolution]
    /\ ask' = [ask EXCEPT ![p] = Idle]
    /\ UNCHANGED <<position, campaigns, job, history>>

CrashAsk(p) ==
    /\ ask[p].phase # "idle" /\ crashes < MaxCrashes
    /\ crashes' = crashes + 1
    /\ lost' = lost \cup ({ask[p].attempt} \ {NoAttempt})
    /\ ask' = [ask EXCEPT ![p] = Idle]
    /\ UNCHANGED <<suite, attempts, campaigns, job, abandoned, runs>>

(***************************************************************************)
(* Next, and the steps a live request takes.                               *)
(***************************************************************************)
Advance(r) ==
    \/ Begin(r) \/ Unprepared(r) \/ Prepare(r) \/ InsertAttempt(r) \/ RefuseAttempt(r)
    \/ Answer(r) \/ FailAnswer(r) \/ Complete(r) \/ FailRun(r) \/ Return(r)

AdvanceAsk(p) ==
    \/ create_attempt(p) \/ add_evidence(p)
    \/ \E s \in {"resolved", "unresolved"} : complete_attempt(p, s)

Next ==
    \/ \E q \in Questions :
         \/ CreateQuestion(q) \/ remove_question(q)
         \/ \E n \in 1 .. MaxPosition : add_question(q, n)
         \/ \E p \in Askers : Ask(p, q)
    \/ \E c \in Campaigns :
         \/ \E p \in Plans : create(c, p)
         \/ \E r \in Runners : Start(r, c)
    \/ \E r \in Runners : Advance(r) \/ CrashRun(r)
    \/ \E p \in Askers : AdvanceAsk(p) \/ CrashAsk(p)

\* A request that is running goes on until it ends or dies; nothing makes a
\* caller send one.
Fairness ==
    /\ \A r \in Runners : WF_vars(Advance(r))
    /\ \A p \in Askers : WF_vars(AdvanceAsk(p))

Spec == Init /\ [][Next]_vars
FairSpec == Spec /\ Fairness

-----------------------------------------------------------------------------
(***************************************************************************)
(* Properties.                                                             *)
(***************************************************************************)

Job == [phase : Phases, campaign : Campaigns \cup {NoCampaign}, seen : CampaignStates,
        seenEnded : BOOLEAN, questions : Seq(Questions), done : Nat, number : Nat \ {0},
        attempt : Nat, results : SUBSET Nat, errors : [Revisions -> Nat]]
AskJob == [phase : {"idle", "asked", "retrieving"}, question : Questions \cup {NoQuestion},
           attempt : Nat]

\* The rows and the open calls have the shape of the tables and of the code's
\* local variables.
TypeOK ==
    /\ position \in [Questions -> Nat] /\ question \in [Questions -> QuestionStates]
    /\ attempts \in Seq(Attempt)
    /\ plan \in [Campaigns -> Plans \cup {NoPlan}]
    /\ status \in [Campaigns -> CampaignStates] /\ ended \in [Campaigns -> BOOLEAN]
    /\ job \in [Runners -> Job] /\ ask \in [Askers -> AskJob]
    /\ lost \subseteq DOMAIN attempts /\ abandoned \subseteq Campaigns /\ runs \in Nat /\ crashes \in Nat

\* The attempts of a question are numbered 1 .. n without gap or repetition,
\* though two executions of the question may read the same highest number
\* and though the vector retrieval counts the rows instead.
NumbersDense ==
    \A q \in Questions : Numbers(q) = 1 .. Cardinality(AttemptsOf(q))

\* An attempt is "processing" exactly while the call that inserted it is
\* computing its answer, or for ever if the process of that call died: no
\* error path leaves one open, and none ends the attempt of another call.
OpenAttemptsOwned ==
    \A a \in DOMAIN attempts :
        attempts[a].status = "processing" <=>
            \/ \E r \in Runners : job[r].phase = "answering" /\ job[r].attempt = a
            \/ \E p \in Askers : ask[p].phase = "retrieving" /\ ask[p].attempt = a
            \/ a \in lost

\* The aggregates run_campaign returns account for the whole plan, revision by
\* revision: what is not an error is a completed attempt of this campaign, for
\* this revision, whatever other runs of the campaign did meanwhile.
ReportAccounts ==
    \A r \in Runners : job[r].phase = "reported" =>
        /\ \A a \in job[r].results : /\ attempts[a].status = "completed"
                                       /\ attempts[a].campaign = job[r].campaign
        /\ \A v \in Revisions :
             LET g == _configuration_aggregate(job[r], v) IN g.completed + g.failed = g.total

\* A campaign says "running" only while a run of it is on, or after the
\* process of one died: overlapping runs, each of which writes only what it
\* believes changed, still leave it completed or failed in the end.
SettledCampaigns ==
    \A c \in Campaigns : status[c] = "running" =>
        \/ c \in abandoned
        \/ \E r \in Runners : job[r].campaign = c /\ job[r].phase # "reported"

\* A request to run a campaign ends: with the result, with an exception, or
\* with its process.
RunsEnd == \A r \in Runners : job[r].phase # "idle" ~> job[r].phase = "idle"

=============================================================================
