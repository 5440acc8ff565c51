---------------------- MODULE EvaluationCampaigns_proofs ----------------------
(***************************************************************************)
(* EvaluationCampaigns for every number of runners, askers, questions,     *)
(* revisions and attempts.                                                 *)
(***************************************************************************)
EXTENDS EvaluationCampaigns, FiniteSetTheorems, TLAPS

Answering(r, a) == job[r].phase = "answering" /\ job[r].attempt = a
Retrieving(p, a) == ask[p].phase = "retrieving" /\ ask[p].attempt = a

\* What the record of a run tells of the tables.  The number it has read is
\* free, or was taken meanwhile.
SaneJob(r) ==
    LET j == job[r] IN
    /\ j.phase # "idle" => j.campaign \in Campaigns /\ status[j.campaign] # "none"
    /\ j.phase \in {"numbered", "answering"} => j.done < Total(j)
    /\ j.phase = "numbered" => j.number <= Cardinality(AttemptsOf(ItemQuestion(j))) + 1
    /\ j.phase = "answering" => j.attempt \in DOMAIN attempts
    /\ j.phase # "answering" => j.attempt = NoAttempt

\* The same for a vector question.
SaneAsk(p) ==
    /\ ask[p].phase # "idle" => ask[p].question \in Questions
    /\ ask[p].phase = "retrieving" => ask[p].attempt \in DOMAIN attempts
    /\ ask[p].phase # "retrieving" => ask[p].attempt = NoAttempt

\* An attempt is answered by one call, and a lost one by none.
OneOwner ==
    \A a \in DOMAIN attempts :
        /\ \A r, s \in Runners : Answering(r, a) /\ Answering(s, a) => r = s
        /\ \A p, o \in Askers : Retrieving(p, a) /\ Retrieving(o, a) => p = o
        /\ \A r \in Runners, p \in Askers : ~ (Answering(r, a) /\ Retrieving(p, a))
        /\ a \in lost => /\ \A r \in Runners : ~ Answering(r, a)
                         /\ \A p \in Askers : ~ Retrieving(p, a)

\* A run that will write the end of a campaign that says "running".
Ends(r, c) ==
    /\ job[r].campaign = c /\ job[r].seen # "completed"
    /\ job[r].phase \in {"next", "numbered", "answering", "failing"}
WillSettle ==
    \A c \in Campaigns : status[c] = "running" =>
        c \in abandoned \/ \E r \in Runners : Ends(r, c)

IInv ==
    /\ TypeOK
    /\ \A r \in Runners : SaneJob(r)
    /\ \A p \in Askers : SaneAsk(p)
    /\ OneOwner
    /\ NumbersDense
    /\ OpenAttemptsOwned
    /\ WillSettle

-----------------------------------------------------------------------------
\* The items of a plan.

\* A product bounds a quotient.
LEMMA QuotientBound ==
    ASSUME NEW a \in Nat, NEW b \in Nat, NEW c \in Nat, a < c * b
    PROVE  b > 0 /\ a \div b \in 0 .. c - 1
<1>1. b > 0
  <2>1. CASE b = 0
    <3>1. c * b = 0 BY <2>1
    <3> QED BY <3>1
  <2>2. CASE b # 0 BY <2>2
  <2> QED BY <2>1, <2>2
<1> DEFINE q == a \div b
<1>2. q \in Nat /\ b * q <= a BY <1>1
<1>3. q < c
  <2>1. SUFFICES ASSUME q >= c PROVE FALSE BY <1>2
  <2> DEFINE d == q - c
  <2>2. d \in Nat /\ q = c + d BY <2>1, <1>2
  <2>3. b * q = c * b + b * d BY <2>2
  <2>4. b * d >= 0 BY <2>2
  <2>5. b * d \in Nat /\ c * b \in Nat BY <2>2
  <2> QED BY <2>3, <2>4, <2>5, <1>2
<1> QED BY <1>1, <1>2, <1>3

LEMMA QuotientType ==
    ASSUME NEW a \in Nat, NEW b \in Nat, b > 0
    PROVE  a \div b \in Nat /\ a % b \in 0 .. b - 1
OBVIOUS

LEMMA PlanType ==
    ASSUME NEW p \in Plans \cup {NoPlan}
    PROVE  p.revisions \in Seq(Revisions) /\ p.repetitions \in Nat
<1>1. Cardinality(Revisions) \in Nat BY FS_CardinalityType, FiniteAssumption
<1>2. CASE p = NoPlan BY <1>2 DEF NoPlan
<1>3. CASE p \in Plans
  <2>1. p.repetitions \in Nat BY <1>3, BoundsAssumption DEF Plans
  <2>2. PICK n \in 1 .. Cardinality(Revisions) : p.revisions \in [1 .. n -> Revisions]
    BY <1>3 DEF Plans
  <2>3. n \in Nat BY <1>1
  <2> QED BY <2>1, <2>2, <2>3
<1> QED BY <1>2, <1>3

\* An item that is not over has a question and a revision.
LEMMA ItemType ==
    ASSUME NEW j \in Job, plan[j.campaign] \in Plans \cup {NoPlan}, j.done < Total(j)
    PROVE  ItemQuestion(j) \in Questions /\ ItemRevision(j) \in Revisions
<1> DEFINE p == plan[j.campaign]
           R == Len(p.revisions)
           L == Len(j.questions)
           n == p.repetitions
<1>1. /\ p.revisions \in Seq(Revisions) /\ n \in Nat
      /\ j.questions \in Seq(Questions) /\ j.done \in Nat
  BY PlanType DEF Job
<1>2. R \in Nat /\ L \in Nat BY <1>1
<1>3. j.done < R * L * n BY DEF Total
<1> HIDE DEF p, R, L, n
<1>4. L * n \in Nat /\ R * L * n = R * (L * n) BY <1>1, <1>2
<1>5. L * n > 0 /\ j.done \div (L * n) \in 0 .. R - 1
  BY QuotientBound, <1>1, <1>2, <1>3, <1>4
<1>6. L > 0 /\ n > 0
  <2>1. L = 0 => L * n = 0 BY <1>1
  <2>2. n = 0 => L * n = 0 BY <1>2
  <2> QED BY <2>1, <2>2, <1>1, <1>2, <1>5
<1>7. j.done \div n \in Nat BY <1>1, <1>6, QuotientType
<1>8. (j.done \div n) % L \in 0 .. L - 1 BY <1>2, <1>6, <1>7, QuotientType
<1>9. ((j.done \div n) % L) + 1 \in 1 .. L BY <1>2, <1>8
<1>10. (j.done \div (L * n)) + 1 \in 1 .. R BY <1>2, <1>5
<1>11. ItemQuestion(j) \in Questions BY <1>1, <1>9 DEF ItemQuestion, L, n, p
<1>12. ItemRevision(j) \in Revisions BY <1>1, <1>10 DEF ItemRevision, R, L, n, p
<1> QED BY <1>11, <1>12

-----------------------------------------------------------------------------
\* The attempts of a question.

LEMMA AttemptsFinite ==
    ASSUME TypeOK, NEW q \in Questions
    PROVE  IsFiniteSet(AttemptsOf(q)) /\ Cardinality(AttemptsOf(q)) \in Nat
<1>1. Len(attempts) \in Nat /\ DOMAIN attempts = 1 .. Len(attempts) BY DEF TypeOK
<1>2. IsFiniteSet(DOMAIN attempts) BY <1>1, FS_Interval
<1>3. AttemptsOf(q) \subseteq DOMAIN attempts BY DEF AttemptsOf
<1> QED BY <1>2, <1>3, FS_Subset, FS_CardinalityType

\* An update of a row keeps its question and its number.
LEMMA SameRows ==
    ASSUME DOMAIN attempts' = DOMAIN attempts,
           \A a \in DOMAIN attempts : /\ attempts'[a].question = attempts[a].question
                                      /\ attempts'[a].number = attempts[a].number
    PROVE  \A q \in Questions : /\ AttemptsOf(q)' = AttemptsOf(q)
                                /\ Numbers(q)' = Numbers(q)
<1> SUFFICES ASSUME NEW q \in Questions
             PROVE  AttemptsOf(q)' = AttemptsOf(q) /\ Numbers(q)' = Numbers(q)
  OBVIOUS
<1>1. AttemptsOf(q)' = AttemptsOf(q) BY DEF AttemptsOf
<1>2. \A a \in AttemptsOf(q) : attempts'[a].number = attempts[a].number BY DEF AttemptsOf
<1> QED BY <1>1, <1>2 DEF Numbers

\* A new row with the next number.
LEMMA NewRow ==
    ASSUME TypeOK, NumbersDense, NEW row \in Attempt, attempts' = Append(attempts, row),
           row.number = Cardinality(AttemptsOf(row.question)) + 1
    PROVE  /\ NumbersDense'
           /\ \A q \in Questions : /\ Cardinality(AttemptsOf(q))' \in Nat
                                   /\ Cardinality(AttemptsOf(q)) <= Cardinality(AttemptsOf(q))'
<1> DEFINE new == Len(attempts) + 1
<1>1. /\ Len(attempts) \in Nat /\ DOMAIN attempts = 1 .. Len(attempts)
      /\ DOMAIN attempts' = 1 .. new
      /\ attempts'[new] = row
      /\ \A a \in DOMAIN attempts : attempts'[a] = attempts[a]
      /\ row.question \in Questions
  BY DEF TypeOK, Attempt
<1>2. ASSUME NEW q \in Questions
      PROVE  /\ Numbers(q)' = 1 .. Cardinality(AttemptsOf(q))'
             /\ Cardinality(AttemptsOf(q))' \in Nat
             /\ Cardinality(AttemptsOf(q)) <= Cardinality(AttemptsOf(q))'
  <2>1. Numbers(q) = 1 .. Cardinality(AttemptsOf(q)) BY DEF NumbersDense
  <2>2. IsFiniteSet(AttemptsOf(q)) /\ Cardinality(AttemptsOf(q)) \in Nat BY AttemptsFinite
  <2>3. CASE q # row.question
    <3>1. AttemptsOf(q)' = AttemptsOf(q) BY <1>1, <2>3 DEF AttemptsOf
    <3>2. \A a \in AttemptsOf(q) : attempts'[a].number = attempts[a].number
      BY <1>1 DEF AttemptsOf
    <3>3. Numbers(q)' = Numbers(q) BY <3>1, <3>2 DEF Numbers
    <3> QED BY <2>1, <2>2, <3>1, <3>3
  <2>4. CASE q = row.question
    <3>1. AttemptsOf(q)' = AttemptsOf(q) \cup {new} BY <1>1, <2>4 DEF AttemptsOf
    <3>2. new \notin AttemptsOf(q) BY <1>1 DEF AttemptsOf
    <3>3. Cardinality(AttemptsOf(q))' = Cardinality(AttemptsOf(q)) + 1
      BY <2>2, <3>1, <3>2, FS_AddElement
    <3>4. \A a \in AttemptsOf(q) : attempts'[a].number = attempts[a].number
      BY <1>1 DEF AttemptsOf
    <3>5. Numbers(q)' = {attempts'[a].number : a \in AttemptsOf(q)} \cup {attempts'[new].number}
      BY <3>1 DEF Numbers
    <3>6. {attempts'[a].number : a \in AttemptsOf(q)} = Numbers(q) BY <3>4 DEF Numbers
    <3>7. Numbers(q)' = Numbers(q) \cup {row.number} BY <1>1, <3>5, <3>6
    <3> QED BY <2>1, <2>2, <2>4, <3>3, <3>7
  <2> QED BY <2>3, <2>4
<1> QED BY <1>2 DEF NumbersDense

LEMMA NextNumber ==
    ASSUME TypeOK, NumbersDense, NEW q \in Questions, NEW n \in Nat, IsNextNumber(q, n)
    PROVE  n = Cardinality(AttemptsOf(q)) + 1
<1>1. Numbers(q) = 1 .. Cardinality(AttemptsOf(q)) BY DEF NumbersDense
<1>2. Cardinality(AttemptsOf(q)) \in Nat BY AttemptsFinite
<1> QED BY <1>1, <1>2 DEF IsNextNumber

-----------------------------------------------------------------------------
\* A run between two answers.

LEMMA RecordedType ==
    ASSUME NEW j \in Job, ItemRevision(j) \in Revisions
    PROVE  /\ Recorded(j) \in Job
           /\ Recorded(j).phase = "next" /\ Recorded(j).attempt = NoAttempt
           /\ Recorded(j).campaign = j.campaign /\ Recorded(j).seen = j.seen
<1> DEFINE v == ItemRevision(j)
           e == [j.errors EXCEPT ![v] = @ + 1]
<1>1. e \in [Revisions -> Nat] BY DEF Job
<1>2. Recorded(j) = [j EXCEPT !.phase = "next", !.done = @ + 1, !.attempt = NoAttempt,
                              !.errors = e]
  BY DEF Recorded, Job
<1> HIDE DEF v, e
<1>3. j.done + 1 \in Nat /\ NoAttempt \in Nat /\ "next" \in Phases
  BY DEF Job, Phases, NoAttempt
<1>4. Recorded(j) \in Job BY <1>1, <1>2, <1>3 DEF Job
<1> QED BY <1>2, <1>4 DEF Job

LEMMA NoJobType == NoJob \in Job
BY DEF NoJob, Job, Phases, CampaignStates, NoAttempt

\* What a step of a run does that neither begins nor ends an answer.
LEMMA JobStep ==
    ASSUME IInv, NEW r \in Runners, NEW j \in Job, job' = [job EXCEPT ![r] = j],
           job[r].phase # "answering", j.phase # "answering", j.attempt = NoAttempt,
           UNCHANGED <<suite, attempts, plan, ask, lost>>,
           status' \in [Campaigns -> CampaignStates], ended' \in [Campaigns -> BOOLEAN],
           abandoned' \subseteq Campaigns, runs' \in Nat, crashes' \in Nat,
           \A c \in Campaigns : status[c] # "none" => status'[c] # "none",
           SaneJob(r)', WillSettle'
    PROVE  IInv'
<1> USE DEF IInv
<1>1. job' \in [Runners -> Job] /\ job'[r] = j /\ \A s \in Runners \ {r} : job'[s] = job[s]
  BY DEF TypeOK
<1>2. TypeOK' BY <1>1 DEF TypeOK, suite
<1>3. \A q : AttemptsOf(q)' = AttemptsOf(q) BY DEF AttemptsOf
<1>4. ASSUME NEW s \in Runners PROVE SaneJob(s)'
  <2>1. CASE s = r BY <2>1
  <2>2. CASE s # r
    <3>1. job'[s] = job[s] /\ SaneJob(s) BY <1>1, <2>2
    <3> QED BY <1>3, <3>1 DEF SaneJob, Total, ItemQuestion
  <2> QED BY <2>1, <2>2
<1>5. \A p \in Askers : SaneAsk(p)' BY DEF SaneAsk
<1>6. \A s \in Runners, a \in DOMAIN attempts : Answering(s, a)' = Answering(s, a)
  BY <1>1 DEF Answering
<1>7. OneOwner' BY <1>6 DEF OneOwner, Retrieving
<1>8. NumbersDense' BY <1>3 DEF NumbersDense, Numbers
<1>9. OpenAttemptsOwned' BY <1>6 DEF OpenAttemptsOwned, Answering
<1> QED BY <1>2, <1>4, <1>5, <1>7, <1>8, <1>9

LEMMA StartPreserves ==
    ASSUME IInv, NEW r \in Runners, NEW c \in Campaigns, Start(r, c)
    PROVE  IInv'
<1>1. PICK s \in UNION {[1 .. n -> Questions] : n \in 0 .. Cardinality(Questions)} :
        job' = [job EXCEPT ![r] = [NoJob EXCEPT
                  !.phase = IF s = <<>> THEN "failing" ELSE "started",
                  !.campaign = c, !.questions = s, !.seen = status[c], !.seenEnded = ended[c]]]
  BY DEF Start
<1> DEFINE j == [NoJob EXCEPT !.phase = IF s = <<>> THEN "failing" ELSE "started",
                   !.campaign = c, !.questions = s, !.seen = status[c], !.seenEnded = ended[c]]
<1>2. s \in Seq(Questions)
  <2>1. PICK n \in 0 .. Cardinality(Questions) : s \in [1 .. n -> Questions] OBVIOUS
  <2>2. n \in Nat BY FS_CardinalityType, FiniteAssumption
  <2> QED BY <2>1, <2>2
<1>3. j \in Job BY <1>2, NoJobType DEF IInv, TypeOK, Job, NoJob, Phases
<1>4. j.phase \in {"failing", "started"} /\ j.attempt = NoAttempt /\ j.campaign = c
  BY DEF NoJob
<1> HIDE DEF j
<1>5. job'[r] = j /\ \A t \in Runners \ {r} : job'[t] = job[t] BY <1>1 DEF j, IInv, TypeOK
<1>6. SaneJob(r)' BY <1>4, <1>5 DEF SaneJob, Start, campaigns
<1>7. \A t \in Runners, d \in Campaigns : Ends(t, d) => Ends(t, d)'
  BY <1>5 DEF Ends, Start
<1>8. WillSettle' BY <1>7 DEF WillSettle, Start, campaigns, IInv
<1>9. job' = [job EXCEPT ![r] = j] /\ job[r].phase # "answering" BY <1>1 DEF j, Start
<1>10. /\ UNCHANGED <<suite, attempts, plan, status, ended, ask, lost, abandoned, crashes>>
       /\ runs' \in Nat /\ crashes' \in Nat /\ abandoned' \subseteq Campaigns
       /\ status' \in [Campaigns -> CampaignStates] /\ ended' \in [Campaigns -> BOOLEAN]
  BY DEF Start, campaigns, IInv, TypeOK
<1> QED BY <1>3, <1>4, <1>6, <1>8, <1>9, <1>10, JobStep

LEMMA BeginPreserves ==
    ASSUME IInv, NEW r \in Runners, Begin(r)
    PROVE  IInv'
<1> DEFINE j == [job[r] EXCEPT !.phase = "next", !.seen = "none"]
           c == job[r].campaign
<1>1. job[r] \in Job /\ c \in Campaigns /\ job[r].phase = "started"
      /\ job[r].attempt = NoAttempt /\ status[c] # "none"
  BY DEF IInv, TypeOK, SaneJob, Begin
<1>2. j \in Job /\ j.phase = "next" /\ j.attempt = NoAttempt /\ j.campaign = c /\ j.seen = "none"
  BY <1>1 DEF Job, Phases, CampaignStates
<1>3. job' = [job EXCEPT ![r] = j] BY DEF Begin, IInv, TypeOK
<1> HIDE DEF j
<1>4. job'[r] = j /\ \A t \in Runners \ {r} : job'[t] = job[t] BY <1>3 DEF IInv, TypeOK
<1>5. /\ status' \in [Campaigns -> CampaignStates] /\ ended' \in [Campaigns -> BOOLEAN]
      /\ \A d \in Campaigns : status'[d] = status[d] \/ (d = c /\ status'[d] = "running")
  BY <1>1 DEF Begin, IInv, TypeOK, CampaignStates
<1>6. SaneJob(r)' BY <1>1, <1>2, <1>4, <1>5 DEF SaneJob
<1>7. WillSettle'
  <2> SUFFICES ASSUME NEW d \in Campaigns, status'[d] = "running"
               PROVE  d \in abandoned' \/ \E t \in Runners : Ends(t, d)'
    BY DEF WillSettle
  <2>1. CASE d = c
    <3>1. Ends(r, d)' BY <1>2, <1>4, <2>1 DEF Ends
    <3> QED BY <3>1
  <2>2. CASE d # c
    <3>1. status[d] = "running" BY <1>5, <2>2
    <3>2. \A t \in Runners : Ends(t, d) => Ends(t, d)' BY <1>1, <1>4, <2>2 DEF Ends
    <3> QED BY <3>1, <3>2 DEF Begin, history, IInv, WillSettle
  <2> QED BY <2>1, <2>2
<1> QED BY <1>1, <1>2, <1>3, <1>5, <1>6, <1>7, JobStep DEF Begin, history, IInv, TypeOK

LEMMA UnpreparedPreserves ==
    ASSUME IInv, NEW r \in Runners, Unprepared(r)
    PROVE  IInv'
<1> DEFINE k == [job[r] EXCEPT !.seen = Seen(r)]
           j == Recorded(k)
           c == job[r].campaign
<1>1. job[r] \in Job /\ c \in Campaigns /\ job[r].phase = "next" /\ status[c] # "none"
  BY DEF IInv, TypeOK, SaneJob, Unprepared
<1>2. Seen(r) \in CampaignStates BY <1>1 DEF Seen, IInv, TypeOK, Job
<1>3. k \in Job /\ k.campaign = c /\ k.seen = Seen(r) BY <1>1, <1>2 DEF Job
<1>4a. ItemRevision(k) \in Revisions
  <2>1. k.done = job[r].done /\ k.questions = job[r].questions BY <1>1 DEF Job
  <2>2. k.done < Total(k) BY <1>3, <2>1 DEF Unprepared, Total
  <2>3. plan[k.campaign] \in Plans \cup {NoPlan} BY <1>1, <1>3 DEF IInv, TypeOK
  <2> QED BY <1>3, <2>2, <2>3, ItemType
<1> HIDE DEF k
<1>4. /\ j \in Job /\ j.phase = "next" /\ j.attempt = NoAttempt
      /\ j.campaign = c /\ j.seen = Seen(r)
  BY <1>3, <1>4a, RecordedType
<1>5. job' = [job EXCEPT ![r] = j] BY DEF Unprepared, k
<1> HIDE DEF j
<1>6. job'[r] = j /\ \A t \in Runners \ {r} : job'[t] = job[t] BY <1>5 DEF IInv, TypeOK
<1>7. SaneJob(r)' BY <1>1, <1>4, <1>6 DEF SaneJob, Unprepared, campaigns
<1>8. \A t \in Runners, d \in Campaigns : status[d] = "running" /\ Ends(t, d) => Ends(t, d)'
  BY <1>1, <1>4, <1>6 DEF Ends, Seen
<1>9. WillSettle' BY <1>8 DEF WillSettle, Unprepared, campaigns, history, IInv
<1> QED BY <1>1, <1>4, <1>5, <1>7, <1>9, JobStep
        DEF Unprepared, campaigns, history, IInv, TypeOK

LEMMA PreparePreserves ==
    ASSUME IInv, NEW r \in Runners, Prepare(r)
    PROVE  IInv'
<1>1. PICK n \in 0 .. MaxAttempts + 1 :
        /\ IsNextNumber(ItemQuestion(job[r]), n)
        /\ job' = [job EXCEPT ![r].phase = "numbered", ![r].number = n, ![r].seen = Seen(r)]
  BY DEF Prepare
<1> DEFINE j == [job[r] EXCEPT !.phase = "numbered", !.number = n, !.seen = Seen(r)]
           c == job[r].campaign
           q == ItemQuestion(job[r])
<1>2. /\ job[r] \in Job /\ c \in Campaigns /\ job[r].phase = "next" /\ status[c] # "none"
      /\ job[r].attempt = NoAttempt /\ job[r].done < Total(job[r])
  BY DEF IInv, TypeOK, SaneJob, Prepare
<1>3. plan[c] \in Plans \cup {NoPlan} BY <1>2 DEF IInv, TypeOK
<1>4. q \in Questions BY <1>2, <1>3, ItemType
<1>5. n \in Nat BY BoundsAssumption
<1>6. n = Cardinality(AttemptsOf(q)) + 1 /\ Cardinality(AttemptsOf(q)) \in Nat
  BY <1>1, <1>4, <1>5, NextNumber, AttemptsFinite DEF IInv
<1>7. Seen(r) \in CampaignStates BY <1>2 DEF Seen, IInv, TypeOK, Job
<1>7a. n \in Nat \ {0} BY <1>6
<1>8. j \in Job BY <1>2, <1>7, <1>7a DEF Job, Phases
<1>9. /\ j.phase = "numbered" /\ j.attempt = NoAttempt /\ j.campaign = c /\ j.seen = Seen(r)
      /\ j.number = n /\ j.done = job[r].done /\ j.questions = job[r].questions
  BY <1>2 DEF Job
<1>10. job' = [job EXCEPT ![r] = j] BY <1>1 DEF IInv, TypeOK
<1> HIDE DEF j
<1>11. job'[r] = j /\ \A t \in Runners \ {r} : job'[t] = job[t] BY <1>10 DEF IInv, TypeOK
<1>12. SaneJob(r)'
  <2>1. Total(job[r])' = Total(job[r]) BY <1>9, <1>11 DEF Total, Prepare, campaigns
  <2>2. AttemptsOf(ItemQuestion(job[r]))' = AttemptsOf(q)
    BY <1>9, <1>11 DEF AttemptsOf, ItemQuestion, Prepare, campaigns
  <2>3. job'[r].number <= Cardinality(AttemptsOf(ItemQuestion(job[r])))' + 1
    BY <1>6, <1>9, <1>11, <2>2
  <2>4. job'[r].done < Total(job[r])' BY <1>2, <1>9, <1>11, <2>1
  <2>5. /\ job'[r].phase = "numbered" /\ job'[r].attempt = NoAttempt
        /\ job'[r].campaign = c /\ status'[c] # "none"
    BY <1>2, <1>9, <1>11 DEF Prepare, campaigns
  <2> QED BY <1>2, <2>3, <2>4, <2>5 DEF SaneJob
<1>13. \A t \in Runners, d \in Campaigns : status[d] = "running" /\ Ends(t, d) => Ends(t, d)'
  BY <1>2, <1>9, <1>11 DEF Ends, Seen
<1>14. WillSettle' BY <1>13 DEF WillSettle, Prepare, campaigns, history, IInv
<1> QED BY <1>2, <1>8, <1>9, <1>10, <1>12, <1>14, JobStep
        DEF Prepare, campaigns, history, IInv, TypeOK

LEMMA RefusePreserves ==
    ASSUME IInv, NEW r \in Runners, RefuseAttempt(r)
    PROVE  IInv'
<1> DEFINE j == [job[r] EXCEPT !.phase = "failing"]
           c == job[r].campaign
<1>1. /\ job[r] \in Job /\ c \in Campaigns /\ job[r].phase = "numbered" /\ status[c] # "none"
      /\ job[r].attempt = NoAttempt
  BY DEF IInv, TypeOK, SaneJob, RefuseAttempt
<1>2. /\ j \in Job /\ j.phase = "failing" /\ j.attempt = NoAttempt
      /\ j.campaign = c /\ j.seen = job[r].seen
  BY <1>1 DEF Job, Phases
<1>3. job' = [job EXCEPT ![r] = j] BY DEF RefuseAttempt, IInv, TypeOK
<1> HIDE DEF j
<1>4. job'[r] = j /\ \A t \in Runners \ {r} : job'[t] = job[t] BY <1>3 DEF IInv, TypeOK
<1>5. SaneJob(r)' BY <1>1, <1>2, <1>4 DEF SaneJob, RefuseAttempt, campaigns
<1>6. \A t \in Runners, d \in Campaigns : Ends(t, d) => Ends(t, d)' BY <1>1, <1>2, <1>4 DEF Ends
<1>7. WillSettle' BY <1>6 DEF WillSettle, RefuseAttempt, campaigns, history, IInv
<1> QED BY <1>1, <1>2, <1>3, <1>5, <1>7, JobStep
        DEF RefuseAttempt, campaigns, history, IInv, TypeOK

LEMMA CompletePreserves ==
    ASSUME IInv, NEW r \in Runners, Complete(r)
    PROVE  IInv'
<1> DEFINE j == [job[r] EXCEPT !.phase = "reported"]
           c == job[r].campaign
<1>1. /\ job[r] \in Job /\ c \in Campaigns /\ job[r].phase = "next" /\ status[c] # "none"
      /\ job[r].attempt = NoAttempt
  BY DEF IInv, TypeOK, SaneJob, Complete
<1>2. j \in Job /\ j.phase = "reported" /\ j.attempt = NoAttempt /\ j.campaign = c
  BY <1>1 DEF Job, Phases
<1>3. job' = [job EXCEPT ![r] = j] BY DEF Complete, IInv, TypeOK
<1> HIDE DEF j
<1>4. job'[r] = j /\ \A t \in Runners \ {r} : job'[t] = job[t] BY <1>3 DEF IInv, TypeOK
<1>5. /\ status' \in [Campaigns -> CampaignStates] /\ ended' \in [Campaigns -> BOOLEAN]
      /\ \A d \in Campaigns \ {c} : status'[d] = status[d]
      /\ status'[c] = IF job[r].seen = "completed" THEN status[c] ELSE "completed"
  BY <1>1 DEF Complete, EndStatus, IInv, TypeOK, CampaignStates
<1>6. SaneJob(r)' BY <1>1, <1>2, <1>4, <1>5 DEF SaneJob
<1>7. ASSUME NEW d \in Campaigns, status'[d] = "running"
      PROVE  d \in abandoned' \/ \E t \in Runners : Ends(t, d)'
  <2>1. status[d] = "running" /\ ~ Ends(r, d) BY <1>5, <1>7 DEF Ends
  <2>2. \A t \in Runners : Ends(t, d) => Ends(t, d)' BY <1>4, <2>1 DEF Ends
  <2> QED BY <2>1, <2>2 DEF IInv, WillSettle, Complete, history
<1>8. WillSettle' BY <1>7 DEF WillSettle
<1> QED BY <1>1, <1>2, <1>3, <1>5, <1>6, <1>8, JobStep DEF Complete, history, IInv, TypeOK

LEMMA FailRunPreserves ==
    ASSUME IInv, NEW r \in Runners, FailRun(r)
    PROVE  IInv'
<1> DEFINE c == job[r].campaign
<1>1. c \in Campaigns /\ job[r].phase = "failing" BY DEF IInv, TypeOK, SaneJob, FailRun
<1>2. job' = [job EXCEPT ![r] = NoJob] /\ job'[r] = NoJob
      /\ \A t \in Runners \ {r} : job'[t] = job[t]
  BY DEF FailRun, IInv, TypeOK
<1>3. NoJob.phase = "idle" /\ NoJob.attempt = NoAttempt BY DEF NoJob
<1>4. /\ status' \in [Campaigns -> CampaignStates] /\ ended' \in [Campaigns -> BOOLEAN]
      /\ \A d \in Campaigns : status'[d] = IF d = c THEN "failed" ELSE status[d]
  BY <1>1 DEF FailRun, IInv, TypeOK, CampaignStates
<1>5. SaneJob(r)' BY <1>2, <1>3 DEF SaneJob
<1>6. ASSUME NEW d \in Campaigns, status'[d] = "running"
      PROVE  d \in abandoned' \/ \E t \in Runners : Ends(t, d)'
  <2>1. status[d] = "running" /\ d # c BY <1>4, <1>6
  <2>2. \A t \in Runners : Ends(t, d) => Ends(t, d)' BY <1>2, <2>1 DEF Ends
  <2> QED BY <2>1, <2>2 DEF IInv, WillSettle, FailRun, history
<1>7. WillSettle' BY <1>6 DEF WillSettle
<1> QED BY <1>1, <1>2, <1>3, <1>4, <1>5, <1>7, NoJobType, JobStep
        DEF FailRun, history, IInv, TypeOK

LEMMA ReturnPreserves ==
    ASSUME IInv, NEW r \in Runners, Return(r)
    PROVE  IInv'
<1>1. job' = [job EXCEPT ![r] = NoJob] /\ job'[r] = NoJob
      /\ \A t \in Runners \ {r} : job'[t] = job[t]
  BY DEF Return, IInv, TypeOK
<1>2. NoJob.phase = "idle" /\ NoJob.attempt = NoAttempt /\ job[r].phase = "reported"
  BY DEF NoJob, Return
<1>3. SaneJob(r)' BY <1>1, <1>2 DEF SaneJob
<1>4. \A t \in Runners, d \in Campaigns : Ends(t, d) => Ends(t, d)' BY <1>1, <1>2 DEF Ends
<1>5. WillSettle' BY <1>4 DEF WillSettle, Return, campaigns, history, IInv
<1> QED BY <1>1, <1>2, <1>3, <1>5, NoJobType, JobStep
        DEF Return, campaigns, history, IInv, TypeOK

-----------------------------------------------------------------------------
\* An answer begins and ends.

LEMMA InsertPreserves ==
    ASSUME IInv, NEW r \in Runners, InsertAttempt(r)
    PROVE  IInv'
<1>0. PICK new : new = Len(attempts) + 1 OBVIOUS
<1> DEFINE q == ItemQuestion(job[r])
           row == [question |-> q, number |-> job[r].number, status |-> "processing",
                   campaign |-> job[r].campaign, revision |-> ItemRevision(job[r]),
                   evidence |-> 0]
           j == [job[r] EXCEPT !.phase = "answering", !.seen = "none", !.attempt = new]
<1>1. /\ job[r] \in Job /\ job[r].campaign \in Campaigns /\ job[r].phase = "numbered"
      /\ status[job[r].campaign] # "none" /\ job[r].done < Total(job[r])
      /\ job[r].number <= Cardinality(AttemptsOf(q)) + 1
  BY DEF IInv, TypeOK, SaneJob, InsertAttempt
<1>2. q \in Questions /\ ItemRevision(job[r]) \in Revisions
  <2>1. plan[job[r].campaign] \in Plans \cup {NoPlan} BY <1>1 DEF IInv, TypeOK
  <2> QED BY <1>1, <2>1, ItemType
<1>3. job[r].number = Cardinality(AttemptsOf(q)) + 1
  <2>1. job[r].number \notin 1 .. Cardinality(AttemptsOf(q))
    BY <1>2 DEF IInv, NumbersDense, InsertAttempt, NumberFree
  <2>2. job[r].number \in Nat \ {0} BY <1>1 DEF Job
  <2>3. Cardinality(AttemptsOf(q)) \in Nat BY <1>2, AttemptsFinite DEF IInv
  <2> QED BY <1>1, <2>1, <2>2, <2>3
<1>4. row \in Attempt /\ row.question = q /\ row.number = job[r].number
  BY <1>1, <1>2, BoundsAssumption DEF Attempt, Job
<1>5. attempts' = Append(attempts, row) BY DEF InsertAttempt
<1>6. new \in Nat \ {0} BY <1>0 DEF IInv, TypeOK
<1>7. /\ j \in Job /\ j.phase = "answering" /\ j.attempt = new
      /\ j.campaign = job[r].campaign /\ j.seen = "none"
      /\ j.done = job[r].done /\ j.questions = job[r].questions
  BY <1>1, <1>6 DEF Job, Phases, CampaignStates
<1>8. job'[r] = j /\ \A s \in Runners \ {r} : job'[s] = job[s]
  BY <1>0 DEF InsertAttempt, IInv, TypeOK
<1>9. row.status = "processing" OBVIOUS
<1>10. NumbersDense' /\ \A x \in Questions :
                           /\ Cardinality(AttemptsOf(x))' \in Nat
                           /\ Cardinality(AttemptsOf(x)) <= Cardinality(AttemptsOf(x))'
  BY <1>3, <1>4, <1>5, NewRow DEF IInv
<1>11. /\ attempts \in Seq(Attempt) /\ attempts' \in Seq(Attempt)
       /\ DOMAIN attempts = 1 .. Len(attempts) /\ DOMAIN attempts' = 1 .. new
       /\ Len(attempts) \in Nat /\ new = Len(attempts) + 1
       /\ attempts'[new] = row /\ \A a \in DOMAIN attempts : attempts'[a] = attempts[a]
  BY <1>0, <1>4, <1>5 DEF IInv, TypeOK
<1>12. job' \in [Runners -> Job] BY <1>0, <1>7, <1>8 DEF InsertAttempt, IInv, TypeOK
<1> HIDE DEF row, j
<1>13. TypeOK' BY <1>11, <1>12 DEF InsertAttempt, suite, campaigns, history, IInv, TypeOK
<1>14. \A s \in Runners : Answering(s, new)' <=> s = r
  BY <1>7, <1>8, <1>6, <1>11 DEF Answering, IInv, SaneJob, NoAttempt
<1>15. \A s \in Runners, a \in DOMAIN attempts : Answering(s, a)' <=> Answering(s, a)
  BY <1>1, <1>7, <1>8, <1>11 DEF Answering
<1>16. \A p \in Askers : \A a : Retrieving(p, a)' <=> Retrieving(p, a)
  BY DEF Retrieving, InsertAttempt
<1>17. \A p \in Askers : ~ Retrieving(p, new)
  BY <1>11 DEF Retrieving, IInv, SaneAsk
<1>18. new \notin lost /\ lost' = lost BY <1>11 DEF IInv, TypeOK, InsertAttempt, history
<1>19. ASSUME NEW s \in Runners PROVE SaneJob(s)'
  <2>1. CASE s = r
    <3>1. Total(job[r])' = Total(job[r]) BY <1>7, <1>8 DEF Total, InsertAttempt, campaigns
    <3>2. job'[r].done < Total(job[r])' BY <1>1, <1>7, <1>8, <3>1
    <3>3. job'[r].attempt \in DOMAIN attempts' BY <1>6, <1>7, <1>8, <1>11
    <3> QED BY <1>1, <1>7, <1>8, <2>1, <3>2, <3>3 DEF SaneJob, InsertAttempt, campaigns
  <2>2. CASE s # r
    <3>1. job'[s] = job[s] /\ SaneJob(s) /\ job[s] \in Job BY <1>8, <2>2 DEF IInv, TypeOK
    <3>2. Total(job[s])' = Total(job[s]) BY <3>1 DEF Total, InsertAttempt, campaigns
    <3>3. ItemQuestion(job[s])' = ItemQuestion(job[s])
      BY <3>1 DEF ItemQuestion, InsertAttempt, campaigns
    <3>4. CASE job[s].phase = "numbered"
      <4>1. job[s].campaign \in Campaigns /\ job[s].done < Total(job[s])
        BY <3>1, <3>4 DEF SaneJob
      <4>2. plan[job[s].campaign] \in Plans \cup {NoPlan} BY <4>1 DEF IInv, TypeOK
      <4>3. PICK x : x = ItemQuestion(job[s]) OBVIOUS
      <4>4. x \in Questions BY <3>1, <4>1, <4>2, <4>3, ItemType
      <4>5. job[s].number <= Cardinality(AttemptsOf(x)) + 1 BY <3>1, <3>4, <4>3 DEF SaneJob
      <4>6. Cardinality(AttemptsOf(x)) \in Nat BY <4>4, AttemptsFinite DEF IInv
      <4>7. job[s].number <= Cardinality(AttemptsOf(x))' + 1
        BY <1>10, <3>1, <4>4, <4>5, <4>6 DEF Job
      <4>8. AttemptsOf(ItemQuestion(job[s]))' = AttemptsOf(x)' BY <3>3, <4>3 DEF AttemptsOf
      <4> QED BY <3>1, <3>2, <3>4, <4>7, <4>8 DEF SaneJob, InsertAttempt, campaigns
    <3>5. CASE job[s].phase # "numbered"
      <4>1. DOMAIN attempts \subseteq DOMAIN attempts' BY <1>11
      <4> QED BY <3>1, <3>2, <3>5, <4>1 DEF SaneJob, InsertAttempt, campaigns
    <3> QED BY <3>4, <3>5
  <2> QED BY <2>1, <2>2
<1>20. \A p \in Askers : SaneAsk(p)' BY <1>11 DEF SaneAsk, InsertAttempt, IInv
<1>21. OneOwner'
  <2> SUFFICES ASSUME NEW a \in DOMAIN attempts'
               PROVE  /\ \A s, t \in Runners : Answering(s, a)' /\ Answering(t, a)' => s = t
                      /\ \A p, o \in Askers : Retrieving(p, a)' /\ Retrieving(o, a)' => p = o
                      /\ \A s \in Runners, p \in Askers : ~ (Answering(s, a)' /\ Retrieving(p, a)')
                      /\ a \in lost' => /\ \A s \in Runners : ~ Answering(s, a)'
                                        /\ \A p \in Askers : ~ Retrieving(p, a)'
    BY DEF OneOwner
  <2>1. CASE a = new BY <1>14, <1>16, <1>17, <1>18, <2>1
  <2>2. CASE a # new
    <3>1. a \in DOMAIN attempts BY <1>11, <2>2
    <3> QED BY <1>15, <1>16, <1>18, <3>1 DEF IInv, OneOwner
  <2> QED BY <2>1, <2>2
<1>22. OpenAttemptsOwned'
  <2> SUFFICES ASSUME NEW a \in DOMAIN attempts'
               PROVE  attempts'[a].status = "processing" <=>
                        \/ \E s \in Runners : Answering(s, a)'
                        \/ \E p \in Askers : Retrieving(p, a)'
                        \/ a \in lost'
    BY DEF OpenAttemptsOwned, Answering, Retrieving
  <2>1. CASE a = new BY <1>9, <1>11, <1>14, <2>1
  <2>2. CASE a # new
    <3>1. a \in DOMAIN attempts /\ attempts'[a] = attempts[a] BY <1>11, <2>2
    <3> QED BY <1>15, <1>16, <1>18, <3>1 DEF IInv, OpenAttemptsOwned, Answering, Retrieving
  <2> QED BY <2>1, <2>2
<1>23. \A s \in Runners, d \in Campaigns : Ends(s, d) => Ends(s, d)'
  BY <1>1, <1>7, <1>8 DEF Ends
<1>24. WillSettle' BY <1>23 DEF WillSettle, InsertAttempt, campaigns, history, IInv
<1> QED BY <1>10, <1>13, <1>19, <1>20, <1>21, <1>22, <1>24 DEF IInv

\* The call that answers an attempt ends it.
LEMMA AnswerEnds ==
    ASSUME IInv, NEW r \in Runners, NEW j \in Job, NEW row \in Attempt,
           job[r].phase = "answering", job' = [job EXCEPT ![r] = j],
           attempts' = [attempts EXCEPT ![job[r].attempt] = row],
           row.question = attempts[job[r].attempt].question,
           row.number = attempts[job[r].attempt].number, row.status # "processing",
           j.phase = "next", j.attempt = NoAttempt,
           j.campaign = job[r].campaign, j.seen = job[r].seen,
           UNCHANGED <<suite, campaigns, ask, history>>
    PROVE  IInv'
<1>0. PICK own : own = job[r].attempt OBVIOUS
<1>1. /\ job[r] \in Job /\ job[r].campaign \in Campaigns /\ own \in DOMAIN attempts
      /\ status[job[r].campaign] # "none"
  BY <1>0 DEF IInv, TypeOK, SaneJob
<1>2. job'[r] = j /\ \A s \in Runners \ {r} : job'[s] = job[s] BY DEF IInv, TypeOK
<1>3. /\ attempts' \in Seq(Attempt) /\ DOMAIN attempts' = DOMAIN attempts
      /\ attempts'[own] = row
      /\ \A a \in DOMAIN attempts \ {own} : attempts'[a] = attempts[a]
      /\ own \in Nat \ {NoAttempt}
  BY <1>0, <1>1 DEF IInv, TypeOK, NoAttempt
<1>4. \A q \in Questions : AttemptsOf(q)' = AttemptsOf(q) /\ Numbers(q)' = Numbers(q)
  <2>1. \A a \in DOMAIN attempts : /\ attempts'[a].question = attempts[a].question
                                   /\ attempts'[a].number = attempts[a].number
    BY <1>0, <1>3
  <2> QED BY <1>3, <2>1, SameRows
<1>5. TypeOK' BY <1>3 DEF IInv, TypeOK, suite, campaigns, history
<1>6. ASSUME NEW s \in Runners PROVE SaneJob(s)'
  <2>1. CASE s = r BY <1>1, <1>2, <2>1 DEF SaneJob, campaigns
  <2>2. CASE s # r
    <3>1. job'[s] = job[s] /\ SaneJob(s) /\ job[s] \in Job BY <1>2, <2>2 DEF IInv, TypeOK
    <3>2. Total(job[s])' = Total(job[s]) BY <3>1 DEF Total, campaigns
    <3>3. AttemptsOf(ItemQuestion(job[s]))' = AttemptsOf(ItemQuestion(job[s]))
      <4>1. ItemQuestion(job[s])' = ItemQuestion(job[s]) BY <3>1 DEF ItemQuestion, campaigns
      <4>2. \A a \in DOMAIN attempts : attempts'[a].question = attempts[a].question
        BY <1>0, <1>3
      <4> QED BY <1>3, <4>1, <4>2 DEF AttemptsOf
    <3> QED BY <1>3, <3>1, <3>2, <3>3 DEF SaneJob, campaigns
  <2> QED BY <2>1, <2>2
<1>7. \A p \in Askers : SaneAsk(p)' BY <1>3 DEF SaneAsk, IInv
<1>8. \A s \in Runners, a \in DOMAIN attempts :
         Answering(s, a)' <=> Answering(s, a) /\ s # r
  BY <1>2 DEF Answering
<1>9. \A p \in Askers : \A a : Retrieving(p, a)' <=> Retrieving(p, a) BY DEF Retrieving
<1>10. lost' = lost BY DEF history
<1>11. OneOwner' BY <1>3, <1>8, <1>9, <1>10 DEF IInv, OneOwner
<1>12. NumbersDense' BY <1>4 DEF IInv, NumbersDense
<1>13. Answering(r, own) BY <1>0 DEF Answering
<1>14. OpenAttemptsOwned'
  <2> SUFFICES ASSUME NEW a \in DOMAIN attempts
               PROVE  attempts'[a].status = "processing" <=>
                        \/ \E s \in Runners : Answering(s, a)'
                        \/ \E p \in Askers : Retrieving(p, a)'
                        \/ a \in lost'
    BY <1>3 DEF OpenAttemptsOwned, Answering, Retrieving
  <2>1. CASE a = own BY <1>3, <1>8, <1>9, <1>10, <1>13, <2>1 DEF IInv, OneOwner
  <2>2. CASE a # own
    <3>1. ~ Answering(r, a) BY <1>0, <2>2 DEF Answering
    <3>2. attempts'[a] = attempts[a] BY <1>3, <2>2
    <3> QED BY <1>8, <1>9, <1>10, <3>1, <3>2
            DEF IInv, OpenAttemptsOwned, Answering, Retrieving
  <2> QED BY <2>1, <2>2
<1>15. \A s \in Runners, d \in Campaigns : Ends(s, d) => Ends(s, d)' BY <1>2 DEF Ends
<1>16. WillSettle' BY <1>15 DEF WillSettle, campaigns, history, IInv
<1> QED BY <1>5, <1>6, <1>7, <1>11, <1>12, <1>14, <1>16 DEF IInv

LEMMA AnswerPreserves ==
    ASSUME IInv, NEW r \in Runners, Answer(r)
    PROVE  IInv'
<1>0. PICK old : old = job[r] OBVIOUS
<1>1. /\ old \in Job /\ old.phase = "answering" /\ old.attempt \in DOMAIN attempts
      /\ old.attempt \in Nat /\ old.done \in Nat /\ old.results \in SUBSET Nat
  BY <1>0 DEF IInv, TypeOK, SaneJob, Answer, Job
<1>2. PICK row0 : row0 = attempts[old.attempt] OBVIOUS
<1>3. row0 \in Attempt BY <1>1, <1>2 DEF IInv, TypeOK
<1>4. PICK row : row = [row0 EXCEPT !.evidence = MaxEvidence, !.status = "completed"] OBVIOUS
<1>5. /\ row \in Attempt /\ row.question = row0.question
      /\ row.number = row0.number /\ row.status # "processing"
  <2>1. MaxEvidence \in 0 .. MaxEvidence BY BoundsAssumption
  <2>2. "completed" \in Ended \cup {"processing"} BY DEF Ended
  <2> QED BY <1>3, <1>4, <2>1, <2>2 DEF Attempt
<1>6. _persist_evidence(row0) = [row0 EXCEPT !.evidence = MaxEvidence]
  BY DEF _persist_evidence
<1>7. row = [_persist_evidence(row0) EXCEPT !.status = "completed"]
  BY <1>3, <1>4, <1>6 DEF Attempt
<1>8. attempts' = [attempts EXCEPT ![job[r].attempt] = row]
  BY <1>0, <1>2, <1>7 DEF Answer
<1>9. PICK j : j = [old EXCEPT !.phase = "next", !.done = @ + 1,
                     !.results = @ \cup {old.attempt}, !.attempt = NoAttempt]
  OBVIOUS
<1>10. /\ j \in Job /\ j.phase = "next" /\ j.attempt = NoAttempt
       /\ j.campaign = old.campaign /\ j.seen = old.seen
  <2>1. old.done + 1 \in Nat /\ old.results \cup {old.attempt} \in SUBSET Nat BY <1>1
  <2>2. "next" \in Phases /\ NoAttempt \in Nat BY DEF Phases, NoAttempt
  <2> QED BY <1>1, <1>9, <2>1, <2>2 DEF Job
<1>11. job' = [job EXCEPT ![r] = j] BY <1>0, <1>9 DEF Answer, IInv, TypeOK
<1> QED BY <1>0, <1>1, <1>2, <1>5, <1>8, <1>10, <1>11, AnswerEnds DEF Answer

LEMMA FailAnswerPreserves ==
    ASSUME IInv, NEW r \in Runners, FailAnswer(r)
    PROVE  IInv'
<1> DEFINE a == job[r].attempt
           row == FailedAttempt(attempts[a])
           j == Recorded(job[r])
<1>1. /\ job[r] \in Job /\ job[r].phase = "answering" /\ a \in DOMAIN attempts
      /\ job[r].campaign \in Campaigns /\ job[r].done < Total(job[r])
  BY DEF IInv, TypeOK, SaneJob, FailAnswer
<1>2. attempts[a] \in Attempt BY <1>1 DEF IInv, TypeOK
<1>3. /\ row \in Attempt /\ row.question = attempts[a].question
      /\ row.number = attempts[a].number /\ row.status # "processing"
  BY <1>2 DEF FailedAttempt, Attempt, Ended
<1>4. ItemRevision(job[r]) \in Revisions
  <2>1. plan[job[r].campaign] \in Plans \cup {NoPlan} BY <1>1 DEF IInv, TypeOK
  <2> QED BY <1>1, <2>1, ItemType
<1>5. /\ j \in Job /\ j.phase = "next" /\ j.attempt = NoAttempt
      /\ j.campaign = job[r].campaign /\ j.seen = job[r].seen
  BY <1>1, <1>4, RecordedType
<1>6. attempts' = [attempts EXCEPT ![a] = row] BY DEF FailAnswer
<1>7. job' = [job EXCEPT ![r] = j] BY DEF FailAnswer
<1> HIDE DEF row, j
<1> QED BY <1>1, <1>3, <1>5, <1>6, <1>7, AnswerEnds DEF FailAnswer

-----------------------------------------------------------------------------
\* The suite and the plan of a campaign.

LEMMA SuiteStep ==
    ASSUME IInv, position' \in [Questions -> Nat], question' \in [Questions -> QuestionStates],
           UNCHANGED <<attempts, campaigns, job, ask, history>>
    PROVE  IInv'
<1> USE DEF campaigns, history
<1>1. TypeOK' BY DEF IInv, TypeOK
<1>2. \A q : AttemptsOf(q)' = AttemptsOf(q) BY DEF AttemptsOf
<1>3. \A r \in Runners : SaneJob(r)' BY <1>2 DEF IInv, SaneJob, Total, ItemQuestion
<1>4. \A p \in Askers : SaneAsk(p)' BY DEF IInv, SaneAsk
<1>5. OneOwner' BY DEF IInv, OneOwner, Answering, Retrieving
<1>6. NumbersDense' BY <1>2 DEF IInv, NumbersDense, Numbers
<1>7. OpenAttemptsOwned' BY DEF IInv, OpenAttemptsOwned
<1>8. WillSettle' BY DEF IInv, WillSettle, Ends
<1> QED BY <1>1, <1>3, <1>4, <1>5, <1>6, <1>7, <1>8 DEF IInv

LEMMA SuitePreserves ==
    ASSUME IInv, NEW q \in Questions,
           \/ CreateQuestion(q) \/ remove_question(q)
           \/ \E n \in 1 .. MaxPosition : add_question(q, n)
    PROVE  IInv'
<1>1. position \in [Questions -> Nat] /\ question \in [Questions -> QuestionStates]
  BY DEF IInv, TypeOK
<1>2. CASE CreateQuestion(q)
  <2>1. question' \in [Questions -> QuestionStates]
    BY <1>1, <1>2 DEF CreateQuestion, QuestionStates
  <2> QED BY <1>1, <1>2, <2>1, SuiteStep DEF CreateQuestion
<1>3. CASE remove_question(q)
  <2>1. position' \in [Questions -> Nat] BY <1>1, <1>3 DEF remove_question
  <2> QED BY <1>1, <1>3, <2>1, SuiteStep DEF remove_question
<1>4. ASSUME NEW n \in 1 .. MaxPosition, add_question(q, n) PROVE IInv'
  <2>1. position' \in [Questions -> Nat] BY <1>1, <1>4, BoundsAssumption DEF add_question
  <2> QED BY <1>1, <1>4, <2>1, SuiteStep DEF add_question
<1> QED BY <1>2, <1>3, <1>4

\* No run has read the plan of a campaign that is not created yet.
LEMMA CreatePreserves ==
    ASSUME IInv, NEW c \in Campaigns, NEW p \in Plans, create(c, p)
    PROVE  IInv'
<1> USE DEF history, suite
<1>1. /\ plan' \in [Campaigns -> Plans \cup {NoPlan}] /\ status' \in [Campaigns -> CampaignStates]
      /\ \A d \in Campaigns \ {c} : plan'[d] = plan[d]
      /\ \A d \in Campaigns : status'[d] = IF d = c THEN "pending" ELSE status[d]
      /\ UNCHANGED <<position, question, attempts, ended, job, ask, lost, abandoned, runs, crashes>>
      /\ status[c] = "none"
  BY DEF create, IInv, TypeOK, CampaignStates
<1>2. TypeOK' BY <1>1 DEF IInv, TypeOK
<1>3. \A q : AttemptsOf(q)' = AttemptsOf(q) BY <1>1 DEF AttemptsOf
<1>4. ASSUME NEW r \in Runners PROVE SaneJob(r)'
  <2>1. SaneJob(r) BY DEF IInv
  <2>2. CASE job[r].phase = "idle" BY <1>1, <2>1, <2>2 DEF SaneJob
  <2>3. CASE job[r].phase # "idle"
    <3>1. job[r].campaign \in Campaigns \ {c} BY <1>1, <2>1, <2>3 DEF SaneJob
    <3> QED BY <1>1, <1>3, <2>1, <3>1 DEF SaneJob, Total, ItemQuestion
  <2> QED BY <2>2, <2>3
<1>5. \A o \in Askers : SaneAsk(o)' BY <1>1 DEF IInv, SaneAsk
<1>6. OneOwner' BY <1>1 DEF IInv, OneOwner, Answering, Retrieving
<1>7. NumbersDense' BY <1>1, <1>3 DEF IInv, NumbersDense, Numbers
<1>8. OpenAttemptsOwned' BY <1>1 DEF IInv, OpenAttemptsOwned
<1>9. WillSettle' BY <1>1 DEF IInv, WillSettle, Ends
<1> QED BY <1>2, <1>4, <1>5, <1>6, <1>7, <1>8, <1>9 DEF IInv

-----------------------------------------------------------------------------
\* A process dies.

LEMMA CrashRunPreserves ==
    ASSUME IInv, NEW r \in Runners, CrashRun(r)
    PROVE  IInv'
<1> USE DEF suite, campaigns
<1>1. /\ job[r] \in Job /\ job[r].campaign \in Campaigns
      /\ job[r].attempt \in DOMAIN attempts \cup {NoAttempt}
      /\ job[r].phase # "answering" => job[r].attempt = NoAttempt
      /\ DOMAIN attempts = 1 .. Len(attempts) /\ NoAttempt \notin DOMAIN attempts
  BY DEF IInv, TypeOK, SaneJob, CrashRun, NoAttempt
<1>2. /\ job'[r] = NoJob /\ \A s \in Runners \ {r} : job'[s] = job[s]
      /\ job' \in [Runners -> Job] /\ NoJob.phase = "idle" /\ NoJob.attempt = NoAttempt
  BY NoJobType DEF IInv, TypeOK, CrashRun, NoJob
<1>3. /\ lost' = lost \cup ({job[r].attempt} \ {NoAttempt})
      /\ abandoned' = abandoned \cup {job[r].campaign}
      /\ UNCHANGED <<position, question, attempts, plan, status, ended, ask, runs>>
  BY DEF CrashRun
<1>4. TypeOK' BY <1>1, <1>2, <1>3 DEF IInv, TypeOK, CrashRun
<1>5. \A q : AttemptsOf(q)' = AttemptsOf(q) BY <1>3 DEF AttemptsOf
<1>6. ASSUME NEW s \in Runners PROVE SaneJob(s)'
  <2>1. CASE s = r BY <1>2, <2>1 DEF SaneJob
  <2>2. CASE s # r
    <3>1. job'[s] = job[s] /\ SaneJob(s) BY <1>2, <2>2 DEF IInv
    <3> QED BY <1>3, <1>5, <3>1 DEF SaneJob, Total, ItemQuestion
  <2> QED BY <2>1, <2>2
<1>7. \A p \in Askers : SaneAsk(p)' BY <1>3 DEF IInv, SaneAsk
<1>8. \A s \in Runners : \A a : Answering(s, a)' <=> Answering(s, a) /\ s # r
  BY <1>2 DEF Answering
<1>9. \A p \in Askers : \A a : Retrieving(p, a)' <=> Retrieving(p, a)
  BY <1>3 DEF Retrieving
<1>10. \A a \in DOMAIN attempts : a \in lost' <=> a \in lost \/ Answering(r, a)
  <2> SUFFICES ASSUME NEW a \in DOMAIN attempts
               PROVE  a \in lost' <=> a \in lost \/ Answering(r, a)
    OBVIOUS
  <2>1. a # NoAttempt BY <1>1
  <2>2. a \in lost' <=> a \in lost \/ a = job[r].attempt BY <1>3, <2>1
  <2>3. a = job[r].attempt <=> Answering(r, a) BY <1>1, <2>1 DEF Answering
  <2> QED BY <2>2, <2>3
<1>11. OneOwner' BY <1>3, <1>8, <1>9, <1>10 DEF IInv, OneOwner
<1>12. NumbersDense' BY <1>3, <1>5 DEF IInv, NumbersDense, Numbers
<1>13. OpenAttemptsOwned'
  <2> SUFFICES ASSUME NEW a \in DOMAIN attempts
               PROVE  attempts[a].status = "processing" <=>
                        \/ \E s \in Runners : Answering(s, a)'
                        \/ \E o \in Askers : Retrieving(o, a)'
                        \/ a \in lost'
    BY <1>3 DEF OpenAttemptsOwned, Answering, Retrieving
  <2>1. attempts[a].status = "processing" <=>
          \/ \E s \in Runners : Answering(s, a)
          \/ \E o \in Askers : Retrieving(o, a)
          \/ a \in lost
    BY DEF IInv, OpenAttemptsOwned, Answering, Retrieving
  <2> QED BY <1>8, <1>9, <1>10, <2>1
<1>14. ASSUME NEW d \in Campaigns, status'[d] = "running"
       PROVE  d \in abandoned' \/ \E t \in Runners : Ends(t, d)'
  <2>1. \A t \in Runners : t # r /\ Ends(t, d) => Ends(t, d)' BY <1>2 DEF Ends
  <2>2. Ends(r, d) => d \in abandoned' BY <1>3 DEF Ends
  <2> QED BY <1>3, <1>14, <2>1, <2>2 DEF IInv, WillSettle
<1>15. WillSettle' BY <1>14 DEF WillSettle
<1> QED BY <1>4, <1>6, <1>7, <1>11, <1>12, <1>13, <1>15 DEF IInv

LEMMA IdleType == Idle \in AskJob /\ Idle.phase = "idle" /\ Idle.attempt = NoAttempt
BY DEF Idle, AskJob, NoAttempt

LEMMA CrashAskPreserves ==
    ASSUME IInv, NEW p \in Askers, CrashAsk(p)
    PROVE  IInv'
<1> USE DEF suite, campaigns
<1>1. /\ ask[p] \in AskJob
      /\ ask[p].attempt \in DOMAIN attempts \cup {NoAttempt}
      /\ ask[p].phase # "retrieving" => ask[p].attempt = NoAttempt
      /\ DOMAIN attempts = 1 .. Len(attempts) /\ NoAttempt \notin DOMAIN attempts
  BY DEF IInv, TypeOK, SaneAsk, CrashAsk, NoAttempt
<1>2. /\ ask'[p] = Idle /\ \A o \in Askers \ {p} : ask'[o] = ask[o]
      /\ ask' \in [Askers -> AskJob]
  BY IdleType DEF IInv, TypeOK, CrashAsk
<1>3. /\ lost' = lost \cup ({ask[p].attempt} \ {NoAttempt})
      /\ UNCHANGED <<position, question, attempts, plan, status, ended, job, abandoned, runs>>
  BY DEF CrashAsk
<1>4. TypeOK' BY <1>1, <1>2, <1>3 DEF IInv, TypeOK, CrashAsk
<1>5. \A q : AttemptsOf(q)' = AttemptsOf(q) BY <1>3 DEF AttemptsOf
<1>6. \A r \in Runners : SaneJob(r)' BY <1>3, <1>5 DEF IInv, SaneJob, Total, ItemQuestion
<1>7. \A o \in Askers : SaneAsk(o)' BY <1>2, <1>3, IdleType DEF IInv, SaneAsk
<1>8. \A r \in Runners : \A a : Answering(r, a)' <=> Answering(r, a) BY <1>3 DEF Answering
<1>9. \A o \in Askers : \A a : Retrieving(o, a)' <=> Retrieving(o, a) /\ o # p
  BY <1>2, IdleType DEF Retrieving
<1>10. \A a \in DOMAIN attempts : a \in lost' <=> a \in lost \/ Retrieving(p, a)
  <2> SUFFICES ASSUME NEW a \in DOMAIN attempts
               PROVE  a \in lost' <=> a \in lost \/ Retrieving(p, a)
    OBVIOUS
  <2>1. a # NoAttempt BY <1>1
  <2>2. a \in lost' <=> a \in lost \/ a = ask[p].attempt BY <1>3, <2>1
  <2>3. a = ask[p].attempt <=> Retrieving(p, a) BY <1>1, <2>1 DEF Retrieving
  <2> QED BY <2>2, <2>3
<1>11. OneOwner' BY <1>3, <1>8, <1>9, <1>10 DEF IInv, OneOwner
<1>12. NumbersDense' BY <1>3, <1>5 DEF IInv, NumbersDense, Numbers
<1>13. OpenAttemptsOwned'
  <2> SUFFICES ASSUME NEW a \in DOMAIN attempts
               PROVE  attempts[a].status = "processing" <=>
                        \/ \E s \in Runners : Answering(s, a)'
                        \/ \E o \in Askers : Retrieving(o, a)'
                        \/ a \in lost'
    BY <1>3 DEF OpenAttemptsOwned, Answering, Retrieving
  <2>1. attempts[a].status = "processing" <=>
          \/ \E s \in Runners : Answering(s, a)
          \/ \E o \in Askers : Retrieving(o, a)
          \/ a \in lost
    BY DEF IInv, OpenAttemptsOwned, Answering, Retrieving
  <2> QED BY <1>8, <1>9, <1>10, <2>1
<1>14. WillSettle' BY <1>3 DEF IInv, WillSettle, Ends
<1> QED BY <1>4, <1>6, <1>7, <1>11, <1>12, <1>13, <1>14 DEF IInv

-----------------------------------------------------------------------------
\* A question by vector retrieval.

\* A step of it that leaves the attempts alone.
LEMMA AskStep ==
    ASSUME IInv, NEW p \in Askers, NEW a \in AskJob, ask' = [ask EXCEPT ![p] = a],
           ask[p].phase = "idle", a.phase = "asked", a.attempt = NoAttempt,
           a.question \in Questions,
           question' \in [Questions -> QuestionStates],
           UNCHANGED <<position, attempts, campaigns, job, history>>
    PROVE  IInv'
<1> USE DEF campaigns, history
<1>1. /\ ask'[p] = a /\ \A o \in Askers \ {p} : ask'[o] = ask[o]
      /\ ask' \in [Askers -> AskJob]
  BY DEF IInv, TypeOK
<1>2. TypeOK' BY <1>1 DEF IInv, TypeOK
<1>3. \A q : AttemptsOf(q)' = AttemptsOf(q) BY DEF AttemptsOf
<1>4. \A r \in Runners : SaneJob(r)' BY <1>3 DEF IInv, SaneJob, Total, ItemQuestion
<1>5. \A o \in Askers : SaneAsk(o)' BY <1>1 DEF IInv, SaneAsk
<1>6. \A o \in Askers : \A x : Retrieving(o, x)' <=> Retrieving(o, x) BY <1>1 DEF Retrieving
<1>7. \A r \in Runners : \A x : Answering(r, x)' <=> Answering(r, x) BY DEF Answering
<1>8. OneOwner' BY <1>6, <1>7 DEF IInv, OneOwner
<1>9. NumbersDense' BY <1>3 DEF IInv, NumbersDense, Numbers
<1>10. OpenAttemptsOwned'
  <2> SUFFICES ASSUME NEW x \in DOMAIN attempts
               PROVE  attempts[x].status = "processing" <=>
                        \/ \E s \in Runners : Answering(s, x)'
                        \/ \E o \in Askers : Retrieving(o, x)'
                        \/ x \in lost
    BY DEF OpenAttemptsOwned, Answering, Retrieving
  <2> QED BY <1>6, <1>7 DEF IInv, OpenAttemptsOwned, Answering, Retrieving
<1>11. WillSettle' BY DEF IInv, WillSettle, Ends
<1> QED BY <1>2, <1>4, <1>5, <1>8, <1>9, <1>10, <1>11 DEF IInv

LEMMA AskPreserves ==
    ASSUME IInv, NEW p \in Askers, NEW q \in Questions, Ask(p, q)
    PROVE  IInv'
<1>1. PICK a : a = [Idle EXCEPT !.phase = "asked", !.question = q] OBVIOUS
<1>2. a \in AskJob /\ a.phase = "asked" /\ a.attempt = NoAttempt /\ a.question = q
  BY <1>1 DEF Idle, AskJob, NoAttempt
<1>3. ask' = [ask EXCEPT ![p] = a] BY <1>1 DEF Ask
<1>4. question' \in [Questions -> QuestionStates]
  BY DEF Ask, IInv, TypeOK, QuestionStates
<1> QED BY <1>2, <1>3, <1>4, AskStep DEF Ask

\* A row of an attempt that its question is retrieving is updated; when the
\* call ends, so does the attempt.
LEMMA RetrievalStep ==
    ASSUME IInv, NEW p \in Askers, NEW a \in AskJob, NEW row \in Attempt,
           ask[p].phase = "retrieving", ask' = [ask EXCEPT ![p] = a],
           attempts' = [attempts EXCEPT ![ask[p].attempt] = row],
           row.question = attempts[ask[p].attempt].question,
           row.number = attempts[ask[p].attempt].number,
           \/ a = ask[p] /\ row.status = attempts[ask[p].attempt].status
           \/ a = Idle /\ row.status # "processing",
           question' \in [Questions -> QuestionStates],
           UNCHANGED <<position, campaigns, job, history>>
    PROVE  IInv'
<1> USE DEF campaigns, history
<1>0. PICK own : own = ask[p].attempt OBVIOUS
<1>1. ask[p] \in AskJob /\ own \in DOMAIN attempts BY <1>0 DEF IInv, TypeOK, SaneAsk
<1>2. /\ ask'[p] = a /\ \A o \in Askers \ {p} : ask'[o] = ask[o]
      /\ ask' \in [Askers -> AskJob]
  BY DEF IInv, TypeOK
<1>3. /\ attempts' \in Seq(Attempt) /\ DOMAIN attempts' = DOMAIN attempts
      /\ attempts'[own] = row
      /\ \A x \in DOMAIN attempts \ {own} : attempts'[x] = attempts[x]
      /\ own \in Nat \ {NoAttempt}
  BY <1>0, <1>1 DEF IInv, TypeOK, NoAttempt
<1>4. \A x \in DOMAIN attempts : /\ attempts'[x].question = attempts[x].question
                                 /\ attempts'[x].number = attempts[x].number
  BY <1>0, <1>3
<1>5. TypeOK' BY <1>2, <1>3 DEF IInv, TypeOK
<1>6. \A q : AttemptsOf(q)' = AttemptsOf(q) BY <1>3, <1>4 DEF AttemptsOf
<1>7. \A r \in Runners : SaneJob(r)' BY <1>3, <1>6 DEF IInv, SaneJob, Total, ItemQuestion
<1>8. \A o \in Askers : SaneAsk(o)' BY <1>2, <1>3, IdleType DEF IInv, SaneAsk
<1>9. \A r \in Runners : \A x : Answering(r, x)' <=> Answering(r, x) BY DEF Answering
<1>10. \A o \in Askers : \A x : Retrieving(o, x)' => Retrieving(o, x)
  BY <1>2, IdleType DEF Retrieving
<1>11. \A o \in Askers : \A x : x # own => (Retrieving(o, x)' <=> Retrieving(o, x))
  BY <1>0, <1>2, IdleType DEF Retrieving
<1>12. OneOwner' BY <1>3, <1>9, <1>10 DEF IInv, OneOwner
<1>13. NumbersDense'
  <2>1. \A q \in Questions : AttemptsOf(q)' = AttemptsOf(q) /\ Numbers(q)' = Numbers(q)
    BY <1>3, <1>4, SameRows
  <2> QED BY <2>1 DEF IInv, NumbersDense
<1>14. Retrieving(p, own) BY <1>0 DEF Retrieving
<1>15. OpenAttemptsOwned'
  <2> SUFFICES ASSUME NEW x \in DOMAIN attempts
               PROVE  attempts'[x].status = "processing" <=>
                        \/ \E s \in Runners : Answering(s, x)'
                        \/ \E o \in Askers : Retrieving(o, x)'
                        \/ x \in lost
    BY <1>3 DEF OpenAttemptsOwned, Answering, Retrieving
  <2>1. attempts[x].status = "processing" <=>
          \/ \E s \in Runners : Answering(s, x)
          \/ \E o \in Askers : Retrieving(o, x)
          \/ x \in lost
    BY DEF IInv, OpenAttemptsOwned, Answering, Retrieving
  <2>2. CASE x = own
    <3>1. attempts[own].status = "processing" BY <1>14, <2>1, <2>2
    <3>2. CASE a = ask[p] /\ row.status = attempts[ask[p].attempt].status
      <4>1. Retrieving(p, own)' BY <1>0, <1>2, <3>2 DEF Retrieving
      <4> QED BY <1>0, <1>3, <2>2, <3>1, <3>2, <4>1
    <3>3. CASE a = Idle /\ row.status # "processing"
      <4>1. ~ Retrieving(p, own)' BY <1>2, <3>3, IdleType DEF Retrieving
      <4> QED BY <1>3, <1>9, <1>10, <1>14, <2>2, <3>3, <4>1 DEF IInv, OneOwner
    <3> QED BY <3>2, <3>3
  <2>3. CASE x # own BY <1>3, <1>9, <1>11, <2>1, <2>3
  <2> QED BY <2>2, <2>3
<1>16. WillSettle' BY DEF IInv, WillSettle, Ends
<1> QED BY <1>5, <1>7, <1>8, <1>12, <1>13, <1>15, <1>16 DEF IInv

LEMMA AddEvidencePreserves ==
    ASSUME IInv, NEW p \in Askers, add_evidence(p)
    PROVE  IInv'
<1>1. /\ ask[p] \in AskJob /\ ask[p].phase = "retrieving"
      /\ ask[p].attempt \in DOMAIN attempts /\ ask' = ask
      /\ question \in [Questions -> QuestionStates]
  BY DEF IInv, TypeOK, SaneAsk, add_evidence
<1>2. PICK row0 : row0 = attempts[ask[p].attempt] OBVIOUS
<1>3. row0 \in Attempt /\ row0.evidence < MaxEvidence
  BY <1>1, <1>2 DEF IInv, TypeOK, add_evidence
<1>4. PICK row : row = [row0 EXCEPT !.evidence = @ + 1] OBVIOUS
<1>5. /\ row \in Attempt /\ row.question = row0.question
      /\ row.number = row0.number /\ row.status = row0.status
  <2>1. row0.evidence + 1 \in 0 .. MaxEvidence BY <1>3, BoundsAssumption DEF Attempt
  <2> QED BY <1>3, <1>4, <2>1 DEF Attempt
<1>6. attempts' = [attempts EXCEPT ![ask[p].attempt] = row]
  BY <1>2, <1>4 DEF add_evidence
<1>7. ask' = [ask EXCEPT ![p] = ask[p]] BY <1>1 DEF IInv, TypeOK
<1>8. /\ question' \in [Questions -> QuestionStates]
      /\ UNCHANGED <<position, campaigns, job, history>>
  BY <1>1 DEF add_evidence, suite
<1>9. /\ row.question = attempts[ask[p].attempt].question
      /\ row.number = attempts[ask[p].attempt].number
      /\ \/ ask[p] = ask[p] /\ row.status = attempts[ask[p].attempt].status
         \/ ask[p] = Idle /\ row.status # "processing"
  BY <1>2, <1>5
<1> QED BY ONLY IInv, p \in Askers, <1>1, <1>5, <1>6, <1>7, <1>8, <1>9, RetrievalStep

LEMMA CompleteAttemptPreserves ==
    ASSUME IInv, NEW p \in Askers, NEW s \in {"resolved", "unresolved"}, complete_attempt(p, s)
    PROVE  IInv'
<1>1. /\ ask[p] \in AskJob /\ ask[p].phase = "retrieving"
      /\ ask[p].attempt \in DOMAIN attempts /\ ask' = [ask EXCEPT ![p] = Idle]
  BY DEF IInv, TypeOK, SaneAsk, complete_attempt
<1>2. PICK row0 : row0 = attempts[ask[p].attempt] OBVIOUS
<1>3. row0 \in Attempt BY <1>1, <1>2 DEF IInv, TypeOK
<1>4. PICK row : row = [row0 EXCEPT !.status = s] OBVIOUS
<1>5. /\ row \in Attempt /\ row.question = row0.question
      /\ row.number = row0.number /\ row.status # "processing"
  BY <1>3, <1>4 DEF Attempt, Ended
<1>6. attempts' = [attempts EXCEPT ![ask[p].attempt] = row]
  BY <1>2, <1>4 DEF complete_attempt
<1>7. question' \in [Questions -> QuestionStates]
  BY DEF complete_attempt, IInv, TypeOK, QuestionStates
<1>8. /\ row.question = attempts[ask[p].attempt].question
      /\ row.number = attempts[ask[p].attempt].number
      /\ \/ Idle = ask[p] /\ row.status = attempts[ask[p].attempt].status
         \/ Idle = Idle /\ row.status # "processing"
  BY <1>2, <1>5
<1>9. UNCHANGED <<position, campaigns, job, history>> BY DEF complete_attempt
<1> QED BY ONLY IInv, p \in Askers, IdleType, <1>1, <1>5, <1>6, <1>7, <1>8, <1>9, RetrievalStep

LEMMA CreateAttemptPreserves ==
    ASSUME IInv, NEW p \in Askers, create_attempt(p)
    PROVE  IInv'
<1> USE DEF campaigns, history
<1>0. PICK new : new = Len(attempts) + 1 OBVIOUS
<1>1. PICK q : q = ask[p].question OBVIOUS
<1>2. q \in Questions /\ ask[p] \in AskJob /\ ask[p].phase = "asked"
  BY <1>1 DEF IInv, TypeOK, SaneAsk, create_attempt
<1>3. IsFiniteSet(AttemptsOf(q)) /\ Cardinality(AttemptsOf(q)) \in Nat
  BY <1>2, AttemptsFinite DEF IInv
<1>4. PICK row : row = [question |-> q, number |-> Cardinality(AttemptsOf(q)) + 1,
                        status |-> "processing", campaign |-> NoCampaign,
                        revision |-> NoRevision, evidence |-> 0]
  OBVIOUS
<1>5. /\ row \in Attempt /\ row.status = "processing"
      /\ row.question = q /\ row.number = Cardinality(AttemptsOf(q)) + 1
  BY <1>2, <1>3, <1>4, BoundsAssumption DEF Attempt
<1>6. attempts' = Append(attempts, row) BY <1>1, <1>4 DEF create_attempt
<1>7. NumbersDense' /\ \A x \in Questions :
                          /\ Cardinality(AttemptsOf(x))' \in Nat
                          /\ Cardinality(AttemptsOf(x)) <= Cardinality(AttemptsOf(x))'
  BY <1>5, <1>6, NewRow DEF IInv
<1>8. /\ attempts' \in Seq(Attempt) /\ Len(attempts) \in Nat
      /\ new = Len(attempts) + 1 /\ new \in Nat \ {NoAttempt}
      /\ DOMAIN attempts = 1 .. Len(attempts) /\ DOMAIN attempts' = 1 .. new
      /\ attempts'[new] = row /\ \A x \in DOMAIN attempts : attempts'[x] = attempts[x]
  BY <1>0, <1>5, <1>6 DEF IInv, TypeOK, NoAttempt
<1>9. PICK a : a = [ask[p] EXCEPT !.phase = "retrieving", !.attempt = new] OBVIOUS
<1>10. a \in AskJob /\ a.phase = "retrieving" /\ a.attempt = new /\ a.question = q
  BY <1>1, <1>2, <1>8, <1>9 DEF AskJob
<1>11. ask' = [ask EXCEPT ![p] = a] BY <1>0, <1>9 DEF create_attempt, IInv, TypeOK
<1>12. /\ ask'[p] = a /\ \A o \in Askers \ {p} : ask'[o] = ask[o]
       /\ ask' \in [Askers -> AskJob]
  BY <1>10, <1>11 DEF IInv, TypeOK
<1>13. /\ question' \in [Questions -> QuestionStates]
       /\ UNCHANGED <<position, plan, status, ended, job, lost, abandoned, runs, crashes>>
  BY DEF create_attempt, IInv, TypeOK, QuestionStates
<1>14. TypeOK' BY <1>8, <1>12, <1>13 DEF IInv, TypeOK
<1>15. ASSUME NEW r \in Runners PROVE SaneJob(r)'
  <2>1. job'[r] = job[r] /\ SaneJob(r) /\ job[r] \in Job BY <1>13 DEF IInv, TypeOK
  <2>2. Total(job[r])' = Total(job[r]) BY <1>13 DEF Total
  <2>3. ItemQuestion(job[r])' = ItemQuestion(job[r]) BY <1>13 DEF ItemQuestion
  <2>4. CASE job[r].phase = "numbered"
    <3>1. job[r].campaign \in Campaigns /\ job[r].done < Total(job[r])
      BY <2>1, <2>4 DEF SaneJob
    <3>2. plan[job[r].campaign] \in Plans \cup {NoPlan} BY <3>1 DEF IInv, TypeOK
    <3>3. PICK x : x = ItemQuestion(job[r]) OBVIOUS
    <3>4. x \in Questions BY <2>1, <3>1, <3>2, <3>3, ItemType
    <3>5. job[r].number <= Cardinality(AttemptsOf(x)) + 1 BY <2>1, <2>4, <3>3 DEF SaneJob
    <3>6. Cardinality(AttemptsOf(x)) \in Nat BY <3>4, AttemptsFinite DEF IInv
    <3>7. job[r].number <= Cardinality(AttemptsOf(x))' + 1
      BY <1>7, <2>1, <3>4, <3>5, <3>6 DEF Job
    <3>8. AttemptsOf(ItemQuestion(job[r]))' = AttemptsOf(x)' BY <2>3, <3>3 DEF AttemptsOf
    <3> QED BY <1>13, <2>1, <2>2, <2>4, <3>7, <3>8 DEF SaneJob
  <2>5. CASE job[r].phase # "numbered"
    <3>1. DOMAIN attempts \subseteq DOMAIN attempts' BY <1>8
    <3> QED BY <1>13, <2>1, <2>2, <2>5, <3>1 DEF SaneJob
  <2> QED BY <2>4, <2>5
<1>16. ASSUME NEW o \in Askers PROVE SaneAsk(o)'
  <2>1. new \in DOMAIN attempts' /\ DOMAIN attempts \subseteq DOMAIN attempts' BY <1>8
  <2>2. CASE o = p BY <1>2, <1>10, <1>12, <2>1, <2>2 DEF SaneAsk
  <2>3. CASE o # p
    <3>1. ask'[o] = ask[o] /\ SaneAsk(o) BY <1>12, <2>3 DEF IInv
    <3> QED BY <2>1, <3>1 DEF SaneAsk
  <2> QED BY <2>2, <2>3
<1>17. new \notin DOMAIN attempts BY <1>0, <1>8
<1>18. \A r \in Runners : ~ Answering(r, new)
  BY <1>17 DEF Answering, IInv, SaneJob
<1>19. \A r \in Runners : \A x : Answering(r, x)' <=> Answering(r, x) BY <1>13 DEF Answering
<1>20. \A o \in Askers : Retrieving(o, new)' <=> o = p
  BY <1>10, <1>12, <1>17 DEF Retrieving, IInv, SaneAsk
<1>21. \A o \in Askers, x \in DOMAIN attempts : Retrieving(o, x)' <=> Retrieving(o, x)
  BY <1>2, <1>10, <1>12, <1>17 DEF Retrieving
<1>22. new \notin lost /\ lost' = lost BY <1>13, <1>17 DEF IInv, TypeOK
<1>23. OneOwner'
  <2> SUFFICES ASSUME NEW x \in DOMAIN attempts'
               PROVE  /\ \A s, t \in Runners : Answering(s, x)' /\ Answering(t, x)' => s = t
                      /\ \A u, o \in Askers : Retrieving(u, x)' /\ Retrieving(o, x)' => u = o
                      /\ \A s \in Runners, o \in Askers : ~ (Answering(s, x)' /\ Retrieving(o, x)')
                      /\ x \in lost' => /\ \A s \in Runners : ~ Answering(s, x)'
                                        /\ \A o \in Askers : ~ Retrieving(o, x)'
    BY DEF OneOwner
  <2>1. CASE x = new BY <1>18, <1>19, <1>20, <1>22, <2>1
  <2>2. CASE x # new
    <3>1. x \in DOMAIN attempts BY <1>0, <1>8, <2>2
    <3> QED BY <1>19, <1>21, <1>22, <3>1 DEF IInv, OneOwner
  <2> QED BY <2>1, <2>2
<1>24. OpenAttemptsOwned'
  <2> SUFFICES ASSUME NEW x \in DOMAIN attempts'
               PROVE  attempts'[x].status = "processing" <=>
                        \/ \E s \in Runners : Answering(s, x)'
                        \/ \E o \in Askers : Retrieving(o, x)'
                        \/ x \in lost'
    BY DEF OpenAttemptsOwned, Answering, Retrieving
  <2>1. CASE x = new BY <1>5, <1>8, <1>20, <2>1
  <2>2. CASE x # new
    <3>1. x \in DOMAIN attempts /\ attempts'[x] = attempts[x] BY <1>0, <1>8, <2>2
    <3> QED BY <1>19, <1>21, <1>22, <3>1 DEF IInv, OpenAttemptsOwned, Answering, Retrieving
  <2> QED BY <2>1, <2>2
<1>25. WillSettle' BY <1>13 DEF IInv, WillSettle, Ends
<1> QED BY <1>7, <1>14, <1>15, <1>16, <1>23, <1>24, <1>25 DEF IInv

-----------------------------------------------------------------------------
\* The invariant.

LEMMA InitEstablishes == Init => IInv
<1> SUFFICES ASSUME Init PROVE IInv OBVIOUS
<1> USE DEF Init
<1>1. TypeOK
  <2>1. attempts \in Seq(Attempt) /\ DOMAIN attempts = {} OBVIOUS
  <2>2. plan \in [Campaigns -> Plans \cup {NoPlan}] OBVIOUS
  <2>3. job \in [Runners -> Job] /\ ask \in [Askers -> AskJob] BY NoJobType, IdleType
  <2> QED BY <2>1, <2>2, <2>3 DEF TypeOK, QuestionStates, CampaignStates
<1>2. \A r \in Runners : SaneJob(r) BY DEF SaneJob, NoJob
<1>3. \A p \in Askers : SaneAsk(p) BY DEF SaneAsk, Idle
<1>4. DOMAIN attempts = {} OBVIOUS
<1>5. OneOwner /\ OpenAttemptsOwned BY <1>4 DEF OneOwner, OpenAttemptsOwned
<1>6. NumbersDense
  <2> SUFFICES ASSUME NEW q \in Questions
               PROVE  Numbers(q) = 1 .. Cardinality(AttemptsOf(q))
    BY DEF NumbersDense
  <2>1. AttemptsOf(q) = {} BY <1>4 DEF AttemptsOf
  <2>2. Cardinality({}) = 0 BY FS_EmptySet
  <2>3. Numbers(q) = {} BY <2>1 DEF Numbers
  <2> QED BY <2>1, <2>2, <2>3
<1>7. WillSettle BY DEF WillSettle
<1> QED BY <1>1, <1>2, <1>3, <1>5, <1>6, <1>7 DEF IInv

LEMMA StepPreserves == IInv /\ [Next]_vars => IInv'
<1> SUFFICES ASSUME IInv, [Next]_vars PROVE IInv' OBVIOUS
<1>1. CASE UNCHANGED vars
  <2> USE <1>1 DEF vars, suite, campaigns, history
  <2>1. \A q : AttemptsOf(q)' = AttemptsOf(q) BY DEF AttemptsOf
  <2>2. TypeOK' BY DEF IInv, TypeOK
  <2>3. \A r \in Runners : SaneJob(r)' BY <2>1 DEF IInv, SaneJob, Total, ItemQuestion
  <2>4. \A p \in Askers : SaneAsk(p)' BY DEF IInv, SaneAsk
  <2>5. OneOwner' BY DEF IInv, OneOwner, Answering, Retrieving
  <2>6. NumbersDense' BY <2>1 DEF IInv, NumbersDense, Numbers
  <2>7. OpenAttemptsOwned' BY DEF IInv, OpenAttemptsOwned
  <2>8. WillSettle' BY DEF IInv, WillSettle, Ends
  <2> QED BY <2>2, <2>3, <2>4, <2>5, <2>6, <2>7, <2>8 DEF IInv
<1>2. ASSUME NEW q \in Questions,
             \/ CreateQuestion(q) \/ remove_question(q)
             \/ \E n \in 1 .. MaxPosition : add_question(q, n)
      PROVE  IInv'
  BY <1>2, SuitePreserves
<1>3. ASSUME NEW q \in Questions, NEW p \in Askers, Ask(p, q) PROVE IInv'
  BY <1>3, AskPreserves
<1>4. ASSUME NEW c \in Campaigns, NEW p \in Plans, create(c, p) PROVE IInv'
  BY <1>4, CreatePreserves
<1>5. ASSUME NEW c \in Campaigns, NEW r \in Runners, Start(r, c) PROVE IInv'
  BY <1>5, StartPreserves
<1>6. ASSUME NEW r \in Runners, Advance(r) PROVE IInv'
  BY <1>6, BeginPreserves, UnpreparedPreserves, PreparePreserves, InsertPreserves,
     RefusePreserves, AnswerPreserves, FailAnswerPreserves, CompletePreserves,
     FailRunPreserves, ReturnPreserves
     DEF Advance
<1>7. ASSUME NEW r \in Runners, CrashRun(r) PROVE IInv' BY <1>7, CrashRunPreserves
<1>8. ASSUME NEW p \in Askers, AdvanceAsk(p) PROVE IInv'
  BY <1>8, CreateAttemptPreserves, AddEvidencePreserves, CompleteAttemptPreserves
     DEF AdvanceAsk
<1>9. ASSUME NEW p \in Askers, CrashAsk(p) PROVE IInv' BY <1>9, CrashAskPreserves
<1> QED BY <1>1, <1>2, <1>3, <1>4, <1>5, <1>6, <1>7, <1>8, <1>9 DEF Next

\* The rows and the open calls satisfy the inductive invariant in every
\* reachable state, for any number of requests that run campaigns or ask.
THEOREM Invariance == Spec => []IInv
<1>1. Init => IInv BY InitEstablishes
<1>2. IInv /\ [Next]_vars => IInv' BY StepPreserves
<1> QED BY <1>1, <1>2, PTL DEF Spec

\* The rows and the open calls always have the shape of the tables and of the
\* local variables of run_campaign, execute and the vector retrieval.
THEOREM TypeCorrect == Spec => []TypeOK
<1>1. IInv => TypeOK BY DEF IInv
<1> QED BY <1>1, Invariance, PTL

\* The attempts of a question are numbered 1 .. n, however many executions of
\* the question read the same highest number at once (_next_attempt_number).
THEOREM NumbersStayDense == Spec => []NumbersDense
<1>1. IInv => NumbersDense BY DEF IInv
<1> QED BY <1>1, Invariance, PTL

\* Every attempt that says "processing" belongs to exactly the call that is
\* answering it, or to a process that died: no error path of execute or of the
\* vector retrieval leaves one open or ends the attempt of another call.
THEOREM AttemptsOwned == Spec => [](OpenAttemptsOwned /\ OneOwner)
<1>1. IInv => OpenAttemptsOwned /\ OneOwner BY DEF IInv
<1> QED BY <1>1, Invariance, PTL

\* A campaign that says "running" has a run that will write its end, or had
\* one whose process died, however the runs of it overlap and whatever status
\* each of them believes it has.
THEOREM CampaignsSettle == Spec => []SettledCampaigns
<1>1. IInv => SettledCampaigns
  BY DEF IInv, WillSettle, SettledCampaigns, Ends
<1> QED BY <1>1, Invariance, PTL

-----------------------------------------------------------------------------
(***************************************************************************)
(* The accounts of a run.  A plan lists the items of one revision after    *)
(* those of the other, so of the items that are over, "d" of them in all   *)
(* and "l" for each revision, Over tells how many are of the k-th one.     *)
(***************************************************************************)
Over(d, l, k) ==
    IF d <= (k - 1) * l THEN 0 ELSE IF k * l <= d THEN l ELSE d - (k - 1) * l

\* The results and errors of each revision are the items of it that are over.
Tally(p, l, d, count) ==
    \A v \in Revisions :
        /\ \A k \in DOMAIN p.revisions : p.revisions[k] = v => count[v] = Over(d, l, k)
        /\ (\A k \in DOMAIN p.revisions : p.revisions[k] # v) => count[v] = 0

Items(p, j) == Len(j.questions) * p.repetitions
Count(rows, j) ==
    [v \in Revisions |-> Cardinality({a \in j.results : rows[a].revision = v}) + j.errors[v]]
Place(p, j) == (j.done \div Items(p, j)) + 1

\* What the record of a run tells of the attempts it has ended and of the one
\* it is answering, for the plan it executes.
Accounted(rows, p, j) ==
    j.phase \notin {"idle", "failing"} =>
        /\ j.done <= Len(p.revisions) * Items(p, j)
        /\ j.phase = "reported" => j.done = Len(p.revisions) * Items(p, j)
        /\ IsFiniteSet(j.results)
        /\ \A a \in j.results : /\ a \in DOMAIN rows
                                /\ rows[a].status = "completed"
                                /\ rows[a].campaign = j.campaign
        /\ j.phase = "answering" => /\ rows[j.attempt].campaign = j.campaign
                                    /\ rows[j.attempt].revision = p.revisions[Place(p, j)]
        /\ Tally(p, Items(p, j), j.done, Count(rows, j))

Accounts == \A r \in Runners : Accounted(attempts, plan[job[r].campaign], job[r])

LEMMA TimesMonotone ==
    ASSUME NEW a \in Nat, NEW b \in Nat, NEW l \in Nat, a <= b
    PROVE  a * l <= b * l /\ a * l \in Nat /\ b * l \in Nat
<1> DEFINE c == b - a
<1>1. c \in Nat /\ b = a + c OBVIOUS
<1>2. b * l = a * l + c * l BY <1>1
<1>3. c * l >= 0 /\ c * l \in Nat /\ a * l \in Nat BY <1>1
<1> QED BY <1>2, <1>3

LEMMA OverZero ==
    ASSUME NEW l \in Nat, NEW k \in Nat \ {0}
    PROVE  Over(0, l, k) = 0
<1>1. 0 * l <= (k - 1) * l BY TimesMonotone
<1>2. 0 * l = 0 OBVIOUS
<1> QED BY <1>1, <1>2 DEF Over

\* Once all items are over, so are those of every revision.
LEMMA OverEnd ==
    ASSUME NEW n \in Nat, NEW l \in Nat, NEW k \in 1 .. n
    PROVE  Over(n * l, l, k) = l
<1>1. k * l <= n * l /\ k * l \in Nat /\ n * l \in Nat BY TimesMonotone
<1>2. (k - 1) * l = k * l - l BY ONLY k \in 1 .. n, n \in Nat, l \in Nat
<1>3. PICK x, y, z : x = n * l /\ y = k * l /\ z = (k - 1) * l OBVIOUS
<1>4. x \in Nat /\ y \in Nat /\ z = y - l /\ y <= x BY <1>1, <1>2, <1>3
<1>5. (IF x <= z THEN 0 ELSE IF y <= x THEN l ELSE x - z) = l
  BY ONLY <1>4, l \in Nat
<1> QED BY <1>3, <1>5 DEF Over

\* The next item belongs to one revision.
LEMMA OverStep ==
    ASSUME NEW d \in Nat, NEW l \in Nat, NEW n \in Nat, NEW k \in 1 .. n, d < n * l
    PROVE  Over(d + 1, l, k) = Over(d, l, k) + (IF k = (d \div l) + 1 THEN 1 ELSE 0)
<1>1. l > 0 /\ d \div l \in 0 .. n - 1 BY QuotientBound
<1>2. PICK q : q = d \div l OBVIOUS
<1>3. q \in Nat /\ l * q <= d /\ d < l * (q + 1) BY <1>1, <1>2
<1>4. PICK x, y : x = q * l /\ y = (q + 1) * l OBVIOUS
<1>5. x \in Nat /\ y = x + l /\ x <= d /\ d < y
  <2>1. x = l * q /\ y = l * (q + 1) /\ x \in Nat BY <1>3, <1>4
  <2>2. y = x + l BY <1>3, <1>4
  <2> QED BY <1>3, <2>1, <2>2
<1>6. PICK u, v : u = (k - 1) * l /\ v = k * l OBVIOUS
<1>7. u \in Nat /\ v = u + l
  <2>1. k - 1 \in Nat OBVIOUS
  <2>2. u \in Nat BY <1>6, <2>1
  <2>3. k * l = (k - 1) * l + l BY <2>1
  <2> QED BY <1>6, <2>2, <2>3
<1>8. CASE k = q + 1
  <2>1. u = x BY <1>3, <1>4, <1>6, <1>8
  <2>2. (IF d + 1 <= u THEN 0 ELSE IF v <= d + 1 THEN l ELSE d + 1 - u)
          = (IF d <= u THEN 0 ELSE IF v <= d THEN l ELSE d - u) + 1
    BY ONLY <1>1, <1>5, <1>7, <2>1, d \in Nat, l \in Nat
  <2> QED BY <1>2, <1>6, <1>8, <2>2 DEF Over
<1>9. CASE k < q + 1
  <2>1. k * l <= q * l BY <1>3, <1>9, TimesMonotone
  <2>2. v <= d BY <1>4, <1>5, <1>6, <1>7, <2>1
  <2>3. (IF d + 1 <= u THEN 0 ELSE IF v <= d + 1 THEN l ELSE d + 1 - u)
          = (IF d <= u THEN 0 ELSE IF v <= d THEN l ELSE d - u)
    BY ONLY <1>1, <1>7, <2>2, d \in Nat, l \in Nat
  <2>4. Over(d, l, k) \in Nat /\ k # q + 1
    BY ONLY <1>1, <1>3, <1>6, <1>7, <1>9, <2>2, d \in Nat, l \in Nat, k \in 1 .. n, n \in Nat
       DEF Over
  <2>5. Over(d + 1, l, k) = Over(d, l, k) BY <1>6, <2>3 DEF Over
  <2> QED BY <1>2, <2>4, <2>5
<1>10. CASE k > q + 1
  <2>1. (q + 1) * l <= (k - 1) * l BY <1>3, <1>10, TimesMonotone
  <2>2. d + 1 <= u BY <1>4, <1>5, <1>6, <1>7, <2>1
  <2>3. (IF d + 1 <= u THEN 0 ELSE IF v <= d + 1 THEN l ELSE d + 1 - u) = 0
        /\ (IF d <= u THEN 0 ELSE IF v <= d THEN l ELSE d - u) = 0
    BY ONLY <1>7, <2>2, d \in Nat
  <2>4. Over(d + 1, l, k) = 0 /\ Over(d, l, k) = 0 BY <1>6, <2>3 DEF Over
  <2> QED BY <1>2, <1>10, <2>4
<1>11. k = q + 1 \/ k < q + 1 \/ k > q + 1 BY <1>3
<1> QED BY <1>8, <1>9, <1>10, <1>11

\* Of the revisions of a plan, none occurs twice.
LEMMA PlanDistinct ==
    ASSUME NEW p \in Plans \cup {NoPlan}
    PROVE  \A i, k \in DOMAIN p.revisions : p.revisions[i] = p.revisions[k] => i = k
<1>1. CASE p = NoPlan BY <1>1 DEF NoPlan
<1>2. CASE p \in Plans BY <1>2 DEF Plans
<1> QED BY <1>1, <1>2

LEMMA TallyZero ==
    ASSUME NEW p \in Plans \cup {NoPlan}, NEW l \in Nat, NEW count \in [Revisions -> Nat],
           \A v \in Revisions : count[v] = 0
    PROVE  Tally(p, l, 0, count)
<1>1. p.revisions \in Seq(Revisions) BY PlanType
<1>2. ASSUME NEW k \in DOMAIN p.revisions PROVE Over(0, l, k) = 0
  <2>1. k \in Nat \ {0} BY <1>1
  <2> QED BY <2>1, OverZero
<1> QED BY <1>2 DEF Tally

\* One more item is over, a result or an error of its revision.
LEMMA TallyStep ==
    ASSUME NEW p \in Plans \cup {NoPlan}, NEW l \in Nat, NEW d \in Nat,
           d < Len(p.revisions) * l,
           NEW f \in [Revisions -> Nat], NEW g \in [Revisions -> Nat],
           Tally(p, l, d, f),
           \A v \in Revisions :
               g[v] = f[v] + (IF v = p.revisions[(d \div l) + 1] THEN 1 ELSE 0)
    PROVE  Tally(p, l, d + 1, g)
<1>1. PICK n : n = Len(p.revisions) OBVIOUS
<1>2. p.revisions \in Seq(Revisions) /\ n \in Nat /\ DOMAIN p.revisions = 1 .. n
  BY <1>1, PlanType
<1>3. PICK i : i = (d \div l) + 1 OBVIOUS
<1>4. i \in 1 .. n
  <2>1. d \div l \in 0 .. n - 1 BY <1>1, <1>2, QuotientBound
  <2> QED BY <1>2, <1>3, <2>1
<1>5. ASSUME NEW v \in Revisions, NEW k \in DOMAIN p.revisions, p.revisions[k] = v
      PROVE  g[v] = Over(d + 1, l, k)
  <2>1. f[v] = Over(d, l, k) BY <1>5 DEF Tally
  <2>2. Over(d + 1, l, k) = Over(d, l, k) + (IF k = i THEN 1 ELSE 0)
    <3>1. k \in 1 .. n /\ d < n * l BY <1>1, <1>2
    <3>2. Over(d + 1, l, k) = Over(d, l, k) + (IF k = (d \div l) + 1 THEN 1 ELSE 0)
      BY ONLY <3>1, <1>2, d \in Nat, l \in Nat, OverStep
    <3> QED BY <1>3, <3>2
  <2>3. v = p.revisions[i] <=> k = i BY <1>2, <1>4, <1>5, PlanDistinct
  <2>4. g[v] = f[v] + (IF v = p.revisions[i] THEN 1 ELSE 0) BY <1>3
  <2> QED BY <2>1, <2>2, <2>3, <2>4
<1>6. ASSUME NEW v \in Revisions, \A k \in DOMAIN p.revisions : p.revisions[k] # v
      PROVE  g[v] = 0
  <2>1. f[v] = 0 BY <1>6 DEF Tally
  <2>2. v # p.revisions[i] BY <1>2, <1>4, <1>6
  <2>3. g[v] = f[v] + 0 BY <1>3, <2>2
  <2> QED BY <2>1, <2>3
<1> QED BY <1>5, <1>6 DEF Tally

LEMMA CountType ==
    ASSUME NEW rows, NEW j \in Job, IsFiniteSet(j.results)
    PROVE  Count(rows, j) \in [Revisions -> Nat]
<1> SUFFICES ASSUME NEW v \in Revisions
             PROVE  Cardinality({a \in j.results : rows[a].revision = v}) + j.errors[v] \in Nat
  BY DEF Count
<1>1. IsFiniteSet({a \in j.results : rows[a].revision = v}) BY FS_Subset
<1>2. Cardinality({a \in j.results : rows[a].revision = v}) \in Nat BY <1>1, FS_CardinalityType
<1>3. j.errors[v] \in Nat BY DEF Job
<1> QED BY <1>2, <1>3

\* Rows that are not an attempt of the run may change.
LEMMA CountKept ==
    ASSUME NEW rows, NEW rows2, NEW j,
           \A a \in j.results : rows2[a].revision = rows[a].revision
    PROVE  Count(rows2, j) = Count(rows, j)
<1>1. ASSUME NEW v \in Revisions
      PROVE  {a \in j.results : rows2[a].revision = v} = {a \in j.results : rows[a].revision = v}
  OBVIOUS
<1> QED BY <1>1 DEF Count

\* A result counts for the revision of its attempt.
LEMMA CountResult ==
    ASSUME NEW rows, NEW j \in Job, NEW k, NEW a, IsFiniteSet(j.results), a \notin j.results,
           k.results = j.results \cup {a}, k.errors = j.errors, NEW v \in Revisions
    PROVE  /\ Count(rows, k)[v]
                = Count(rows, j)[v] + (IF v = rows[a].revision THEN 1 ELSE 0)
           /\ Count(rows, k)[v] \in Nat
<1> DEFINE S == {b \in j.results : rows[b].revision = v}
           T == {b \in k.results : rows[b].revision = v}
<1>1. Count(rows, j)[v] = Cardinality(S) + j.errors[v] BY DEF Count
<1>2. Count(rows, k)[v] = Cardinality(T) + j.errors[v] BY DEF Count
<1>3. IsFiniteSet(S) BY FS_Subset
<1>4. Cardinality(S) \in Nat BY <1>3, FS_CardinalityType
<1>5. j.errors[v] \in Nat BY DEF Job
<1>6. CASE v = rows[a].revision
  <2>1. T = S \cup {a} /\ a \notin S BY <1>6
  <2> HIDE DEF S, T
  <2>2. Cardinality(T) = Cardinality(S) + 1 BY <2>1, <1>3, FS_AddElement
  <2>3. Count(rows, k)[v] = Count(rows, j)[v] + 1 BY <1>1, <1>2, <1>4, <1>5, <2>2
  <2> QED BY <1>1, <1>4, <1>5, <1>6, <2>3
<1>7. CASE v # rows[a].revision
  <2>1. T = S BY <1>7
  <2> HIDE DEF S, T
  <2>2. Count(rows, k)[v] = Count(rows, j)[v] /\ Count(rows, j)[v] \in Nat
    BY <1>1, <1>2, <1>4, <1>5, <2>1
  <2> QED BY <1>7, <2>2
<1> QED BY <1>6, <1>7

\* An error counts for the revision of its item.
LEMMA CountError ==
    ASSUME NEW rows, NEW j \in Job, NEW k, NEW e \in Revisions, IsFiniteSet(j.results),
           k.results = j.results, k.errors = [j.errors EXCEPT ![e] = @ + 1],
           NEW v \in Revisions
    PROVE  /\ Count(rows, k)[v] = Count(rows, j)[v] + (IF v = e THEN 1 ELSE 0)
           /\ Count(rows, k)[v] \in Nat
<1>1. PICK n : n = Cardinality({b \in j.results : rows[b].revision = v}) OBVIOUS
<1>2. n \in Nat
  <2>1. IsFiniteSet({b \in j.results : rows[b].revision = v}) BY FS_Subset
  <2> QED BY <1>1, <2>1, FS_CardinalityType
<1>3. Count(rows, j)[v] = n + j.errors[v] /\ Count(rows, k)[v] = n + k.errors[v]
  BY <1>1 DEF Count
<1>4. j.errors \in [Revisions -> Nat] BY DEF Job
<1>5. k.errors[v] = j.errors[v] + (IF v = e THEN 1 ELSE 0) /\ j.errors[v] \in Nat BY <1>4
<1> QED BY <1>2, <1>3, <1>5

-----------------------------------------------------------------------------
\* What becomes of the accounts of a run.

\* The rows that the run knows are still there.
LEMMA AccountedKept ==
    ASSUME NEW rows, NEW rows2, NEW p, NEW j, Accounted(rows, p, j),
           j.phase = "answering" => j.attempt \in DOMAIN rows,
           DOMAIN rows \subseteq DOMAIN rows2,
           \A a \in DOMAIN rows :
               /\ rows2[a].campaign = rows[a].campaign
               /\ rows2[a].revision = rows[a].revision
               /\ rows[a].status = "completed" => rows2[a].status = "completed"
    PROVE  Accounted(rows2, p, j)
<1> SUFFICES ASSUME j.phase \notin {"idle", "failing"} PROVE Accounted(rows2, p, j)
  BY DEF Accounted
<1>1. \A a \in j.results : a \in DOMAIN rows BY DEF Accounted
<1>2. Count(rows2, j) = Count(rows, j) BY <1>1, CountKept
<1> QED BY <1>1, <1>2 DEF Accounted

\* Nothing ends, and the run does not begin an answer.
LEMMA AccountedMoved ==
    ASSUME NEW rows, NEW p, NEW j, NEW k, Accounted(rows, p, j),
           j.phase \notin {"idle", "failing"}, k.phase # "answering",
           k.phase = "reported" => j.done >= Len(p.revisions) * Items(p, j),
           j.done \in Nat, Len(p.revisions) * Items(p, j) \in Nat,
           k.campaign = j.campaign, k.questions = j.questions, k.done = j.done,
           k.results = j.results, k.errors = j.errors
    PROVE  Accounted(rows, p, k)
<1>1. Items(p, k) = Items(p, j) /\ Count(rows, k) = Count(rows, j) BY DEF Items, Count
<1> QED BY <1>1 DEF Accounted

\* An item is over.
LEMMA AccountedEnded ==
    ASSUME NEW rows, NEW p \in Plans \cup {NoPlan}, NEW j \in Job, NEW k \in Job,
           Accounted(rows, p, j), j.phase \notin {"idle", "failing"},
           j.done < Len(p.revisions) * Items(p, j),
           k.phase = "next", k.campaign = j.campaign, k.questions = j.questions,
           k.done = j.done + 1, IsFiniteSet(k.results),
           \A a \in k.results \ j.results : /\ a \in DOMAIN rows
                                            /\ rows[a].status = "completed"
                                            /\ rows[a].campaign = j.campaign,
           \A v \in Revisions : Count(rows, k)[v] =
               Count(rows, j)[v] + (IF v = p.revisions[Place(p, j)] THEN 1 ELSE 0)
    PROVE  Accounted(rows, p, k)
<1>1. Items(p, k) = Items(p, j) BY DEF Items
<1>2. PICK l : l = Items(p, j) OBVIOUS
<1>3. p.revisions \in Seq(Revisions) /\ p.repetitions \in Nat BY PlanType
<1>4. Len(j.questions) \in Nat /\ j.done \in Nat BY DEF Job
<1>5. l \in Nat BY <1>2, <1>3, <1>4 DEF Items
<1>6. Len(p.revisions) * l \in Nat BY <1>3, <1>5
<1>7. k.done <= Len(p.revisions) * l BY <1>2, <1>4, <1>6
<1>8. Count(rows, j) \in [Revisions -> Nat] /\ Count(rows, k) \in [Revisions -> Nat]
  BY CountType DEF Accounted
<1>9. Tally(p, l, j.done, Count(rows, j)) BY <1>2 DEF Accounted
<1>10. Place(p, j) = (j.done \div l) + 1 BY <1>2 DEF Place
<1>11. PICK f, g : f = Count(rows, j) /\ g = Count(rows, k) OBVIOUS
<1>12. \A v \in Revisions :
           g[v] = f[v] + (IF v = p.revisions[(j.done \div l) + 1] THEN 1 ELSE 0)
  BY <1>10, <1>11
<1>13. j.done < Len(p.revisions) * l BY <1>2
<1>14. Tally(p, l, j.done + 1, g)
  BY ONLY <1>4, <1>5, <1>8, <1>9, <1>11, <1>12, <1>13, p \in Plans \cup {NoPlan}, TallyStep
<1>15. \A a \in k.results : /\ a \in DOMAIN rows /\ rows[a].status = "completed"
                            /\ rows[a].campaign = k.campaign
  BY DEF Accounted
<1> QED BY <1>1, <1>2, <1>7, <1>11, <1>14, <1>15 DEF Accounted

\* When all items are over, the aggregates add up.
LEMMA TallyEnd ==
    ASSUME NEW p \in Plans \cup {NoPlan}, NEW l \in Nat, NEW count,
           Tally(p, l, Len(p.revisions) * l, count), NEW v \in Revisions
    PROVE  count[v] = IF \E k \in DOMAIN p.revisions : p.revisions[k] = v THEN l ELSE 0
<1>1. p.revisions \in Seq(Revisions) BY PlanType
<1>2. ASSUME NEW k \in DOMAIN p.revisions, p.revisions[k] = v PROVE count[v] = l
  <2>1. k \in 1 .. Len(p.revisions) /\ Len(p.revisions) \in Nat BY <1>1
  <2>2. Over(Len(p.revisions) * l, l, k) = l BY <2>1, OverEnd
  <2> QED BY <1>2, <2>2 DEF Tally
<1> QED BY <1>2 DEF Tally

-----------------------------------------------------------------------------
\* The accounts from one step to the next.

\* No step takes a row away, gives it to another campaign, or reopens it.
EndedRowsKept ==
    /\ DOMAIN attempts \subseteq DOMAIN attempts'
    /\ \A a \in DOMAIN attempts :
         /\ attempts'[a].campaign = attempts[a].campaign
         /\ attempts'[a].revision = attempts[a].revision
         /\ attempts[a].status = "completed" => attempts'[a].status = "completed"

\* A plan that some run may have read stays.
PlansKept == \A c \in Campaigns : status[c] # "none" => plan'[c] = plan[c]

LEMMA AppendKeeps ==
    ASSUME IInv, NEW row, attempts' = Append(attempts, row)
    PROVE  EndedRowsKept
<1>1. /\ DOMAIN attempts = 1 .. Len(attempts) /\ Len(attempts) \in Nat
      /\ DOMAIN attempts' = 1 .. Len(attempts) + 1
      /\ \A a \in DOMAIN attempts : attempts'[a] = attempts[a]
  BY DEF IInv, TypeOK
<1> QED BY <1>1 DEF EndedRowsKept

LEMMA UpdateKeeps ==
    ASSUME IInv, NEW own \in DOMAIN attempts, NEW row, attempts[own].status = "processing",
           attempts' = [attempts EXCEPT ![own] = row],
           row.campaign = attempts[own].campaign, row.revision = attempts[own].revision
    PROVE  EndedRowsKept
<1>1. /\ DOMAIN attempts' = DOMAIN attempts /\ attempts'[own] = row
      /\ \A a \in DOMAIN attempts \ {own} : attempts'[a] = attempts[a]
  BY DEF IInv, TypeOK
<1> QED BY <1>1 DEF EndedRowsKept

LEMMA RunnerRowOpen ==
    ASSUME IInv, NEW r \in Runners, job[r].phase = "answering"
    PROVE  /\ job[r].attempt \in DOMAIN attempts
           /\ attempts[job[r].attempt].status = "processing"
           /\ attempts[job[r].attempt] \in Attempt
<1>1. job[r].attempt \in DOMAIN attempts BY DEF IInv, SaneJob
<1>2. attempts[job[r].attempt].status = "processing" BY <1>1 DEF IInv, OpenAttemptsOwned
<1> QED BY <1>1, <1>2 DEF IInv, TypeOK

LEMMA AskerRowOpen ==
    ASSUME IInv, NEW p \in Askers, ask[p].phase = "retrieving"
    PROVE  /\ ask[p].attempt \in DOMAIN attempts
           /\ attempts[ask[p].attempt].status = "processing"
           /\ attempts[ask[p].attempt] \in Attempt
<1>1. ask[p].attempt \in DOMAIN attempts BY DEF IInv, SaneAsk
<1>2. attempts[ask[p].attempt].status = "processing" BY <1>1 DEF IInv, OpenAttemptsOwned
<1> QED BY <1>1, <1>2 DEF IInv, TypeOK

\* A run whose record a step leaves alone keeps its accounts.
LEMMA OtherRun ==
    ASSUME IInv, Accounts, EndedRowsKept, PlansKept, NEW s \in Runners, job'[s] = job[s]
    PROVE  Accounted(attempts, plan[job[s].campaign], job[s])'
<1>1. PICK j, rows, rows2 : j = job[s] /\ rows = attempts /\ rows2 = attempts' OBVIOUS
<1>2. PICK p, p2 : p = plan[j.campaign] /\ p2 = plan'[j.campaign] OBVIOUS
<1>3. SUFFICES Accounted(rows2, p2, j) BY <1>1, <1>2
<1>4. CASE j.phase = "idle" BY <1>4 DEF Accounted
<1>5. CASE j.phase # "idle"
  <2>1. p2 = p BY <1>1, <1>2, <1>5 DEF IInv, SaneJob, PlansKept
  <2>2. Accounted(rows, p, j) BY <1>1, <1>2 DEF Accounts
  <2>3. j.phase = "answering" => j.attempt \in DOMAIN rows BY <1>1 DEF IInv, SaneJob
  <2>4. /\ DOMAIN rows \subseteq DOMAIN rows2
        /\ \A a \in DOMAIN rows :
             /\ rows2[a].campaign = rows[a].campaign
             /\ rows2[a].revision = rows[a].revision
             /\ rows[a].status = "completed" => rows2[a].status = "completed"
    BY <1>1 DEF EndedRowsKept
  <2>5. Accounted(rows2, p, j) BY ONLY <2>2, <2>3, <2>4, AccountedKept
  <2> QED BY <2>1, <2>5
<1> QED BY <1>4, <1>5

\* Of the run that takes the step, it is enough to look at its new record.
LEMMA RunStep ==
    ASSUME IInv, Accounts, EndedRowsKept, PlansKept, NEW r \in Runners,
           \A s \in Runners \ {r} : job'[s] = job[s],
           NEW k, NEW rows, NEW p, k = job'[r], rows = attempts', p = plan'[k.campaign],
           Accounted(rows, p, k)
    PROVE  Accounts'
<1> SUFFICES ASSUME NEW s \in Runners PROVE Accounted(attempts, plan[job[s].campaign], job[s])'
  BY DEF Accounts
<1>1. CASE s = r BY <1>1
<1>2. CASE s # r BY <1>2, OtherRun
<1> QED BY <1>1, <1>2

LEMMA OthersStep ==
    ASSUME IInv, Accounts, EndedRowsKept, PlansKept, job' = job
    PROVE  Accounts'
<1>1. ASSUME NEW s \in Runners PROVE Accounted(attempts, plan[job[s].campaign], job[s])'
  BY OtherRun
<1> QED BY <1>1 DEF Accounts

\* The run that takes a step.
LEMMA RunFacts ==
    ASSUME IInv, Accounts, NEW r \in Runners, job[r].phase # "idle"
    PROVE  /\ job[r] \in Job /\ job[r].campaign \in Campaigns /\ status[job[r].campaign] # "none"
           /\ plan[job[r].campaign] \in Plans \cup {NoPlan}
           /\ Accounted(attempts, plan[job[r].campaign], job[r])
           /\ Total(job[r]) = Len(plan[job[r].campaign].revisions)
                                 * Items(plan[job[r].campaign], job[r])
           /\ Total(job[r]) \in Nat
<1>1. PICK j : j = job[r] OBVIOUS
<1>2. j \in Job /\ j.campaign \in Campaigns /\ status[j.campaign] # "none"
  BY <1>1 DEF IInv, TypeOK, SaneJob
<1>3. PICK p : p = plan[j.campaign] OBVIOUS
<1>4. p \in Plans \cup {NoPlan} BY <1>2, <1>3 DEF IInv, TypeOK
<1>5. Accounted(attempts, p, j) BY <1>1, <1>3 DEF Accounts
<1>6. p.revisions \in Seq(Revisions) /\ p.repetitions \in Nat BY <1>4, PlanType
<1>7. PICK x, y, z : x = Len(p.revisions) /\ y = Len(j.questions) /\ z = p.repetitions OBVIOUS
<1>8. x \in Nat /\ y \in Nat /\ z \in Nat BY <1>2, <1>6, <1>7 DEF Job
<1>9. x * y * z = x * (y * z) /\ x * y * z \in Nat BY <1>8
<1>10. Total(j) = x * y * z /\ Items(p, j) = y * z BY <1>3, <1>7 DEF Total, Items
<1> QED BY <1>1, <1>2, <1>3, <1>4, <1>5, <1>7, <1>9, <1>10

LEMMA QuietKeeps ==
    ASSUME UNCHANGED <<attempts, plan>>
    PROVE  EndedRowsKept /\ PlansKept
BY DEF EndedRowsKept, PlansKept

\* A step of a run that ends no item and leaves the rows alone.
LEMMA QuietStep ==
    ASSUME IInv, Accounts, NEW r \in Runners, NEW k, job' = [job EXCEPT ![r] = k],
           job[r].phase # "idle", UNCHANGED <<attempts, plan>>,
           \/ k.phase \in {"idle", "failing"}
           \/ /\ job[r].phase # "failing" /\ k.phase # "answering"
              /\ k.phase = "reported" => job[r].done >= Total(job[r])
              /\ k.campaign = job[r].campaign /\ k.questions = job[r].questions
              /\ k.done = job[r].done
              /\ k.results = job[r].results /\ k.errors = job[r].errors
    PROVE  Accounts'
<1>1. job'[r] = k /\ \A s \in Runners \ {r} : job'[s] = job[s] BY DEF IInv, TypeOK
<1>2. EndedRowsKept /\ PlansKept BY QuietKeeps
<1>3. PICK rows, p : rows = attempts' /\ p = plan'[k.campaign] OBVIOUS
<1>4. Accounted(rows, p, k)
  <2>1. CASE k.phase \in {"idle", "failing"} BY <2>1 DEF Accounted
  <2>2. CASE k.phase \notin {"idle", "failing"}
    <3>1. PICK j : j = job[r] OBVIOUS
    <3>2. k.campaign = j.campaign /\ rows = attempts /\ p = plan[j.campaign]
      BY <1>3, <2>2, <3>1
    <3>3. /\ Accounted(rows, p, j) /\ j \in Job
          /\ Total(j) = Len(p.revisions) * Items(p, j) /\ Total(j) \in Nat
      BY <3>1, <3>2, RunFacts
    <3>4. j.done \in Nat BY <3>3 DEF Job
    <3>5. /\ j.phase \notin {"idle", "failing"} /\ k.phase # "answering"
          /\ k.phase = "reported" => j.done >= Len(p.revisions) * Items(p, j)
          /\ k.questions = j.questions /\ k.done = j.done
          /\ k.results = j.results /\ k.errors = j.errors
      BY <2>2, <3>1, <3>3
    <3> QED BY ONLY <3>2, <3>3, <3>4, <3>5, AccountedMoved
  <2> QED BY <2>1, <2>2
<1> QED BY <1>1, <1>2, <1>3, <1>4, RunStep

\* An error is recorded for the current item.
LEMMA AccountedError ==
    ASSUME NEW rows, NEW p \in Plans \cup {NoPlan}, NEW j \in Job,
           Accounted(rows, p, j), j.phase \notin {"idle", "failing"},
           j.done < Len(p.revisions) * Items(p, j),
           NEW e \in Revisions, e = p.revisions[Place(p, j)],
           NEW k \in Job, k.phase = "next", k.campaign = j.campaign,
           k.questions = j.questions, k.done = j.done + 1,
           k.results = j.results, k.errors = [j.errors EXCEPT ![e] = @ + 1]
    PROVE  Accounted(rows, p, k)
<1>1. IsFiniteSet(j.results) BY DEF Accounted
<1>2. \A v \in Revisions : Count(rows, k)[v] =
          Count(rows, j)[v] + (IF v = p.revisions[Place(p, j)] THEN 1 ELSE 0)
  BY <1>1, CountError
<1> QED BY <1>1, <1>2, AccountedEnded

LEMMA RecordedFields ==
    ASSUME NEW j \in Job, ItemRevision(j) \in Revisions
    PROVE  /\ Recorded(j).questions = j.questions /\ Recorded(j).done = j.done + 1
           /\ Recorded(j).results = j.results
           /\ Recorded(j).errors = [j.errors EXCEPT ![ItemRevision(j)] = @ + 1]
<1>1. PICK v : v = ItemRevision(j) OBVIOUS
<1>2. PICK e : e = [j.errors EXCEPT ![v] = @ + 1] OBVIOUS
<1>3. Recorded(j) = [j EXCEPT !.phase = "next", !.done = @ + 1, !.attempt = NoAttempt,
                              !.errors = e]
  BY <1>1, <1>2 DEF Recorded, Job
<1> QED BY <1>1, <1>2, <1>3 DEF Job

LEMMA ItemRevisionIs ==
    ASSUME NEW j \in Job, NEW p, p = plan[j.campaign], p \in Plans \cup {NoPlan},
           j.done < Total(j), Total(j) = Len(p.revisions) * Items(p, j)
    PROVE  ItemRevision(j) \in Revisions /\ ItemRevision(j) = p.revisions[Place(p, j)]
<1>1. ItemRevision(j) \in Revisions BY ItemType
<1> QED BY <1>1 DEF ItemRevision, Place, Items

LEMMA StartAccounts ==
    ASSUME IInv, Accounts, NEW r \in Runners, NEW c \in Campaigns, Start(r, c)
    PROVE  Accounts'
<1>1. PICK s \in UNION {[1 .. n -> Questions] : n \in 0 .. Cardinality(Questions)} :
        job' = [job EXCEPT ![r] = [NoJob EXCEPT
                  !.phase = IF s = <<>> THEN "failing" ELSE "started",
                  !.campaign = c, !.questions = s, !.seen = status[c], !.seenEnded = ended[c]]]
  BY DEF Start
<1>2. PICK k : k = [NoJob EXCEPT !.phase = IF s = <<>> THEN "failing" ELSE "started",
                      !.campaign = c, !.questions = s, !.seen = status[c], !.seenEnded = ended[c]]
  OBVIOUS
<1>3. /\ k.phase \in {"failing", "started"} /\ k.campaign = c /\ k.questions = s
      /\ k.done = 0 /\ k.results = {} /\ k.errors = [v \in Revisions |-> 0]
  BY <1>2 DEF NoJob
<1>4. job'[r] = k /\ \A t \in Runners \ {r} : job'[t] = job[t]
  BY <1>1, <1>2 DEF IInv, TypeOK
<1>5. PICK rows, p : rows = attempts' /\ p = plan'[k.campaign] OBVIOUS
<1>6. p \in Plans \cup {NoPlan} BY <1>3, <1>5 DEF Start, campaigns, IInv, TypeOK
<1>7. Len(k.questions) \in Nat
  <2>1. PICK n \in 0 .. Cardinality(Questions) : s \in [1 .. n -> Questions] OBVIOUS
  <2>2. n \in Nat BY FS_CardinalityType, FiniteAssumption
  <2>3. s \in Seq(Questions) BY <2>1, <2>2
  <2> QED BY <1>3, <2>3
<1>8. p.revisions \in Seq(Revisions) /\ p.repetitions \in Nat BY <1>6, PlanType
<1>9. Items(p, k) \in Nat BY <1>7, <1>8 DEF Items
<1>10. 0 <= Len(p.revisions) * Items(p, k)
  <2>1. PICK x, y : x = Len(p.revisions) /\ y = Items(p, k) OBVIOUS
  <2>2. x \in Nat /\ y \in Nat BY <1>8, <1>9, <2>1
  <2>3. x * y >= 0 BY <2>2
  <2> QED BY <2>1, <2>3
<1>11. Count(rows, k) = [v \in Revisions |-> 0]
  <2>1. ASSUME NEW v \in Revisions
        PROVE  Cardinality({a \in k.results : rows[a].revision = v}) + k.errors[v] = 0
    <3>1. {a \in k.results : rows[a].revision = v} = {} BY <1>3
    <3>2. Cardinality({}) = 0 BY FS_EmptySet
    <3> QED BY <1>3, <3>1, <3>2
  <2> QED BY <2>1 DEF Count
<1>12. Tally(p, Items(p, k), k.done, Count(rows, k))
  <2>1. PICK f : f = Count(rows, k) OBVIOUS
  <2>2. f \in [Revisions -> Nat] /\ \A v \in Revisions : f[v] = 0 BY <1>11, <2>1
  <2>3. Tally(p, Items(p, k), 0, f) BY <1>6, <1>9, <2>2, TallyZero
  <2> QED BY <1>3, <2>1, <2>3
<1>13. IsFiniteSet(k.results) BY <1>3, FS_EmptySet
<1>14. Accounted(rows, p, k) BY <1>3, <1>10, <1>12, <1>13 DEF Accounted
<1>15. EndedRowsKept /\ PlansKept BY QuietKeeps DEF Start, campaigns
<1> QED BY <1>4, <1>5, <1>14, <1>15, RunStep

LEMMA UnpreparedAccounts ==
    ASSUME IInv, Accounts, NEW r \in Runners, Unprepared(r)
    PROVE  Accounts'
<1>1. PICK old : old = job[r] OBVIOUS
<1>2. PICK p, rows : p = plan[old.campaign] /\ rows = attempts OBVIOUS
<1>3. /\ old \in Job /\ old.phase = "next" /\ p \in Plans \cup {NoPlan}
      /\ Accounted(rows, p, old) /\ old.done < Total(old)
      /\ Total(old) = Len(p.revisions) * Items(p, old) /\ Total(old) \in Nat
  BY <1>1, <1>2, RunFacts DEF Unprepared
<1>4. PICK j : j = [old EXCEPT !.seen = Seen(r)] OBVIOUS
<1>5. Seen(r) \in CampaignStates
  BY <1>1, <1>3 DEF Seen, IInv, TypeOK, SaneJob, Job
<1>6. /\ j \in Job /\ j.phase = "next" /\ j.campaign = old.campaign
      /\ j.questions = old.questions /\ j.done = old.done
      /\ j.results = old.results /\ j.errors = old.errors
  BY <1>3, <1>4, <1>5 DEF Job
<1>7. Accounted(rows, p, j)
  <2>1. old.done \in Nat BY <1>3 DEF Job
  <2> QED BY <1>3, <1>6, <2>1, AccountedMoved
<1>8. Total(j) = Total(old) /\ Items(p, j) = Items(p, old) BY <1>6 DEF Total, Items
<1>9. PICK e : e = ItemRevision(j) OBVIOUS
<1>10. e \in Revisions /\ e = p.revisions[Place(p, j)]
  <2>1. /\ p = plan[j.campaign] /\ j.done < Total(j)
        /\ Total(j) = Len(p.revisions) * Items(p, j)
    BY <1>2, <1>3, <1>6, <1>8
  <2> QED BY <1>3, <1>6, <1>9, <2>1, ItemRevisionIs
<1>11. PICK k : k = Recorded(j) OBVIOUS
<1>12. /\ k \in Job /\ k.phase = "next" /\ k.campaign = j.campaign
       /\ k.questions = j.questions /\ k.done = j.done + 1
       /\ k.results = j.results /\ k.errors = [j.errors EXCEPT ![e] = @ + 1]
  BY <1>6, <1>9, <1>10, <1>11, RecordedType, RecordedFields
<1>13. Accounted(rows, p, k)
  <2>1. j.phase \notin {"idle", "failing"} /\ j.done < Len(p.revisions) * Items(p, j)
    BY <1>3, <1>6, <1>8
  <2> QED BY ONLY <1>3, <1>6, <1>7, <1>10, <1>12, <2>1, AccountedError
<1>14. job' = [job EXCEPT ![r] = k] BY <1>1, <1>4, <1>11 DEF Unprepared
<1>15. k = job'[r] /\ \A s \in Runners \ {r} : job'[s] = job[s]
  BY <1>14 DEF IInv, TypeOK
<1>16. rows = attempts' /\ p = plan'[k.campaign] /\ EndedRowsKept /\ PlansKept
  BY <1>2, <1>6, <1>12, QuietKeeps DEF Unprepared, campaigns
<1> QED BY <1>13, <1>15, <1>16, RunStep

LEMMA BeginAccounts ==
    ASSUME IInv, Accounts, NEW r \in Runners, Begin(r)
    PROVE  Accounts'
<1>1. PICK old : old = job[r] OBVIOUS
<1>2. old \in Job /\ old.phase = "started" BY <1>1 DEF Begin, IInv, TypeOK
<1>3. PICK k : k = [old EXCEPT !.phase = "next", !.seen = "none"] OBVIOUS
<1>4. /\ k.phase = "next" /\ k.campaign = old.campaign /\ k.questions = old.questions
      /\ k.done = old.done /\ k.results = old.results /\ k.errors = old.errors
  BY <1>2, <1>3 DEF Job
<1>5. job' = [job EXCEPT ![r] = k] BY <1>1, <1>3 DEF Begin, IInv, TypeOK
<1> QED BY <1>1, <1>2, <1>4, <1>5, QuietStep DEF Begin

LEMMA PrepareAccounts ==
    ASSUME IInv, Accounts, NEW r \in Runners, Prepare(r)
    PROVE  Accounts'
<1>1. PICK old : old = job[r] OBVIOUS
<1>2. old \in Job /\ old.phase = "next" BY <1>1 DEF Prepare, IInv, TypeOK
<1>3. PICK n : job' = [job EXCEPT ![r].phase = "numbered", ![r].number = n, ![r].seen = Seen(r)]
  BY DEF Prepare
<1>4. PICK k : k = [old EXCEPT !.phase = "numbered", !.number = n, !.seen = Seen(r)] OBVIOUS
<1>5. /\ k.phase = "numbered" /\ k.campaign = old.campaign /\ k.questions = old.questions
      /\ k.done = old.done /\ k.results = old.results /\ k.errors = old.errors
  BY <1>2, <1>4 DEF Job
<1>6. job' = [job EXCEPT ![r] = k] BY <1>1, <1>3, <1>4 DEF IInv, TypeOK
<1> QED BY <1>1, <1>2, <1>5, <1>6, QuietStep DEF Prepare, campaigns

LEMMA RefuseAccounts ==
    ASSUME IInv, Accounts, NEW r \in Runners, RefuseAttempt(r)
    PROVE  Accounts'
<1>1. PICK old : old = job[r] OBVIOUS
<1>2. old \in Job /\ old.phase = "numbered" BY <1>1 DEF RefuseAttempt, IInv, TypeOK
<1>3. PICK k : k = [old EXCEPT !.phase = "failing"] OBVIOUS
<1>4. k.phase = "failing" BY <1>2, <1>3 DEF Job
<1>5. job' = [job EXCEPT ![r] = k] BY <1>1, <1>3 DEF RefuseAttempt, IInv, TypeOK
<1> QED BY <1>1, <1>2, <1>4, <1>5, QuietStep DEF RefuseAttempt, campaigns

LEMMA CompleteAccounts ==
    ASSUME IInv, Accounts, NEW r \in Runners, Complete(r)
    PROVE  Accounts'
<1>1. PICK old : old = job[r] OBVIOUS
<1>2. old \in Job /\ old.phase = "next" /\ old.done >= Total(old)
  BY <1>1 DEF Complete, IInv, TypeOK
<1>3. PICK k : k = [old EXCEPT !.phase = "reported"] OBVIOUS
<1>4. /\ k.phase = "reported" /\ k.campaign = old.campaign /\ k.questions = old.questions
      /\ k.done = old.done /\ k.results = old.results /\ k.errors = old.errors
  BY <1>2, <1>3 DEF Job
<1>5. job' = [job EXCEPT ![r] = k] BY <1>1, <1>3 DEF Complete, IInv, TypeOK
<1> QED BY <1>1, <1>2, <1>4, <1>5, QuietStep DEF Complete

\* The run ends, in whatever way.
LEMMA LeaveAccounts ==
    ASSUME IInv, Accounts, NEW r \in Runners, FailRun(r) \/ Return(r) \/ CrashRun(r)
    PROVE  Accounts'
<1>1. PICK k : k = NoJob OBVIOUS
<1>2. k.phase = "idle" BY <1>1 DEF NoJob
<1>3. /\ job' = [job EXCEPT ![r] = k] /\ job[r].phase # "idle"
      /\ UNCHANGED <<attempts, plan>>
  BY <1>1 DEF FailRun, Return, CrashRun, campaigns
<1> QED BY <1>2, <1>3, QuietStep

\* An attempt is inserted for the current item.
LEMMA InsertAccounts ==
    ASSUME IInv, Accounts, NEW r \in Runners, InsertAttempt(r)
    PROVE  Accounts'
<1>1. PICK old : old = job[r] OBVIOUS
<1>2. PICK p, rows : p = plan[old.campaign] /\ rows = attempts' OBVIOUS
<1>3. /\ old \in Job /\ old.phase = "numbered" /\ p \in Plans \cup {NoPlan}
      /\ Accounted(attempts, p, old) /\ old.done < Total(old)
      /\ Total(old) = Len(p.revisions) * Items(p, old) /\ Total(old) \in Nat
  <2>1. job[r].phase = "numbered" /\ job[r].done < Total(job[r])
    BY DEF InsertAttempt, IInv, SaneJob
  <2> QED BY <1>1, <1>2, <2>1, RunFacts
<1>4. ItemRevision(old) = p.revisions[Place(p, old)] BY <1>2, <1>3, ItemRevisionIs
<1>5. PICK new : new = Len(attempts) + 1 OBVIOUS
<1>6. PICK row : row = [question |-> ItemQuestion(old), number |-> old.number,
                        status |-> "processing", campaign |-> old.campaign,
                        revision |-> ItemRevision(old), evidence |-> 0]
  OBVIOUS
<1>7. attempts' = Append(attempts, row) BY <1>1, <1>6 DEF InsertAttempt
<1>8. EndedRowsKept BY <1>7, AppendKeeps
<1>9. PlansKept BY DEF PlansKept, InsertAttempt, campaigns
<1>10. rows[new] = row BY <1>2, <1>5, <1>7 DEF IInv, TypeOK
<1>11. PICK k : k = [old EXCEPT !.phase = "answering", !.seen = "none", !.attempt = new]
  OBVIOUS
<1>12. /\ k.phase = "answering" /\ k.campaign = old.campaign /\ k.questions = old.questions
       /\ k.done = old.done /\ k.results = old.results /\ k.errors = old.errors
       /\ k.attempt = new
  BY <1>3, <1>11 DEF Job
<1>13. job' = [job EXCEPT ![r] = k] BY <1>1, <1>5, <1>11 DEF InsertAttempt, IInv, TypeOK
<1>14. job'[r] = k /\ \A s \in Runners \ {r} : job'[s] = job[s]
  BY <1>13 DEF IInv, TypeOK
<1>15. p = plan'[k.campaign] BY <1>2, <1>12 DEF InsertAttempt, campaigns
<1>16. Accounted(rows, p, old)
  <2>1. PICK rows0 : rows0 = attempts OBVIOUS
  <2>2. /\ DOMAIN rows0 \subseteq DOMAIN rows
        /\ \A a \in DOMAIN rows0 :
             /\ rows[a].campaign = rows0[a].campaign
             /\ rows[a].revision = rows0[a].revision
             /\ rows0[a].status = "completed" => rows[a].status = "completed"
    BY <1>2, <1>8, <2>1 DEF EndedRowsKept
  <2>3. Accounted(rows0, p, old) /\ old.phase # "answering" BY <1>3, <2>1
  <2> QED BY ONLY <2>2, <2>3, AccountedKept
<1>17. Items(p, k) = Items(p, old) /\ Count(rows, k) = Count(rows, old)
       /\ Place(p, k) = Place(p, old)
  BY <1>12 DEF Items, Count, Place
<1>18. rows[k.attempt].campaign = k.campaign
       /\ rows[k.attempt].revision = p.revisions[Place(p, k)]
  BY <1>4, <1>6, <1>10, <1>12, <1>17
<1>19. Accounted(rows, p, k) BY <1>3, <1>12, <1>16, <1>17, <1>18 DEF Accounted
<1> QED BY <1>2, <1>8, <1>9, <1>14, <1>15, <1>19, RunStep

\* The run that ends an answer, seen with the rows that it leaves.
Ending(j, p, rows, row) ==
    /\ Accounted(rows, p, j)
    /\ j \in Job /\ p \in Plans \cup {NoPlan}
    /\ j.done < Len(p.revisions) * Items(p, j)
    /\ ItemRevision(j) \in Revisions
    /\ ItemRevision(j) = p.revisions[Place(p, j)]
    /\ IsFiniteSet(j.results)
    /\ j.attempt \in DOMAIN rows /\ rows[j.attempt] = row
    /\ j.attempt \notin j.results
    /\ row.campaign = j.campaign /\ row.revision = p.revisions[Place(p, j)]

LEMMA AnsweringFacts ==
    ASSUME IInv, Accounts, NEW r \in Runners, job[r].phase = "answering",
           NEW row, attempts' = [attempts EXCEPT ![job[r].attempt] = row],
           row.campaign = attempts[job[r].attempt].campaign,
           row.revision = attempts[job[r].attempt].revision
    PROVE  Ending(job[r], plan[job[r].campaign], attempts', row) /\ EndedRowsKept
<1>0. PICK old, rows : old = job[r] /\ rows = attempts' OBVIOUS
<1>0a. PICK p : p = plan[old.campaign] OBVIOUS
<1>1. /\ old \in Job /\ old.phase = "answering" /\ p \in Plans \cup {NoPlan}
      /\ Accounted(attempts, p, old) /\ old.done < Total(old)
      /\ Total(old) = Len(p.revisions) * Items(p, old)
  <2>1. job[r].done < Total(job[r]) BY DEF IInv, SaneJob
  <2> QED BY <1>0, <1>0a, <2>1, RunFacts
<1>2. /\ old.attempt \in DOMAIN attempts /\ attempts[old.attempt].status = "processing"
  BY <1>0, RunnerRowOpen
<1>3. EndedRowsKept BY <1>0, <1>2, UpdateKeeps
<1>4. ItemRevision(old) \in Revisions /\ ItemRevision(old) = p.revisions[Place(p, old)]
  BY <1>0a, <1>1, ItemRevisionIs
<1>5. /\ IsFiniteSet(old.results) /\ old.attempt \notin old.results
      /\ row.campaign = old.campaign /\ row.revision = p.revisions[Place(p, old)]
  BY <1>0, <1>1, <1>2 DEF Accounted
<1>6. Accounted(rows, p, old)
  <2>1. PICK rows0 : rows0 = attempts OBVIOUS
  <2>2. /\ DOMAIN rows0 \subseteq DOMAIN rows
        /\ \A a \in DOMAIN rows0 :
             /\ rows[a].campaign = rows0[a].campaign
             /\ rows[a].revision = rows0[a].revision
             /\ rows0[a].status = "completed" => rows[a].status = "completed"
    BY <1>0, <1>3, <2>1 DEF EndedRowsKept
  <2>3. Accounted(rows0, p, old) /\ old.attempt \in DOMAIN rows0 BY <1>1, <1>2, <2>1
  <2> QED BY ONLY <2>2, <2>3, AccountedKept
<1>7. old.attempt \in DOMAIN rows /\ rows[old.attempt] = row
  BY <1>0, <1>2 DEF IInv, TypeOK
<1>8. Ending(old, p, rows, row) BY <1>1, <1>4, <1>5, <1>6, <1>7 DEF Ending
<1> QED BY <1>0, <1>0a, <1>3, <1>8

LEMMA AnswerAccounts ==
    ASSUME IInv, Accounts, NEW r \in Runners, Answer(r)
    PROVE  Accounts'
<1>1. PICK old, rows : old = job[r] /\ rows = attempts' OBVIOUS
<1>2. PICK p : p = plan[old.campaign] OBVIOUS
<1>3. job[r].phase = "answering" BY DEF Answer
<1>4. PICK row0 : row0 = attempts[old.attempt] OBVIOUS
<1>5. row0 \in Attempt BY <1>1, <1>3, <1>4, RunnerRowOpen
<1>6. PICK row : row = [_persist_evidence(row0) EXCEPT !.status = "completed"] OBVIOUS
<1>7. row.campaign = row0.campaign /\ row.revision = row0.revision /\ row.status = "completed"
  BY <1>5, <1>6 DEF _persist_evidence, Attempt
<1>8. attempts' = [attempts EXCEPT ![job[r].attempt] = row]
  BY <1>1, <1>4, <1>6 DEF Answer
<1>9. /\ EndedRowsKept /\ Accounted(rows, p, old)
      /\ old \in Job /\ p \in Plans \cup {NoPlan}
      /\ old.done < Len(p.revisions) * Items(p, old)
      /\ IsFiniteSet(old.results)
      /\ old.attempt \in DOMAIN rows /\ rows[old.attempt] = row
      /\ old.attempt \notin old.results
      /\ row.campaign = old.campaign /\ row.revision = p.revisions[Place(p, old)]
  <2>1. /\ row.campaign = attempts[job[r].attempt].campaign
        /\ row.revision = attempts[job[r].attempt].revision
    BY <1>1, <1>4, <1>7
  <2>2. Ending(job[r], plan[job[r].campaign], attempts', row) /\ EndedRowsKept
    BY <1>3, <1>8, <2>1, AnsweringFacts
  <2>3. Ending(old, p, rows, row) BY <1>1, <1>2, <2>2
  <2> QED BY <2>2, <2>3 DEF Ending
<1>10. PICK k : k = [old EXCEPT !.phase = "next", !.done = @ + 1,
                      !.results = @ \cup {old.attempt}, !.attempt = NoAttempt]
  OBVIOUS
<1>11. /\ k \in Job /\ k.phase = "next" /\ k.campaign = old.campaign
       /\ k.questions = old.questions /\ k.done = old.done + 1
       /\ k.results = old.results \cup {old.attempt} /\ k.errors = old.errors
  <2>1. old.done + 1 \in Nat /\ old.results \cup {old.attempt} \in SUBSET Nat
    BY <1>9 DEF Job
  <2>2. "next" \in Phases /\ NoAttempt \in Nat BY DEF Phases, NoAttempt
  <2> QED BY <1>9, <1>10, <2>1, <2>2 DEF Job
<1>12. IsFiniteSet(k.results) BY <1>9, <1>11, FS_AddElement
<1>13. \A v \in Revisions : Count(rows, k)[v] =
           Count(rows, old)[v] + (IF v = p.revisions[Place(p, old)] THEN 1 ELSE 0)
  <2> SUFFICES ASSUME NEW v \in Revisions
               PROVE  Count(rows, k)[v] =
                        Count(rows, old)[v] + (IF v = p.revisions[Place(p, old)] THEN 1 ELSE 0)
    OBVIOUS
  <2>1. PICK a : a = old.attempt OBVIOUS
  <2>2. a \notin old.results /\ k.results = old.results \cup {a} BY <1>9, <1>11, <2>1
  <2>3. Count(rows, k)[v] = Count(rows, old)[v] + (IF v = rows[a].revision THEN 1 ELSE 0)
    BY <1>9, <1>11, <2>2, CountResult
  <2> QED BY <1>9, <2>1, <2>3
<1>14. \A a \in k.results \ old.results : /\ a \in DOMAIN rows
                                          /\ rows[a].status = "completed"
                                          /\ rows[a].campaign = old.campaign
  BY <1>7, <1>9, <1>11
<1>15. old.phase \notin {"idle", "failing"} BY <1>1, <1>3
<1>16. Accounted(rows, p, k)
  BY ONLY <1>9, <1>11, <1>12, <1>13, <1>14, <1>15, AccountedEnded
<1>17. job' = [job EXCEPT ![r] = k] BY <1>1, <1>10 DEF Answer, IInv, TypeOK
<1>18. k = job'[r] /\ \A s \in Runners \ {r} : job'[s] = job[s]
  BY <1>17 DEF IInv, TypeOK
<1>19. p = plan'[k.campaign] /\ PlansKept
  BY <1>2, <1>11 DEF Answer, campaigns, PlansKept
<1> QED BY <1>1, <1>9, <1>16, <1>18, <1>19, RunStep

LEMMA FailAnswerAccounts ==
    ASSUME IInv, Accounts, NEW r \in Runners, FailAnswer(r)
    PROVE  Accounts'
<1>1. PICK old, rows : old = job[r] /\ rows = attempts' OBVIOUS
<1>2. PICK p : p = plan[old.campaign] OBVIOUS
<1>3. job[r].phase = "answering" BY DEF FailAnswer
<1>4. PICK row0 : row0 = attempts[old.attempt] OBVIOUS
<1>5. row0 \in Attempt BY <1>1, <1>3, <1>4, RunnerRowOpen
<1>6. PICK row : row = FailedAttempt(row0) OBVIOUS
<1>7. row.campaign = row0.campaign /\ row.revision = row0.revision
  BY <1>5, <1>6 DEF FailedAttempt, Attempt
<1>8. attempts' = [attempts EXCEPT ![job[r].attempt] = row]
  BY <1>1, <1>4, <1>6 DEF FailAnswer
<1>9. PICK e : e = ItemRevision(old) OBVIOUS
<1>10. /\ EndedRowsKept /\ Accounted(rows, p, old)
       /\ old \in Job /\ p \in Plans \cup {NoPlan}
       /\ old.done < Len(p.revisions) * Items(p, old)
       /\ e \in Revisions /\ e = p.revisions[Place(p, old)]
  <2>1. /\ row.campaign = attempts[job[r].attempt].campaign
        /\ row.revision = attempts[job[r].attempt].revision
    BY <1>1, <1>4, <1>7
  <2>2. Ending(job[r], plan[job[r].campaign], attempts', row) /\ EndedRowsKept
    BY <1>3, <1>8, <2>1, AnsweringFacts
  <2>3. Ending(old, p, rows, row) BY <1>1, <1>2, <2>2
  <2> QED BY <1>9, <2>2, <2>3 DEF Ending
<1>11. PICK k : k = Recorded(old) OBVIOUS
<1>12. /\ k \in Job /\ k.phase = "next" /\ k.campaign = old.campaign
       /\ k.questions = old.questions /\ k.done = old.done + 1
       /\ k.results = old.results /\ k.errors = [old.errors EXCEPT ![e] = @ + 1]
  BY <1>9, <1>10, <1>11, RecordedType, RecordedFields
<1>13. old.phase \notin {"idle", "failing"} BY <1>1, <1>3
<1>14. Accounted(rows, p, k) BY ONLY <1>10, <1>12, <1>13, AccountedError
<1>15. job' = [job EXCEPT ![r] = k] BY <1>1, <1>11 DEF FailAnswer
<1>16. k = job'[r] /\ \A s \in Runners \ {r} : job'[s] = job[s]
  BY <1>15 DEF IInv, TypeOK
<1>17. p = plan'[k.campaign] /\ PlansKept
  BY <1>2, <1>12 DEF FailAnswer, campaigns, PlansKept
<1> QED BY <1>1, <1>10, <1>14, <1>16, <1>17, RunStep

\* What nobody does for a run.
LEMMA ElsewhereAccounts ==
    ASSUME IInv, Accounts,
           \/ \E q \in Questions :
                \/ CreateQuestion(q) \/ remove_question(q)
                \/ \E n \in 1 .. MaxPosition : add_question(q, n)
                \/ \E p \in Askers : Ask(p, q)
           \/ \E c \in Campaigns, p \in Plans : create(c, p)
           \/ \E p \in Askers : AdvanceAsk(p) \/ CrashAsk(p)
    PROVE  Accounts'
<1>1. ASSUME NEW c \in Campaigns, NEW p \in Plans, create(c, p) PROVE Accounts'
  <2>1. EndedRowsKept BY <1>1 DEF EndedRowsKept, create
  <2>2. PlansKept BY <1>1 DEF PlansKept, create
  <2>3. job' = job BY <1>1 DEF create
  <2> QED BY <2>1, <2>2, <2>3, OthersStep
<1>2. ASSUME NEW p \in Askers, create_attempt(p) PROVE Accounts'
  <2>1. PICK row : attempts' = Append(attempts, row) BY <1>2 DEF create_attempt
  <2>2. EndedRowsKept BY <2>1, AppendKeeps
  <2>3. PlansKept /\ job' = job BY <1>2 DEF PlansKept, create_attempt, campaigns
  <2> QED BY <2>2, <2>3, OthersStep
<1>3. ASSUME NEW p \in Askers, add_evidence(p) PROVE Accounts'
  <2>1. PICK own : own = ask[p].attempt OBVIOUS
  <2>2. PICK row0 : row0 = attempts[own] OBVIOUS
  <2>3. own \in DOMAIN attempts /\ attempts[own].status = "processing" /\ row0 \in Attempt
    BY <1>3, <2>1, <2>2, AskerRowOpen DEF add_evidence
  <2>4. PICK row : row = [row0 EXCEPT !.evidence = @ + 1] OBVIOUS
  <2>5. row.campaign = attempts[own].campaign /\ row.revision = attempts[own].revision
    BY <2>2, <2>3, <2>4 DEF Attempt
  <2>6. attempts' = [attempts EXCEPT ![own] = row] BY <1>3, <2>1, <2>2, <2>4 DEF add_evidence
  <2>7. EndedRowsKept BY <2>3, <2>5, <2>6, UpdateKeeps
  <2>8. PlansKept /\ job' = job BY <1>3 DEF PlansKept, add_evidence, campaigns
  <2> QED BY <2>7, <2>8, OthersStep
<1>4. ASSUME NEW p \in Askers, NEW s \in {"resolved", "unresolved"}, complete_attempt(p, s)
      PROVE  Accounts'
  <2>1. PICK own : own = ask[p].attempt OBVIOUS
  <2>2. PICK row0 : row0 = attempts[own] OBVIOUS
  <2>3. own \in DOMAIN attempts /\ attempts[own].status = "processing" /\ row0 \in Attempt
    BY <1>4, <2>1, <2>2, AskerRowOpen DEF complete_attempt
  <2>4. PICK row : row = [row0 EXCEPT !.status = s] OBVIOUS
  <2>5. row.campaign = attempts[own].campaign /\ row.revision = attempts[own].revision
    BY <2>2, <2>3, <2>4 DEF Attempt
  <2>6. attempts' = [attempts EXCEPT ![own] = row]
    BY <1>4, <2>1, <2>2, <2>4 DEF complete_attempt
  <2>7. EndedRowsKept BY <2>3, <2>5, <2>6, UpdateKeeps
  <2>8. PlansKept /\ job' = job BY <1>4 DEF PlansKept, complete_attempt, campaigns
  <2> QED BY <2>7, <2>8, OthersStep
<1>5. ASSUME UNCHANGED <<attempts, plan, job>> PROVE Accounts'
  <2>1. EndedRowsKept /\ PlansKept BY <1>5, QuietKeeps
  <2> QED BY <1>5, <2>1, OthersStep
<1>6. ASSUME NEW q \in Questions,
             \/ CreateQuestion(q) \/ remove_question(q)
             \/ \E n \in 1 .. MaxPosition : add_question(q, n)
             \/ \E p \in Askers : Ask(p, q)
      PROVE  UNCHANGED <<attempts, plan, job>>
  BY <1>6 DEF CreateQuestion, remove_question, add_question, Ask, campaigns
<1>7. ASSUME NEW p \in Askers, CrashAsk(p) PROVE UNCHANGED <<attempts, plan, job>>
  BY <1>7 DEF CrashAsk, campaigns
<1> QED BY <1>1, <1>2, <1>3, <1>4, <1>5, <1>6, <1>7 DEF AdvanceAsk

LEMMA InitAccounts == Init => Accounts
BY DEF Init, Accounts, Accounted, NoJob

LEMMA StepAccounts == IInv /\ Accounts /\ [Next]_vars => Accounts'
<1> SUFFICES ASSUME IInv, Accounts, [Next]_vars PROVE Accounts' OBVIOUS
<1>1. CASE UNCHANGED vars
  <2>1. UNCHANGED <<attempts, plan, job>> BY <1>1 DEF vars, campaigns
  <2>2. EndedRowsKept /\ PlansKept BY <2>1, QuietKeeps
  <2> QED BY <2>1, <2>2, OthersStep
<1>2. ASSUME NEW c \in Campaigns, NEW r \in Runners, Start(r, c) PROVE Accounts'
  BY <1>2, StartAccounts
<1>3. ASSUME NEW r \in Runners, Advance(r) \/ CrashRun(r) PROVE Accounts'
  BY <1>3, BeginAccounts, UnpreparedAccounts, PrepareAccounts, InsertAccounts,
     RefuseAccounts, AnswerAccounts, FailAnswerAccounts, CompleteAccounts, LeaveAccounts
     DEF Advance
<1>4. CASE \/ \E q \in Questions :
                \/ CreateQuestion(q) \/ remove_question(q)
                \/ \E n \in 1 .. MaxPosition : add_question(q, n)
                \/ \E p \in Askers : Ask(p, q)
           \/ \E c \in Campaigns, p \in Plans : create(c, p)
           \/ \E p \in Askers : AdvanceAsk(p) \/ CrashAsk(p)
  BY <1>4, ElsewhereAccounts
<1> QED BY <1>1, <1>2, <1>3, <1>4 DEF Next

\* What is true of a run at its end is what run_campaign returns.
LEMMA AccountsReported ==
    ASSUME IInv, Accounts
    PROVE  ReportAccounts
<1> SUFFICES ASSUME NEW r \in Runners, job[r].phase = "reported"
             PROVE  /\ \A a \in job[r].results : /\ attempts[a].status = "completed"
                                                 /\ attempts[a].campaign = job[r].campaign
                    /\ \A v \in Revisions :
                         _configuration_aggregate(job[r], v).completed
                           + _configuration_aggregate(job[r], v).failed
                           = _configuration_aggregate(job[r], v).total
  BY DEF ReportAccounts
<1>1. PICK j, rows : j = job[r] /\ rows = attempts OBVIOUS
<1>2. PICK p : p = plan[j.campaign] OBVIOUS
<1>3. j.phase = "reported" /\ p \in Plans \cup {NoPlan} /\ Accounted(rows, p, j)
  BY <1>1, <1>2, RunFacts
<1>4. /\ \A a \in j.results : rows[a].status = "completed" /\ rows[a].campaign = j.campaign
      /\ Tally(p, Items(p, j), Len(p.revisions) * Items(p, j), Count(rows, j))
  BY <1>3 DEF Accounted
<1>5. ASSUME NEW v \in Revisions
      PROVE  _configuration_aggregate(j, v).completed + _configuration_aggregate(j, v).failed
               = _configuration_aggregate(j, v).total
  <2>1. Items(p, j) \in Nat
    <3>1. j \in Job BY <1>1 DEF IInv, TypeOK
    <3>2. Len(j.questions) \in Nat BY <3>1 DEF Job
    <3>3. p.repetitions \in Nat BY <1>3, PlanType
    <3> QED BY <3>2, <3>3 DEF Items
  <2>2. Count(rows, j)[v] =
          IF \E k \in DOMAIN p.revisions : p.revisions[k] = v THEN Items(p, j) ELSE 0
    BY <1>3, <1>4, <2>1, TallyEnd
  <2>3. Count(rows, j)[v] = _configuration_aggregate(j, v).completed
                              + _configuration_aggregate(j, v).failed
    BY <1>1 DEF Count, _configuration_aggregate
  <2>4. _configuration_aggregate(j, v).total =
          IF \E k \in DOMAIN p.revisions : p.revisions[k] = v THEN Items(p, j) ELSE 0
    BY <1>2 DEF _configuration_aggregate, Items
  <2> QED BY <2>2, <2>3, <2>4
<1> QED BY <1>1, <1>4, <1>5

\* The aggregates that run_campaign returns add up to the plan, revision by
\* revision, and its results are completed attempts of the campaign, for any
\* number of overlapping runs, revisions, questions and repetitions.
THEOREM ReportsAddUp == Spec => []ReportAccounts
<1>1. Init => Accounts BY InitAccounts
<1>2. IInv /\ Accounts /\ [Next]_vars => Accounts' BY StepAccounts
<1>3. IInv /\ Accounts => ReportAccounts BY AccountsReported
<1> QED BY <1>1, <1>2, <1>3, Invariance, PTL DEF Spec
=============================================================================
