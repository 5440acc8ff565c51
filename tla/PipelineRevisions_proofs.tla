----------------------- MODULE PipelineRevisions_proofs -----------------------
(***************************************************************************)
(* PipelineRevisions for every number of requests, revisions and           *)
(* compositions.                                                           *)
(***************************************************************************)
EXTENDS PipelineRevisions, TLAPS

Idle(v) == v.phase \in {"idle", "done", "blocked"}

\* What the record of a save tells of the tables.
SaneSave(v) ==
    /\ v \in SaveRecords
    /\ Idle(v) => v.row = NoRow
    /\ ~Idle(v) => v.reason \in Reasons
    /\ v.phase = "load" =>
         (v.target = 0 <=> v.row = NoRow) /\ v.old = {} /\ v.source \in Numbers
    /\ v.phase = "numbered" => v.row = NoRow /\ v.old = {}
    /\ v.phase \in {"ready", "selected"} => v.row # NoRow
    /\ v.phase \in {"numbered", "ready", "selected", "written"} =>
         v.target \in Numbers /\ v.comp \in Compositions
    /\ v.row # NoRow => v.target \in Committed
    /\ v.phase = "written" =>
         /\ bindings[v.target] \subseteq v.old
         /\ v.target \notin traced
         /\ v.row = NoRow => v.target \notin Committed
    /\ NothingActivated => (v.row # NoRow => v.target \in Drafts)
    /\ OneAtATime => (v.row # NoRow => v.row.hash = hash[v.target])

\* Two uncommitted sets of rows are never of one revision.
Exclusive ==
    \A s, t \in Savers :
      s # t /\ saver[s].phase = "written" /\ saver[t].phase = "written"
          => saver[s].target # saver[t].target

InTurn == OneAtATime => \A s, t \in Savers : InFlight(s) /\ InFlight(t) => s = t

\* Until an activation, what is active stays as the view found it.
ViewsCurrent ==
    NothingActivated =>
      /\ \A n \in Active : \A rows \in bindings[n] : rows.comp = hash[n]
      /\ \A v \in Views : view[v].phase = "found" =>
           view[v].revision \in Active /\ view[v].read = hash[view[v].revision]
      /\ ProductionLoads

\* An activation is of committed revisions; a request for one that is not
\* active writes its status.
ActivationsWrite ==
    /\ \A a \in Activators :
         /\ activator[a].others \subseteq Committed
         /\ activator[a].phase \in {"loaded", "selected"} =>
              /\ activator[a].revision \in Committed
              /\ Reactivation \/ activator[a].loaded # "active"
    /\ Reactivation \/ OneActive

IInv ==
    /\ TypeOK
    /\ \A s \in Savers : SaneSave(saver[s])
    /\ Exclusive
    /\ InTurn
    /\ OneComposition
    /\ StepsKeepLinks
    /\ OneAtATime => HashMatches
    /\ ViewsCurrent
    /\ ActivationsWrite

-----------------------------------------------------------------------------
LEMMA NoSaveSane == SaneSave(NoSave) /\ Idle(NoSave) /\ NoSave \in SaveRecords
<1>1. NoSave \in SaveRecords
  BY DEF NoSave, SaveRecords, NoRow
<1> QED
  BY <1>1 DEF NoSave, SaneSave, Idle

LEMMA InitIInv == Init => IInv
<1> SUFFICES ASSUME Init PROVE IInv
  OBVIOUS
<1>1. PICK c \in Compositions, d \in Compositions :
        /\ hash = [n \in Numbers |-> IF n = 2 THEN d ELSE c]
        /\ bindings = [n \in Numbers |-> IF n <= 2 THEN {Rows(Seed, hash[n])} ELSE {}]
  BY DEF Init
<1>2. hash \in [Numbers -> Compositions]
  BY <1>1
<1>3. bindings \in [Numbers -> SUBSET [by : Savers \cup {Seed}, comp : Compositions]]
  BY <1>1, <1>2 DEF Rows
<1>4. status \in [Numbers -> {"absent", "draft", "active", "retired"}]
      /\ \A n \in Numbers : status[n] = IF n = 1 THEN "active" ELSE IF n = 2 THEN "draft" ELSE "absent"
  BY DEF Init
<1>5. reason \in [Numbers -> Reasons]
  BY DEF Init, Reasons
<1>6. uuid \in [Numbers -> Numbers]
  BY OrdersAssumption DEF Init
<1>7. \A s \in Savers : saver[s] = NoSave
  BY DEF Init
<1>8. saver \in [Savers -> SaveRecords]
  BY NoSaveSane DEF Init
<1>9. TypeOK
  BY <1>2, <1>3, <1>4, <1>5, <1>6, <1>8 DEF Init, TypeOK, NoActivation, NoView
<1>10. (\A s \in Savers : SaneSave(saver[s])) /\ Exclusive /\ InTurn
  BY <1>7, NoSaveSane DEF Exclusive, InTurn, InFlight, NoSave
<1>11. OneComposition
  <2>1. ASSUME NEW n \in Numbers
        PROVE  IF status[n] = "absent" THEN bindings[n] = {}
               ELSE \E rows \in bindings[n] : bindings[n] = {rows}
    <3>1. n <= 2 <=> n = 1 \/ n = 2
      BY NumbersAssumption
    <3> QED
      BY <1>1, <1>4, <3>1
  <2> QED
    BY <2>1 DEF OneComposition
<1>12. StepsKeepLinks
  BY DEF Init, StepsKeepLinks
<1>13. HashMatches
  BY <1>1 DEF HashMatches, Rows
<1>14. ViewsCurrent
  BY <1>13 DEF Init, ViewsCurrent, HashMatches, Active, ProductionLoads, NoView
<1>15. Active = {1}
  BY <1>4, NumbersAssumption DEF Active
<1>16. ActivationsWrite
  BY <1>15, NumbersAssumption DEF Init, ActivationsWrite, OneActive, NoActivation
<1> QED
  BY <1>9, <1>10, <1>11, <1>12, <1>13, <1>14, <1>16 DEF IInv

-----------------------------------------------------------------------------
(***************************************************************************)
(* A save, until its commit, writes its own record only.                   *)
(***************************************************************************)
LEMMA SaverMoves ==
  ASSUME IInv, NEW s \in Savers, NEW c,
         saver' = [saver EXCEPT ![s] = c], SavesUnchanged,
         SaneSave(c),
         c.phase = "written" => Alone(s) /\ c.target = saver[s].target,
         ~Idle(c) => InFlight(s) \/ MayStart(s)
  PROVE  IInv'
<1>1. c \in SaveRecords
  BY DEF SaneSave
<1>2. \A t \in Savers : saver'[t] = IF t = s THEN c ELSE saver[t]
  BY DEF IInv, TypeOK
<1>3. TypeOK'
  BY <1>1 DEF IInv, TypeOK, SavesUnchanged
<1>4. \A t \in Savers : SaneSave(saver[t])'
  BY <1>2 DEF IInv, SaneSave, SavesUnchanged, Committed, Drafts, Idle, NothingActivated
<1>5. Exclusive'
  BY <1>2 DEF IInv, Exclusive, Alone
<1>6. InTurn'
  BY <1>2 DEF IInv, InTurn, InFlight, MayStart, Idle
<1>7. OneComposition' /\ StepsKeepLinks' /\ HashMatches' = HashMatches
  BY DEF IInv, SavesUnchanged, OneComposition, StepsKeepLinks, HashMatches
<1>8. ViewsCurrent' /\ ActivationsWrite'
  BY DEF IInv, SavesUnchanged, ViewsCurrent, ActivationsWrite, Active, Committed, ProductionLoads, NothingActivated,
     OneActive
<1> QED
  BY <1>3, <1>4, <1>5, <1>6, <1>7, <1>8 DEF IInv

\* A request that ends without a commit.
LEMMA EndedIInv ==
  ASSUME IInv, NEW s \in Savers, NEW phase \in {"done", "blocked"},
         Ended(s, phase), SavesUnchanged
  PROVE  IInv'
<1> DEFINE c == [NoSave EXCEPT !.phase = phase]
<1>1. c \in SaveRecords /\ Idle(c) /\ c.row = NoRow
  BY NoSaveSane DEF NoSave, Idle, SaveRecords
<1>2. SaneSave(c) /\ c.phase # "written"
  BY <1>1 DEF SaneSave, Idle
<1>3. saver' = [saver EXCEPT ![s] = c]
  BY DEF Ended
<1> HIDE DEF c
<1> QED
  BY <1>1, <1>2, <1>3, SaverMoves

\* A request that starts, or starts over with the draft it finds late.
LEMMA FoundIInv ==
  ASSUME IInv, NEW s \in Savers, InFlight(s) \/ MayStart(s), SavesUnchanged,
         NEW target \in Drafts \cup {0}, NEW source \in Committed \cup {0},
         target # 0 \/ source # 0,
         NEW comp \in Compositions \cup {"none"}, source = 0 => comp \in Compositions,
         NEW r \in Reasons,
         saver' = [saver EXCEPT ![s] = Found(target, source, comp, r)]
  PROVE  IInv'
<1> DEFINE c == Found(target, source, comp, r)
<1>1. target \in Numbers \cup {0} /\ source \in Numbers \cup {0}
  BY DEF Drafts, Committed
<1>2. 0 \notin Numbers /\ "none" \notin Reasons
  BY NumbersAssumption DEF Reasons
<1>3. target # 0 => /\ [hash |-> hash[target], reason |-> reason[target]] # NoRow
                    /\ [hash |-> hash[target], reason |-> reason[target]] \in
                         [hash : Compositions, reason : Reasons]
  BY <1>1, <1>2 DEF IInv, TypeOK, NoRow
<1>4. source # 0 => hash[source] \in Compositions
  BY <1>1 DEF IInv, TypeOK
<1>5. c \in SaveRecords
  BY <1>1, <1>3, <1>4 DEF Found, SaveRecords
<1>6. /\ c.phase = IF source = 0 THEN "ready" ELSE "load"
      /\ c.target = target /\ c.source = source /\ c.comp = comp /\ c.reason = r /\ c.old = {}
      /\ c.row = IF target = 0 THEN NoRow ELSE [hash |-> hash[target], reason |-> reason[target]]
  BY DEF Found
<1>7. c.row # NoRow <=> target # 0
  BY <1>3, <1>6
<1>8. c.row # NoRow => c.target \in Drafts /\ c.row.hash = hash[c.target]
  BY <1>6, <1>7
<1>9. Drafts \subseteq Committed
  BY DEF Drafts, Committed
<1> HIDE DEF c
<1>10. ~Idle(c) /\ c.phase \in {"ready", "load"}
  BY <1>6 DEF Idle
<1>11. SaneSave(c)
  BY <1>1, <1>5, <1>6, <1>7, <1>8, <1>9, <1>10, <1>2 DEF SaneSave
<1>12. saver' = [saver EXCEPT ![s] = c]
  BY DEF c
<1> QED
  BY <1>10, <1>11, <1>12, SaverMoves

\* A request that goes on to the next phase of its own record.
LEMMA AdvanceIInv ==
  ASSUME IInv, NEW s \in Savers, InFlight(s), SavesUnchanged,
         NEW c, saver' = [saver EXCEPT ![s] = c], SaneSave(c),
         c.phase = "written" => Alone(s) /\ c.target = saver[s].target
  PROVE  IInv'
BY SaverMoves

LEMMA StartsIInv ==
  ASSUME IInv, NEW s \in Savers,
         FindDraft(s) \/ FindForReset(s) \/ FindForNew(s) \/ LateDraft(s)
  PROVE  IInv'
<1>1. /\ Active \subseteq Committed /\ Drafts \subseteq Committed
      /\ {"lab", "reset", "new"} \subseteq Reasons /\ 0 \notin Numbers
      /\ Committed \subseteq Numbers
  BY NumbersAssumption DEF Active, Drafts, Committed, Reasons
<1>2. CASE FindDraft(s)
  <2>1. ASSUME NEW d \in Numbers, NEW c \in Compositions, IsDraft(d),
               saver' = [saver EXCEPT ![s] = Found(d, 0, c, "lab")]
        PROVE  IInv'
    BY <1>1, <1>2, <2>1, FoundIInv DEF FindDraft, IsDraft
  <2>2. ASSUME NEW d \in Numbers, IsDraft(d),
               saver' = [saver EXCEPT ![s] = Found(d, d, "none", "lab")]
        PROVE  IInv'
    BY <1>1, <1>2, <2>2, FoundIInv DEF FindDraft, IsDraft
  <2>3. ASSUME NEW n \in Active, NEW c \in Compositions \cup {"none"},
               saver' = [saver EXCEPT ![s] = Found(0, n, c, "lab")]
        PROVE  IInv'
    BY <1>1, <1>2, <2>3, FoundIInv DEF FindDraft
  <2> QED
    BY <1>2, <2>1, <2>2, <2>3 DEF FindDraft
<1>3. CASE FindForReset(s)
  BY <1>1, <1>3, FoundIInv DEF FindForReset, IsDraft
<1>4. CASE FindForNew(s)
  BY <1>1, <1>4, FoundIInv DEF FindForNew, IsDraft
<1>5. CASE LateDraft(s)
  <2>1. PICK d \in Numbers, rows \in bindings[saver[s].source] :
          /\ IsDraft(d)
          /\ rows.comp = saver[s].read
          /\ saver' = [saver EXCEPT ![s] =
               IF saver[s].reason = "reset" THEN Found(d, 0, rows.comp, "reset")
               ELSE Found(d, IF saver[s].comp = "none" THEN d ELSE 0, saver[s].comp, "lab")]
    BY <1>5 DEF LateDraft
  <2>2. InFlight(s) /\ SavesUnchanged /\ saver[s].phase = "load"
    BY <1>5 DEF LateDraft, InFlight
  <2>3. saver[s].source \in Numbers /\ saver[s].comp \in Compositions \cup {"none"}
    BY <2>2 DEF IInv, TypeOK, SaneSave, SaveRecords
  <2>4. rows.comp \in Compositions
    BY <2>1, <2>3 DEF IInv, TypeOK
  <2>5. d \in Drafts /\ d # 0
    BY <1>1, <2>1 DEF IsDraft
  <2>6. CASE saver[s].reason = "reset"
    BY <1>1, <2>1, <2>2, <2>4, <2>5, <2>6, FoundIInv
  <2>7. CASE saver[s].reason # "reset" /\ saver[s].comp = "none"
    BY <1>1, <2>1, <2>2, <2>5, <2>7, FoundIInv
  <2>8. CASE saver[s].reason # "reset" /\ saver[s].comp # "none"
    BY <1>1, <2>1, <2>2, <2>3, <2>5, <2>8, FoundIInv
  <2> QED
    BY <2>6, <2>7, <2>8
<1> QED
  BY <1>2, <1>3, <1>4, <1>5

LEMMA AdvancesIInv ==
  ASSUME IInv, NEW s \in Savers,
         LoadManifest(s) \/ InsertRevision(s) \/ UpdateRow(s) \/ ReplaceBindings(s) \/ SaveFails(s)
  PROVE  IInv'
<1>1. SaneSave(saver[s]) /\ saver[s] \in SaveRecords
  BY DEF IInv, SaneSave
<1>2. CASE LoadManifest(s)
  <2>1. InFlight(s) /\ SavesUnchanged /\ saver[s].phase = "load" /\ saver[s].source \in Numbers
    BY <1>1, <1>2 DEF LoadManifest, InFlight, SaneSave
  <2>2. PICK rows \in bindings[saver[s].source] :
          IF rows.comp # saver[s].read
          THEN Ended(s, "done")
          ELSE LET comp == IF saver[s].comp = "none" THEN rows.comp ELSE saver[s].comp IN
               IF saver[s].target = 0
               THEN \E n \in Numbers :
                      /\ IsNext(n)
                      /\ saver' = [saver EXCEPT ![s].phase = "numbered",
                                                ![s].target = n, ![s].comp = comp]
               ELSE saver' = [saver EXCEPT ![s].phase = "ready", ![s].comp = comp]
    BY <1>2 DEF LoadManifest
  <2> DEFINE comp == IF saver[s].comp = "none" THEN rows.comp ELSE saver[s].comp
  <2>3. comp \in Compositions
    BY <1>1, <2>1 DEF IInv, TypeOK, SaveRecords
  <2> HIDE DEF comp
  <2>4. CASE rows.comp # saver[s].read
    BY <2>1, <2>2, <2>4, EndedIInv
  <2>5. CASE rows.comp = saver[s].read /\ saver[s].target = 0
    <3>1. PICK n \in Numbers :
            saver' = [saver EXCEPT ![s].phase = "numbered", ![s].target = n, ![s].comp = comp]
      BY <2>2, <2>5 DEF comp
    <3> DEFINE c == [saver[s] EXCEPT !.phase = "numbered", !.target = n, !.comp = comp]
    <3>2. /\ c \in SaveRecords /\ c.phase = "numbered" /\ c.target = n /\ c.comp = comp
          /\ c.row = saver[s].row /\ c.old = saver[s].old /\ c.reason = saver[s].reason
      BY <1>1, <2>3 DEF SaveRecords
    <3>3. saver' = [saver EXCEPT ![s] = c]
      BY <3>1 DEF IInv, TypeOK
    <3> HIDE DEF c
    <3>4. SaneSave(c)
      BY <1>1, <2>1, <2>3, <2>5, <3>2 DEF SaneSave, Idle
    <3> QED
      BY <2>1, <3>2, <3>3, <3>4, AdvanceIInv
  <2>6. CASE rows.comp = saver[s].read /\ saver[s].target # 0
    <3> DEFINE c == [saver[s] EXCEPT !.phase = "ready", !.comp = comp]
    <3>1. /\ c \in SaveRecords /\ c.phase = "ready" /\ c.target = saver[s].target /\ c.comp = comp
          /\ c.row = saver[s].row /\ c.old = saver[s].old /\ c.reason = saver[s].reason
      BY <1>1, <2>3 DEF SaveRecords
    <3>2. saver' = [saver EXCEPT ![s] = c]
      BY <2>2, <2>6 DEF IInv, TypeOK, comp
    <3>3. saver[s].target \in Numbers
      BY <1>1, <2>6 DEF SaveRecords
    <3> HIDE DEF c
    <3>4. SaneSave(c)
      BY <1>1, <2>1, <2>3, <2>6, <3>1, <3>3 DEF SaneSave, Idle
    <3> QED
      BY <2>1, <3>1, <3>2, <3>4, AdvanceIInv
  <2> QED
    BY <2>4, <2>5, <2>6
<1>3. CASE InsertRevision(s)
  <2>1. InFlight(s) /\ SavesUnchanged /\ saver[s].phase = "numbered" /\ Alone(s)
    BY <1>3 DEF InsertRevision, InFlight
  <2>2. CASE status[saver[s].target] = "absent"
    <3> DEFINE c == [saver[s] EXCEPT !.phase = "written"]
    <3>1. /\ c \in SaveRecords /\ c.phase = "written" /\ c.target = saver[s].target
          /\ c.comp = saver[s].comp /\ c.row = saver[s].row /\ c.old = saver[s].old
          /\ c.reason = saver[s].reason
      BY <1>1 DEF SaveRecords
    <3>2. saver' = [saver EXCEPT ![s] = c]
      BY <1>3, <2>2 DEF InsertRevision, IInv, TypeOK
    <3>3. saver[s].target \in Numbers /\ bindings[saver[s].target] = {}
      BY <1>1, <2>1, <2>2 DEF IInv, SaneSave, OneComposition
    <3>4. saver[s].target \notin traced
      BY <3>3 DEF IInv, StepsKeepLinks
    <3>5. saver[s].target \notin Committed
      BY <2>2 DEF Committed
    <3> HIDE DEF c
    <3>6. SaneSave(c)
      BY <1>1, <2>1, <3>1, <3>3, <3>4, <3>5 DEF SaneSave, Idle
    <3> QED
      BY <2>1, <3>1, <3>2, <3>6, AdvanceIInv
  <2>3. CASE status[saver[s].target] # "absent"
    BY <1>3, <2>1, <2>3, EndedIInv DEF InsertRevision
  <2> QED
    BY <2>2, <2>3
<1>4. CASE UpdateRow(s)
  <2>1. InFlight(s) /\ SavesUnchanged /\ saver[s].phase = "ready"
    BY <1>4 DEF UpdateRow, InFlight
  <2> DEFINE c == [saver[s] EXCEPT !.phase = "selected", !.old = bindings[saver[s].target]]
  <2>2. bindings[saver[s].target] \in SUBSET [by : Savers \cup {Seed}, comp : Compositions]
    BY <1>1, <2>1 DEF IInv, TypeOK, SaneSave
  <2>3. /\ c \in SaveRecords /\ c.phase = "selected" /\ c.target = saver[s].target
        /\ c.comp = saver[s].comp /\ c.row = saver[s].row /\ c.reason = saver[s].reason
    BY <1>1, <2>2 DEF SaveRecords
  <2>4. saver' = [saver EXCEPT ![s] = c]
    BY <1>4 DEF UpdateRow, IInv, TypeOK
  <2> HIDE DEF c
  <2>5. SaneSave(c)
    BY <1>1, <2>1, <2>3 DEF SaneSave, Idle
  <2> QED
    BY <2>1, <2>3, <2>4, <2>5, AdvanceIInv
<1>5. CASE ReplaceBindings(s)
  <2>1. InFlight(s) /\ SavesUnchanged /\ saver[s].phase = "selected" /\ Alone(s)
    BY <1>5 DEF ReplaceBindings, InFlight
  <2>2. CASE Ended(s, "blocked") \/ Ended(s, "done")
    BY <2>1, <2>2, EndedIInv
  <2>3. CASE ~LinksReferenced(s) /\ PositionsFree(s)
             /\ saver' = [saver EXCEPT ![s].phase = "written"]
    <3> DEFINE c == [saver[s] EXCEPT !.phase = "written"]
    <3>1. /\ c \in SaveRecords /\ c.phase = "written" /\ c.target = saver[s].target
          /\ c.comp = saver[s].comp /\ c.row = saver[s].row /\ c.old = saver[s].old
          /\ c.reason = saver[s].reason
      BY <1>1 DEF SaveRecords
    <3>2. saver' = [saver EXCEPT ![s] = c]
      BY <2>3 DEF IInv, TypeOK
    <3>3. saver[s].target \in Numbers /\ bindings[saver[s].target] \subseteq saver[s].old
      BY <1>1, <2>1, <2>3 DEF SaneSave, PositionsFree
    <3>4. saver[s].target \notin traced
      BY <2>3, <3>3 DEF IInv, StepsKeepLinks, LinksReferenced
    <3> HIDE DEF c
    <3>5. SaneSave(c)
      BY <1>1, <2>1, <3>1, <3>3, <3>4 DEF SaneSave, Idle
    <3> QED
      BY <2>1, <3>1, <3>2, <3>5, AdvanceIInv
  <2> QED
    BY <1>5, <2>2, <2>3 DEF ReplaceBindings
<1>6. CASE SaveFails(s)
  BY <1>6, EndedIInv DEF SaveFails
<1> QED
  BY <1>2, <1>3, <1>4, <1>5, <1>6

-----------------------------------------------------------------------------
(***************************************************************************)
(* The commit of a save writes one revision: a new one, or one whose rows  *)
(* nobody else has replaced.                                               *)
(***************************************************************************)
LEMMA CommitIInv ==
  ASSUME IInv, NEW s \in Savers, Commit(s)
  PROVE  IInv'
<1> DEFINE n == saver[s].target
           comp == saver[s].comp
           c == [NoSave EXCEPT !.phase = "done"]
<1>1. SaneSave(saver[s]) /\ saver[s] \in SaveRecords /\ saver[s].phase = "written"
  BY DEF IInv, SaneSave, Commit
<1>2. /\ n \in Numbers /\ comp \in Compositions /\ saver[s].reason \in Reasons
      /\ bindings[n] \subseteq saver[s].old /\ n \notin traced
      /\ IsNew(s) <=> n \notin Committed
  BY <1>1 DEF SaneSave, Idle, IsNew
<1>3. \A m \in Numbers : m # n =>
        status'[m] = status[m] /\ hash'[m] = hash[m] /\ bindings'[m] = bindings[m]
  BY DEF Commit, IInv, TypeOK
<1>4. /\ status'[n] = IF n \in Committed THEN status[n] ELSE "draft"
      /\ hash'[n] = IF IsNew(s) \/ ChangesHash(s) THEN comp ELSE hash[n]
      /\ bindings'[n] = {Rows(s, comp)}
  BY <1>2 DEF Commit, IInv, TypeOK, PublishedHash, Committed
<1>5. UNCHANGED <<traced, uuid, activator, tester, view>>
  BY DEF Commit
<1>6. c \in SaveRecords /\ Idle(c) /\ c.row = NoRow
  BY NoSaveSane DEF NoSave, Idle, SaveRecords
<1>7. \A t \in Savers : saver'[t] = IF t = s THEN c ELSE saver[t]
  BY DEF Commit, Ended, IInv, TypeOK
<1>8. TypeOK'
  <2>1. saver' \in [Savers -> SaveRecords]
    BY <1>6 DEF Commit, Ended, IInv, TypeOK
  <2>2. status' \in [Numbers -> {"absent", "draft", "active", "retired"}]
    BY <1>2 DEF Commit, IInv, TypeOK
  <2>3. hash' \in [Numbers -> Compositions] /\ reason' \in [Numbers -> Reasons]
    BY <1>2 DEF Commit, PublishedHash, IInv, TypeOK
  <2>4. Rows(s, comp) \in [by : Savers \cup {Seed}, comp : Compositions]
    BY <1>2 DEF Rows
  <2>5. bindings' \in [Numbers -> SUBSET [by : Savers \cup {Seed}, comp : Compositions]]
    BY <1>2, <2>4 DEF Commit, IInv, TypeOK
  <2> QED
    BY <1>5, <2>1, <2>2, <2>3, <2>5 DEF IInv, TypeOK
<1>9. Committed' = Committed \cup {n} /\ Drafts \subseteq Drafts' /\ Active' = Active
  BY <1>2, <1>3, <1>4 DEF Committed, Drafts, Active
<1> HIDE DEF c
<1>10. ASSUME NEW t \in Savers PROVE SaneSave(saver[t])'
  <2>1. CASE t = s
    <3>1. c.phase \notin {"load", "numbered", "ready", "selected", "written"}
      BY <1>6 DEF Idle
    <3> QED
      BY <1>6, <1>7, <2>1, <3>1 DEF SaneSave, Idle
  <2>2. CASE t # s
    <3>1. SaneSave(saver[t]) /\ saver'[t] = saver[t]
      BY <1>7, <2>2 DEF IInv
    <3>2. saver[t].phase = "written" => saver[t].target # n
      BY <1>1, <2>2 DEF IInv, Exclusive
    <3>3. saver[t].phase = "written" => saver[t].target \in Numbers
      BY <3>1 DEF SaneSave
    <3>4. OneAtATime => saver[t].row = NoRow
      <4>1. InFlight(s)
        BY <1>1 DEF InFlight
      <4>2. OneAtATime => ~InFlight(t)
        BY <4>1, <2>2 DEF IInv, InTurn
      <4> QED
        BY <3>1, <4>2 DEF SaneSave, Idle, InFlight
    <3>5. saver[t].phase = "written" =>
            /\ bindings'[saver[t].target] \subseteq saver[t].old
            /\ saver[t].target \notin traced'
            /\ saver[t].row = NoRow => saver[t].target \notin Committed'
      BY <1>3, <1>5, <1>9, <3>1, <3>2, <3>3 DEF SaneSave
    <3>6. NothingActivated' = NothingActivated
      BY DEF Commit, NothingActivated
    <3> QED
      BY <1>9, <3>1, <3>4, <3>5, <3>6 DEF SaneSave, Idle
  <2> QED
    BY <2>1, <2>2
<1>11. Exclusive' /\ InTurn'
  BY <1>6, <1>7 DEF IInv, Exclusive, InTurn, InFlight, Idle
<1>12. OneComposition'
  <2>1. status'[n] # "absent"
    BY <1>4 DEF Committed
  <2> QED
    BY <1>3, <1>4, <2>1 DEF IInv, OneComposition
<1>13. StepsKeepLinks'
  <2>1. \A m \in traced : m # n /\ m \in Numbers
    BY <1>2 DEF IInv, TypeOK
  <2> QED
    BY <1>3, <1>5, <2>1 DEF IInv, StepsKeepLinks
<1>14. OneAtATime => HashMatches'
  <2>1. OneAtATime => hash'[n] = comp
    BY <1>1, <1>4 DEF SaneSave, IsNew, ChangesHash
  <2>2. OneAtATime => \A m \in Numbers : \A rows \in bindings'[m] : rows.comp = hash'[m]
    BY <1>3, <1>4, <2>1 DEF IInv, HashMatches, Rows
  <2> QED
    BY <2>2 DEF HashMatches
<1>15. ViewsCurrent'
  <2>1. NothingActivated => n \notin Active
    BY <1>1 DEF SaneSave, Drafts, Active, Committed
  <2>2. \A m \in Active : m \in Numbers
    BY DEF Active
  <2>3. NothingActivated => \A m \in Active : hash'[m] = hash[m] /\ bindings'[m] = bindings[m]
    BY <1>3, <2>1, <2>2
  <2> QED
    BY <1>5, <1>9, <2>3 DEF IInv, ViewsCurrent, ProductionLoads, NothingActivated
<1>16. ActivationsWrite'
  BY <1>5, <1>9 DEF IInv, ActivationsWrite, OneActive
<1> QED
  BY <1>8, <1>10, <1>11, <1>12, <1>13, <1>14, <1>15, <1>16 DEF IInv

-----------------------------------------------------------------------------
(***************************************************************************)
(* An activation never takes a revision out of the committed ones, nor     *)
(* touches bindings.                                                       *)
(***************************************************************************)
LEMMA ActivatorMoves ==
  ASSUME IInv, NEW a \in Activators, NEW c, activator' = [activator EXCEPT ![a] = c],
         activator[a].phase # "activated", UNCHANGED status, ActivationsUnchanged,
         c \in [phase : {"loaded", "selected", "activated", "refused", "conflict"},
                revision : Numbers \cup {0}, loaded : {"none", "draft", "active", "retired"},
                others : SUBSET Numbers],
         c.others \subseteq Committed,
         c.phase \in {"loaded", "selected"} =>
           c.revision \in Committed /\ (Reactivation \/ c.loaded # "active")
  PROVE  IInv'
<1>1. \A b \in Activators : activator'[b] = IF b = a THEN c ELSE activator[b]
  BY DEF IInv, TypeOK
<1>2. TypeOK'
  BY DEF IInv, TypeOK, ActivationsUnchanged
<1>6. NothingActivated' => NothingActivated
  BY <1>1 DEF NothingActivated
<1>3. (\A s \in Savers : SaneSave(saver[s])') /\ Exclusive' /\ InTurn'
  BY <1>6 DEF IInv, SaneSave, ActivationsUnchanged, Committed, Drafts, Idle, Exclusive, InTurn, InFlight
<1>4. OneComposition' /\ StepsKeepLinks' /\ (HashMatches' = HashMatches)
  BY DEF IInv, ActivationsUnchanged, OneComposition, StepsKeepLinks, HashMatches
<1>5. ViewsCurrent' /\ ActivationsWrite'
  BY <1>1, <1>6 DEF IInv, ActivationsUnchanged, ViewsCurrent, ActivationsWrite, OneActive, Active,
     Committed, ProductionLoads
<1> QED
  BY <1>2, <1>3, <1>4, <1>5 DEF IInv

LEMMA ActivationIInv ==
  ASSUME IInv, NEW a \in Activators, Activation(a)
  PROVE  IInv'
<1>1. /\ activator[a] \in [phase : {"idle", "loaded", "selected", "activated", "refused", "conflict"},
                            revision : Numbers \cup {0},
                            loaded : {"none", "draft", "active", "retired"},
                            others : SUBSET Numbers]
      /\ activator[a].others \subseteq Committed
      /\ activator[a].phase \in {"loaded", "selected"} =>
           activator[a].revision \in Committed /\ (Reactivation \/ activator[a].loaded # "active")
  BY DEF IInv, TypeOK, ActivationsWrite
<1>2. CASE Get(a)
  <2>1. PICK n \in Committed :
          /\ Reactivation \/ n \notin Active
          /\ activator' = [activator EXCEPT ![a] =
               [phase |-> IF \A rows \in bindings[n] : rows.comp = hash[n]
                          THEN "loaded" ELSE "refused",
                revision |-> n, loaded |-> status[n], others |-> {}]]
    BY <1>2 DEF Get
  <2> DEFINE c == [phase |-> IF \A rows \in bindings[n] : rows.comp = hash[n]
                             THEN "loaded" ELSE "refused",
                   revision |-> n, loaded |-> status[n], others |-> {}]
  <2>2. n \in Numbers /\ status[n] \in {"draft", "active", "retired"}
        /\ (Reactivation \/ status[n] # "active")
    BY <2>1 DEF IInv, TypeOK, Committed, Active
  <2>3. /\ c.phase \in {"loaded", "refused"} /\ c.revision = n /\ c.loaded = status[n] /\ c.others = {}
        /\ c \in [phase : {"loaded", "selected", "activated", "refused", "conflict"},
                   revision : Numbers \cup {0}, loaded : {"none", "draft", "active", "retired"},
                   others : SUBSET Numbers]
    BY <2>2
  <2>4. activator' = [activator EXCEPT ![a] = c]
    BY <2>1
  <2> HIDE DEF c
  <2> QED
    BY <1>2, <2>2, <2>3, <2>4, ActivatorMoves DEF Get
<1>3. CASE SelectActive(a)
  <2> DEFINE c == [activator[a] EXCEPT !.phase = "selected",
                                       !.others = Active \ {activator[a].revision}]
  <2>1. Active \subseteq Committed /\ Active \subseteq Numbers
    BY DEF Active, Committed
  <2>2. /\ c.phase = "selected" /\ c.revision = activator[a].revision
        /\ c.loaded = activator[a].loaded /\ c.others \subseteq Committed
        /\ c \in [phase : {"loaded", "selected", "activated", "refused", "conflict"},
                   revision : Numbers \cup {0}, loaded : {"none", "draft", "active", "retired"},
                   others : SUBSET Numbers]
    BY <1>1, <2>1
  <2>3. activator' = [activator EXCEPT ![a] = c]
    BY <1>3 DEF SelectActive, IInv, TypeOK
  <2> HIDE DEF c
  <2> QED
    BY <1>1, <1>3, <2>2, <2>3, ActivatorMoves DEF SelectActive
<1>4. ASSUME NEW phase \in {"activated", "refused", "conflict"},
             activator' = [activator EXCEPT ![a].phase = phase],
             activator[a].phase # "activated", UNCHANGED status, ActivationsUnchanged
      PROVE  IInv'
  <2> DEFINE c == [activator[a] EXCEPT !.phase = phase]
  <2>1. /\ c.phase = phase /\ c.others = activator[a].others
        /\ c \in [phase : {"loaded", "selected", "activated", "refused", "conflict"},
                   revision : Numbers \cup {0}, loaded : {"none", "draft", "active", "retired"},
                   others : SUBSET Numbers]
    BY <1>1
  <2>2. activator' = [activator EXCEPT ![a] = c]
    BY <1>4 DEF IInv, TypeOK
  <2> HIDE DEF c
  <2> QED
    BY <1>1, <1>4, <2>1, <2>2, ActivatorMoves
<1>5. CASE Activate(a) /\ ~IndexAllows(a)
  BY <1>4, <1>5 DEF Activate
<1>6. CASE Activate(a) /\ IndexAllows(a)
  <2> DEFINE n == activator[a].revision
             others == activator[a].others
  <2>1. /\ activator[a].phase = "selected" /\ ActivationsUnchanged
        /\ n \in Committed /\ n \in Numbers /\ others \subseteq Committed
        /\ Reactivation \/ activator[a].loaded # "active"
    BY <1>1, <1>6 DEF Activate, Committed
  <2>2. status' = [m \in Numbers |-> IF m = n /\ activator[a].loaded # "active"
                                      THEN "active" ELSE RetiredAfter(a, m)]
    BY <1>6 DEF Activate
  <2>3. activator' = [activator EXCEPT ![a].phase = "activated"]
    BY <1>6 DEF Activate
  <2>4. \A m \in Numbers : status'[m] =
          IF m = n /\ activator[a].loaded # "active" THEN "active"
          ELSE IF m \in others THEN "retired" ELSE status[m]
    BY <2>2 DEF RetiredAfter
  <2>5. Committed' = Committed
    BY <2>1, <2>4 DEF Committed
  <2>6. TypeOK'
    <3>1. status' \in [Numbers -> {"absent", "draft", "active", "retired"}]
      BY <2>2, <2>4 DEF IInv, TypeOK
    <3>2. activator' \in [Activators ->
             [phase : {"idle", "loaded", "selected", "activated", "refused", "conflict"},
              revision : Numbers \cup {0},
              loaded : {"none", "draft", "active", "retired"},
              others : SUBSET Numbers]]
      <4> DEFINE S == [phase : {"idle", "loaded", "selected", "activated", "refused", "conflict"},
                       revision : Numbers \cup {0},
                       loaded : {"none", "draft", "active", "retired"},
                       others : SUBSET Numbers]
      <4>1. activator \in [Activators -> S]
        BY DEF IInv, TypeOK
      <4>2. [activator[a] EXCEPT !.phase = "activated"] \in S
        BY <4>1
      <4> HIDE DEF S
      <4>3. activator' \in [Activators -> S]
        BY <2>3, <4>1, <4>2
      <4> QED
        BY <4>3 DEF S
    <3> QED
      BY <2>1, <3>1, <3>2 DEF IInv, TypeOK, ActivationsUnchanged
  <2>12. ~NothingActivated'
    BY <2>3 DEF NothingActivated, IInv, TypeOK
  <2>7. (\A s \in Savers : SaneSave(saver[s])') /\ Exclusive' /\ InTurn'
    BY <2>1, <2>5, <2>12 DEF IInv, SaneSave, ActivationsUnchanged, Idle, Exclusive, InTurn, InFlight
  <2>8. OneComposition'
    <3>1. \A m \in Numbers : status'[m] = "absent" <=> status[m] = "absent"
      BY <2>5 DEF Committed
    <3> QED
      BY <2>1, <3>1 DEF IInv, ActivationsUnchanged, OneComposition
  <2>9. StepsKeepLinks' /\ (HashMatches' = HashMatches)
    BY <2>1 DEF IInv, ActivationsUnchanged, StepsKeepLinks, HashMatches
  <2>10. ViewsCurrent'
    BY <2>12 DEF ViewsCurrent
  <2>11. ActivationsWrite'
    <3>1. \A b \in Activators :
            /\ activator'[b].others = activator[b].others
            /\ activator'[b].phase \in {"loaded", "selected"} => activator'[b] = activator[b]
      BY <2>3 DEF IInv, TypeOK
    <3>2. ~Reactivation => Active' = {n}
      BY <1>6, <2>1, <2>4 DEF IndexAllows, Active
    <3> QED
      BY <2>1, <2>5, <3>1, <3>2 DEF IInv, ActivationsWrite, OneActive
  <2> QED
    BY <2>6, <2>7, <2>8, <2>9, <2>10, <2>11 DEF IInv
<1>7. CASE ActivateFails(a)
  BY <1>4, <1>7 DEF ActivateFails
<1> QED
  BY <1>2, <1>3, <1>5, <1>6, <1>7 DEF Activation

-----------------------------------------------------------------------------
(***************************************************************************)
(* Step tests and the view; the theorems.                                  *)
(***************************************************************************)
LEMMA TesterIInv ==
  ASSUME IInv, NEW t \in Testers, SelectBinding(t) \/ CreateStep(t)
  PROVE  IInv'
<1>1. UNCHANGED <<status, hash, reason, bindings, uuid, saver, activator, view>>
  BY DEF SelectBinding, CreateStep
<1>2. tester' \in [Testers -> Numbers \cup {0}]
  BY DEF SelectBinding, CreateStep, Committed, IInv, TypeOK
<1>3. traced' = traced \/ /\ CreateStep(t) /\ traced' = traced \cup {tester[t]}
                           /\ \E rows \in bindings[tester[t]] : Linked(rows)
  BY DEF SelectBinding, CreateStep
<1>4. CreateStep(t) => tester[t] \in Numbers
  BY DEF CreateStep, IInv, TypeOK
<1>5. TypeOK'
  BY <1>1, <1>2, <1>3, <1>4 DEF IInv, TypeOK
<1>6. ASSUME NEW s \in Savers PROVE SaneSave(saver[s])'
  <2>1. SaneSave(saver[s])
    BY DEF IInv
  <2>2. saver[s].phase = "written" => saver[s].target \notin traced'
    <3>1. SUFFICES ASSUME saver[s].phase = "written", saver[s].target \in traced' PROVE FALSE
      OBVIOUS
    <3>2. /\ CreateStep(t) /\ saver[s].target = tester[t] /\ tester[t] \in Numbers
          /\ \E rows \in bindings[tester[t]] : Linked(rows)
      BY <1>3, <1>4, <2>1, <3>1 DEF SaneSave
    <3>3. saver[s].row = NoRow
      BY <3>1, <3>2 DEF CreateStep, LinkFree, IsNew
    <3>4. status[tester[t]] = "absent"
      BY <2>1, <3>1, <3>2, <3>3 DEF SaneSave, Committed
    <3> QED
      BY <3>2, <3>4 DEF IInv, OneComposition
  <2> QED
    BY <1>1, <2>1, <2>2 DEF SaneSave, Committed, Drafts, Idle, NothingActivated
<1>7. Exclusive' /\ InTurn' /\ OneComposition' /\ (HashMatches' = HashMatches)
  BY <1>1 DEF IInv, Exclusive, InTurn, InFlight, OneComposition, HashMatches
<1>8. StepsKeepLinks'
  BY <1>1, <1>3 DEF IInv, StepsKeepLinks
<1>9. ViewsCurrent' /\ ActivationsWrite'
  BY <1>1 DEF IInv, ViewsCurrent, ActivationsWrite, Active, Committed, ProductionLoads, OneActive, NothingActivated
<1> QED
  BY <1>5, <1>6, <1>7, <1>8, <1>9 DEF IInv

LEMMA ViewIInv ==
  ASSUME IInv, NEW v \in Views, FindActive(v) \/ LoadActive(v)
  PROVE  IInv'
<1>1. UNCHANGED <<status, hash, reason, bindings, traced, uuid, saver, activator, tester>>
  BY DEF FindActive, LoadActive
<1>2. \A n \in Active : n \in Numbers /\ hash[n] \in Compositions
  BY DEF IInv, TypeOK, Active
<1>3. view' \in [Views -> [phase : {"idle", "found", "fallback"},
                            revision : Numbers \cup {0},
                            read : Compositions \cup {"none"}]]
  BY <1>2 DEF FindActive, LoadActive, IInv, TypeOK
<1>4. TypeOK'
  BY <1>1, <1>3 DEF IInv, TypeOK
<1>5. (\A s \in Savers : SaneSave(saver[s])') /\ Exclusive' /\ InTurn'
  BY <1>1 DEF IInv, SaneSave, Committed, Drafts, Idle, Exclusive, InTurn, InFlight, NothingActivated
<1>6. OneComposition' /\ StepsKeepLinks' /\ (HashMatches' = HashMatches) /\ ActivationsWrite'
  BY <1>1 DEF IInv, OneComposition, StepsKeepLinks, HashMatches, ActivationsWrite, Active, Committed,
     OneActive
<1>7. ViewsCurrent'
  <2>1. CASE FindActive(v)
    <3>1. PICK n \in Active : view' = [view EXCEPT ![v] =
                                   [phase |-> "found", revision |-> n, read |-> hash[n]]]
      BY <2>1 DEF FindActive
    <3>2. \A u \in Views : view'[u] = IF u = v THEN [phase |-> "found", revision |-> n, read |-> hash[n]]
                                       ELSE view[u]
      BY <3>1 DEF IInv, TypeOK
    <3> QED
      BY <1>1, <3>2 DEF IInv, ViewsCurrent, Active, ProductionLoads, NothingActivated
  <2>2. CASE LoadActive(v)
    <3>1. NothingActivated => \A rows \in bindings[view[v].revision] : rows.comp = view[v].read
      BY <2>2 DEF LoadActive, IInv, ViewsCurrent
    <3>2. NothingActivated => view' = [view EXCEPT ![v].phase = "idle"]
      BY <2>2, <3>1 DEF LoadActive
    <3>3. NothingActivated => \A u \in Views :
            IF u = v THEN view'[u].phase = "idle" ELSE view'[u] = view[u]
      BY <3>2 DEF IInv, TypeOK
    <3> QED
      BY <1>1, <3>3 DEF IInv, ViewsCurrent, Active, ProductionLoads, NothingActivated
  <2> QED
    BY <2>1, <2>2
<1> QED
  BY <1>4, <1>5, <1>6, <1>7 DEF IInv

LEMMA StutterIInv == IInv /\ UNCHANGED vars => IInv'
<1> SUFFICES ASSUME IInv, UNCHANGED vars PROVE IInv'
  OBVIOUS
<1>1. (\A s \in Savers : SaneSave(saver[s])') /\ TypeOK'
  BY DEF vars, IInv, TypeOK, SaneSave, Committed, Drafts, Idle, NothingActivated
<1>2. Exclusive' /\ InTurn' /\ OneComposition' /\ StepsKeepLinks' /\ (HashMatches' = HashMatches)
  BY DEF vars, IInv, Exclusive, InTurn, InFlight, OneComposition, StepsKeepLinks, HashMatches
<1>3. ViewsCurrent' /\ ActivationsWrite'
  BY DEF vars, IInv, ViewsCurrent, ActivationsWrite, Active, Committed, ProductionLoads, OneActive, NothingActivated
<1> QED
  BY <1>1, <1>2, <1>3 DEF IInv

LEMMA SaveCases ==
  ASSUME NEW s \in Savers, Save(s)
  PROVE  \/ FindDraft(s) \/ FindForReset(s) \/ FindForNew(s) \/ LateDraft(s)
         \/ LoadManifest(s) \/ InsertRevision(s) \/ UpdateRow(s) \/ ReplaceBindings(s)
         \/ SaveFails(s) \/ Commit(s)
BY DEF Save

\* The invariant of every behaviour, whatever requests run together.
THEOREM Invariance == Spec => []IInv
<1>1. ASSUME IInv, Next PROVE IInv'
  <2>1. ASSUME NEW s \in Savers, Save(s) PROVE IInv'
    BY <1>1, <2>1, SaveCases, StartsIInv, AdvancesIInv, CommitIInv
  <2> QED
    BY <1>1, <2>1, ActivationIInv, TesterIInv, ViewIInv DEF Next
<1>2. IInv /\ [Next]_vars => IInv'
  BY <1>1, StutterIInv
<1> QED
  BY InitIInv, <1>2, PTL DEF Spec

\* Every variable keeps its type.
THEOREM TypeCorrect == Spec => []TypeOK
<1>1. IInv => TypeOK
  BY DEF IInv
<1> QED
  BY Invariance, <1>1, PTL

\* The bindings of a revision are those of exactly one save, and the link that
\* a step references stays.
THEOREM BindingsWhole == Spec => [](OneComposition /\ StepsKeepLinks)
<1>1. IInv => OneComposition /\ StepsKeepLinks
  BY DEF IInv
<1> QED
  BY Invariance, <1>1, PTL

\* No save, activation or test takes away the link that a step references.
THEOREM StepLinksKept == Spec => []StepsKeepLinks
<1>1. OneComposition /\ StepsKeepLinks => StepsKeepLinks
  OBVIOUS
<1> QED
  BY BindingsWhole, <1>1, PTL

\* Saves that wait for one another leave the hash of the bindings.
THEOREM SerialHashes ==
  ASSUME OneAtATime
  PROVE  Spec => []HashMatches
<1>1. IInv => HashMatches
  BY DEF IInv
<1> QED
  BY Invariance, <1>1, PTL

\* Requests for revisions that are not active leave exactly one active.
THEOREM StaysActive ==
  ASSUME ~Reactivation
  PROVE  Spec => []OneActive
<1>1. IInv => OneActive
  BY DEF IInv, ActivationsWrite
<1> QED
  BY Invariance, <1>1, PTL

\* Without an activation, the production view never falls back.
THEOREM ProductionViewLoads == Spec => []ProductionLoads
<1>1. IInv => ProductionLoads
  BY DEF IInv, ViewsCurrent, ProductionLoads
<1> QED
  BY Invariance, <1>1, PTL

\* Without an activation, no step changes an active revision.
THEOREM ActiveKept == Spec => LabKeepsActive
<1> DEFINE Same == NothingActivated => \A n \in Active : Kept(n)
<1>1. ASSUME IInv, [Next]_vars PROVE Same
  <2>1. ASSUME NEW s \in Savers, Commit(s) PROVE Same
    <3> DEFINE n == saver[s].target
    <3>1. SaneSave(saver[s]) /\ saver[s].phase = "written"
      BY <1>1, <2>1 DEF IInv, Commit
    <3>2. NothingActivated => n \notin Active
      BY <3>1 DEF SaneSave, Drafts, Active, Committed
    <3>3. \A m \in Numbers : m # n => hash'[m] = hash[m] /\ bindings'[m] = bindings[m]
      BY <1>1, <2>1 DEF Commit, IInv, TypeOK
    <3> QED
      BY <3>2, <3>3 DEF Active, Kept
  <2>2. CASE UNCHANGED <<hash, bindings>>
    BY <2>2 DEF Kept
  <2>3. ASSUME NEW s \in Savers, Save(s) PROVE Commit(s) \/ UNCHANGED <<hash, bindings>>
    BY <2>3 DEF Save, SavesUnchanged, FindDraft, FindForReset, FindForNew, LateDraft, LoadManifest,
       InsertRevision, UpdateRow, ReplaceBindings, SaveFails
  <2>4. ASSUME NEW a \in Activators, Activation(a) PROVE UNCHANGED <<hash, bindings>>
    BY <2>4 DEF Activation, ActivationsUnchanged, Get, SelectActive, Activate, ActivateFails
  <2>5. ASSUME NEW t \in Testers, SelectBinding(t) \/ CreateStep(t) PROVE UNCHANGED <<hash, bindings>>
    BY <2>5 DEF SelectBinding, CreateStep
  <2>6. ASSUME NEW v \in Views, FindActive(v) \/ LoadActive(v) PROVE UNCHANGED <<hash, bindings>>
    BY <2>6 DEF FindActive, LoadActive
  <2> QED
    BY <1>1, <2>1, <2>2, <2>3, <2>4, <2>5, <2>6 DEF Next, vars
<1>2. IInv /\ [Next]_vars => [Same]_vars
  BY <1>1
<1> QED
  BY Invariance, <1>2, PTL DEF Spec, LabKeepsActive
=============================================================================
