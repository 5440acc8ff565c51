-------------------- MODULE ConfigurationRevisions_proofs --------------------
(***************************************************************************)
(* ConfigurationRevisions for every number of requests, revisions and      *)
(* settings.                                                               *)
(***************************************************************************)
EXTENDS ConfigurationRevisions, TLAPS

\* The number that a transaction has inserted belongs to it.
NumbersReserved ==
    /\ \A e \in Editors : editor[e].phase # "idle" =>
         editor[e].source \in Committed /\ editor[e].number \in Numbers
    /\ \A e \in Editors : editor[e].phase = "inserted" => status[editor[e].number] = "absent"
    /\ \A d, e \in Editors :
         d # e /\ editor[d].phase = "inserted" /\ editor[e].phase = "inserted"
             => editor[d].number # editor[e].number

\* A request retires other committed revisions than its own.
RetiresOthers ==
    \A a \in Activators : activator[a].phase # "idle" =>
        /\ activator[a].revision \in Committed
        /\ activator[a].others \subseteq Committed \ {activator[a].revision}
        /\ Reactivation \/ Changes(activator[a])

\* What a reader has read is what its revision still says.
ReadsOneRevision ==
    \A r \in Readers :
        /\ reader[r].read \in [DOMAIN reader[r].read -> Values]
        /\ reader[r].revision = 0 => DOMAIN reader[r].read = {}
        /\ reader[r].revision # 0 =>
             /\ reader[r].revision \in Committed
             /\ \A s \in DOMAIN reader[r].read :
                  reader[r].read[s] = values[reader[r].revision][s]

IInv ==
    /\ TypeOK
    /\ reader \in [Readers -> [revision : Numbers \cup {0}, read : UNION {[S -> Values] : S \in SUBSET Settings}]]
    /\ NumbersReserved
    /\ RetiresOthers
    /\ ReadsOneRevision
    /\ AtMostOneActive
    /\ AttemptsReproducible
    /\ Reactivation \/ HasActive

-----------------------------------------------------------------------------
LEMMA InitIInv == Init => IInv
<1> SUFFICES ASSUME Init PROVE IInv
  OBVIOUS
<1>1. \A e \in Editors : editor[e] = NoEdit /\ NoEdit.phase = "idle" /\ NoEdit \in Edit
  BY DEF Init, NoEdit, Edit
<1>2. \A a \in Activators :
        activator[a] = NoActivation /\ NoActivation.phase = "idle" /\ NoActivation \in Activation
  BY DEF Init, NoActivation, Activation
<1>3. NoRead.revision = 0 /\ DOMAIN NoRead.read = {} /\ NoRead.read \in [{} -> Values]
  BY DEF NoRead, NothingRead
<1>4. NoRead \in [revision : Numbers \cup {0}, read : UNION {[S -> Values] : S \in SUBSET Settings}]
  BY <1>3 DEF NoRead
<1>5. \A r \in Readers : reader[r] = NoRead
  BY DEF Init
<1>6. TypeOK
  <2>1. status \in [Numbers -> {"absent", "draft", "active", "retired"}]
    BY DEF Init
  <2>2. values \in [Numbers -> [Settings -> Values]]
    BY InitialAssumption DEF Init
  <2>3. editor \in [Editors -> Edit] /\ activator \in [Activators -> Activation]
    BY <1>1, <1>2 DEF Init
  <2> QED
    BY <1>3, <1>5, <2>1, <2>2, <2>3 DEF TypeOK
<1>7. reader \in [Readers -> [revision : Numbers \cup {0}, read : UNION {[S -> Values] : S \in SUBSET Settings}]]
  BY <1>4 DEF Init
<1>8. NumbersReserved /\ RetiresOthers
  BY <1>1, <1>2 DEF NumbersReserved, RetiresOthers
<1>9. ReadsOneRevision
  BY <1>3, <1>5 DEF ReadsOneRevision
<1>10. Active = {1}
  BY NumbersAssumption DEF Init, Active
<1>11. AtMostOneActive /\ HasActive
  BY <1>10 DEF AtMostOneActive, HasActive
<1>12. AttemptsReproducible
  BY DEF Init, AttemptsReproducible
<1> QED
  BY <1>6, <1>7, <1>8, <1>9, <1>11, <1>12 DEF IInv

-----------------------------------------------------------------------------
(***************************************************************************)
(* create_from: only the commit writes, and it writes a number that is not *)
(* committed.                                                              *)
(***************************************************************************)
LEMMA EditorIInv ==
  ASSUME IInv, NEW e \in Editors, EditorStep(e)
  PROVE  IInv'
<1>0. NoEdit \in Edit /\ NoEdit.phase = "idle"
  BY DEF NoEdit, Edit
<1>1. ASSUME NEW c \in Edit, editor' = [editor EXCEPT ![e] = c],
             UNCHANGED <<status, values, attempts, activator, reader>>,
             c.phase # "idle" => c.source \in Committed /\ c.number \in Numbers,
             c.phase = "inserted" =>
               /\ status[c.number] = "absent"
               /\ \A d \in Editors \ {e} :
                    editor[d].phase = "inserted" => editor[d].number # c.number
      PROVE  IInv'
  <2>1. \A d \in Editors : editor'[d] = IF d = e THEN c ELSE editor[d]
    BY <1>1 DEF IInv, TypeOK
  <2>2. TypeOK'
    BY <1>1 DEF IInv, TypeOK
  <2>3. NumbersReserved'
    BY <1>1, <2>1 DEF IInv, NumbersReserved, Committed
  <2>4. RetiresOthers' /\ ReadsOneRevision' /\ AtMostOneActive' /\ AttemptsReproducible'
        /\ (Reactivation \/ HasActive)'
    BY <1>1 DEF IInv, RetiresOthers, ReadsOneRevision, AtMostOneActive, HasActive,
       AttemptsReproducible, Committed, Active
  <2> QED
    BY <1>1, <2>2, <2>3, <2>4 DEF IInv
<1>2. CASE Number(e)
  <2>1. PICK source \in Committed, n \in Numbers :
          editor' = [editor EXCEPT ![e] = [phase |-> "numbered", source |-> source, number |-> n]]
    BY <1>2 DEF Number
  <2> DEFINE c == [phase |-> "numbered", source |-> source, number |-> n]
  <2>2. c \in Edit /\ c.phase = "numbered" /\ c.source \in Committed /\ c.number \in Numbers
    BY DEF Edit, Committed
  <2>3. editor' = [editor EXCEPT ![e] = c]
    BY <2>1
  <2> HIDE DEF c
  <2> QED
    BY <1>1, <1>2, <2>2, <2>3 DEF Number
<1>3. CASE InsertRevision(e)
  <2> DEFINE c == [editor[e] EXCEPT !.phase = "inserted"]
  <2>1. editor[e] \in Edit /\ editor[e].phase = "numbered"
    BY <1>3 DEF IInv, TypeOK, InsertRevision
  <2>2. c \in Edit /\ c.source = editor[e].source /\ c.number = editor[e].number
    BY <2>1 DEF Edit
  <2>3. c.source \in Committed /\ c.number \in Numbers
    BY <2>1, <2>2 DEF IInv, NumbersReserved
  <2>4. status[c.number] = "absent" /\ \A d \in Editors \ {e} :
          editor[d].phase = "inserted" => editor[d].number # c.number
    BY <1>3, <2>2 DEF InsertRevision, NumberFree
  <2>5. editor' = [editor EXCEPT ![e] = c]
    BY <1>3 DEF InsertRevision
  <2> HIDE DEF c
  <2> QED
    BY <1>1, <1>3, <2>2, <2>3, <2>4, <2>5 DEF InsertRevision
<1>4. CASE Create(e)
  <2> DEFINE n == editor[e].number
  <2>1. n \in Numbers /\ editor[e].source \in Committed /\ status[n] = "absent"
        /\ editor[e].phase = "inserted"
    BY <1>4 DEF IInv, NumbersReserved, Create
  <2>2. PICK given \in [Settings -> Values \cup {Kept}] :
          values' = [values EXCEPT ![n] = CopiedValues(values[editor[e].source], given)]
    BY <1>4 DEF Create
  <2>3. CopiedValues(values[editor[e].source], given) \in [Settings -> Values]
    BY <2>1 DEF CopiedValues, Committed, IInv, TypeOK
  <2>4. values' \in [Numbers -> [Settings -> Values]]
    BY <2>2, <2>3 DEF IInv, TypeOK
  <2>5. /\ status' = [status EXCEPT ![n] = "draft"] /\ editor' = [editor EXCEPT ![e] = NoEdit]
        /\ UNCHANGED <<attempts, activator, reader>>
    BY <1>4 DEF Create
  <2>6. TypeOK'
    BY <1>0, <2>4, <2>5 DEF IInv, TypeOK
  <2>7. Committed' = Committed \cup {n} /\ n \notin Committed /\ Active' = Active
    BY <2>1, <2>5 DEF Committed, Active, IInv, TypeOK
  <2>8. \A m \in Committed : values'[m] = values[m]
    BY <2>2, <2>7 DEF IInv, TypeOK, Committed
  <2>9. \A d \in Editors : editor'[d] = IF d = e THEN NoEdit ELSE editor[d]
    BY <2>5 DEF IInv, TypeOK
  <2>10. NumbersReserved'
    <3>1. \A d \in Editors : d # e /\ editor[d].phase = "inserted" =>
            /\ editor[d].number # n
            /\ editor[d].number \in Numbers
            /\ status[editor[d].number] = "absent"
      BY <2>1 DEF IInv, NumbersReserved
    <3>2. \A d \in Editors : editor'[d].phase = "inserted" => status'[editor'[d].number] = "absent"
      BY <1>0, <2>5, <2>9, <3>1 DEF IInv, TypeOK
    <3>3. \A d \in Editors : editor'[d].phase # "idle" =>
            editor'[d].source \in Committed' /\ editor'[d].number \in Numbers
      BY <1>0, <2>7, <2>9 DEF IInv, NumbersReserved
    <3>4. \A c, d \in Editors :
            c # d /\ editor'[c].phase = "inserted" /\ editor'[d].phase = "inserted"
              => editor'[c].number # editor'[d].number
      BY <1>0, <2>9 DEF IInv, NumbersReserved
    <3> QED
      BY <3>2, <3>3, <3>4 DEF NumbersReserved
  <2>11. RetiresOthers'
    BY <2>5, <2>7 DEF IInv, RetiresOthers
  <2>12. ReadsOneRevision' /\ AttemptsReproducible'
    BY <2>5, <2>7, <2>8 DEF IInv, ReadsOneRevision, AttemptsReproducible
  <2>13. AtMostOneActive' /\ (Reactivation \/ HasActive)'
    BY <2>7 DEF IInv, AtMostOneActive, HasActive
  <2> QED
    BY <2>5, <2>6, <2>10, <2>11, <2>12, <2>13 DEF IInv
<1>5. CASE CreateFails(e)
  BY <1>0, <1>1, <1>5 DEF CreateFails
<1> QED
  BY <1>2, <1>3, <1>4, <1>5 DEF EditorStep

-----------------------------------------------------------------------------
(***************************************************************************)
(* activate: the index allows the new active revision only beside those    *)
(* that the same transaction retires.                                      *)
(***************************************************************************)
LEMMA ActivatorIInv ==
  ASSUME IInv, NEW a \in Activators, ActivatorStep(a)
  PROVE  IInv'
<1>0. NoActivation \in Activation /\ NoActivation.phase = "idle"
  BY DEF NoActivation, Activation
<1>1. ASSUME NEW c \in Activation, activator' = [activator EXCEPT ![a] = c],
             UNCHANGED <<status, values, attempts, editor, reader>>,
             c.phase # "idle" =>
               /\ c.revision \in Committed
               /\ c.others \subseteq Committed \ {c.revision}
               /\ Reactivation \/ Changes(c)
      PROVE  IInv'
  <2>1. \A b \in Activators : activator'[b] = IF b = a THEN c ELSE activator[b]
    BY <1>1 DEF IInv, TypeOK
  <2>2. TypeOK'
    BY <1>1 DEF IInv, TypeOK
  <2>3. RetiresOthers'
    BY <1>1, <2>1 DEF IInv, RetiresOthers, Committed
  <2>4. NumbersReserved' /\ ReadsOneRevision' /\ AtMostOneActive' /\ AttemptsReproducible'
        /\ (Reactivation \/ HasActive)'
    BY <1>1 DEF IInv, NumbersReserved, ReadsOneRevision, AtMostOneActive, HasActive,
       AttemptsReproducible, Committed, Active
  <2> QED
    BY <1>1, <2>2, <2>3, <2>4 DEF IInv
<1>2. CASE Get(a)
  <2>1. PICK n \in Committed :
          /\ Reactivation \/ status[n] # "active"
          /\ activator' = [activator EXCEPT ![a] =
               [phase |-> "loaded", revision |-> n, loaded |-> status[n], others |-> {}]]
    BY <1>2 DEF Get
  <2> DEFINE c == [phase |-> "loaded", revision |-> n, loaded |-> status[n], others |-> {}]
  <2>2. /\ c \in Activation /\ c.revision = n /\ c.others = {}
        /\ Reactivation \/ Changes(c)
    BY <2>1 DEF IInv, TypeOK, Committed, Activation, Changes
  <2>3. activator' = [activator EXCEPT ![a] = c]
    BY <2>1
  <2> HIDE DEF c
  <2> QED
    BY <1>1, <1>2, <2>2, <2>3 DEF Get
<1>3. CASE SelectActive(a)
  <2> DEFINE c == [activator[a] EXCEPT !.phase = "selected",
                                       !.others = Active \ {activator[a].revision}]
  <2>1. /\ activator[a] \in Activation /\ activator[a].revision \in Committed
        /\ Reactivation \/ Changes(activator[a])
    BY <1>3 DEF IInv, TypeOK, RetiresOthers, SelectActive
  <2>2. Active \subseteq Committed /\ Committed \subseteq Numbers
    BY DEF Active, Committed
  <2>3. /\ c \in Activation /\ c.revision = activator[a].revision
        /\ c.loaded = activator[a].loaded /\ c.others = Active \ {activator[a].revision}
    BY <2>1, <2>2 DEF Activation
  <2>4. Reactivation \/ Changes(c)
    BY <2>1, <2>3 DEF Changes
  <2>5. activator' = [activator EXCEPT ![a] = c]
    BY <1>3 DEF SelectActive
  <2> HIDE DEF c
  <2> QED
    BY <1>1, <1>3, <2>1, <2>2, <2>3, <2>4, <2>5 DEF SelectActive
<1>4. CASE Retire(a)
  <2> DEFINE c == [activator[a] EXCEPT !.phase = "flushed"]
  <2>1. /\ activator[a] \in Activation /\ activator[a].revision \in Committed
        /\ activator[a].others \subseteq Committed \ {activator[a].revision}
        /\ Reactivation \/ Changes(activator[a])
    BY <1>4 DEF IInv, TypeOK, RetiresOthers, Retire
  <2>2. /\ c \in Activation /\ c.revision = activator[a].revision
        /\ c.loaded = activator[a].loaded /\ c.others = activator[a].others
    BY <2>1 DEF Activation
  <2>3. Reactivation \/ Changes(c)
    BY <2>1, <2>2 DEF Changes
  <2>4. activator' = [activator EXCEPT ![a] = c]
    BY <1>4 DEF Retire
  <2> HIDE DEF c
  <2> QED
    BY <1>1, <1>4, <2>1, <2>2, <2>3, <2>4 DEF Retire
<1>5. CASE Activate(a)
  <2> DEFINE c == activator[a]
  <2>1. /\ c.revision \in Committed /\ c.others \subseteq Committed \ {c.revision}
        /\ Reactivation \/ Changes(c)
    BY <1>5 DEF IInv, RetiresOthers, Activate
  <2>2. /\ Changes(c) => IndexAllows(c)
        /\ status' = [n \in Numbers |->
             IF n \in c.others THEN "retired"
             ELSE IF n = c.revision /\ Changes(c) THEN "active"
             ELSE status[n]]
        /\ activator' = [activator EXCEPT ![a] = NoActivation]
        /\ UNCHANGED <<values, attempts, editor, reader>>
    BY <1>5 DEF Activate, Activated
  <2> HIDE DEF c
  <2>3. Committed' = Committed
    <3>1. \A n \in Numbers : status'[n] = "absent" <=> status[n] = "absent"
      BY <2>1, <2>2 DEF Committed
    <3> QED
      BY <3>1 DEF Committed
  <2>4. Active' = (Active \ c.others) \cup (IF Changes(c) THEN {c.revision} ELSE {})
    BY <2>1, <2>2 DEF Active, Committed
  <2>5. AtMostOneActive' /\ (Reactivation \/ HasActive)'
    <3>1. CASE Changes(c)
      <4>1. Active' = {c.revision}
        BY <2>2, <2>4, <3>1 DEF IndexAllows
      <4> QED
        BY <4>1 DEF AtMostOneActive, HasActive
    <3>2. CASE ~ Changes(c)
      <4>1. Active' \subseteq Active
        BY <2>4, <3>2
      <4> QED
        BY <2>1, <3>2, <4>1 DEF IInv, AtMostOneActive
    <3> QED
      BY <3>1, <3>2
  <2>6. TypeOK'
    BY <1>0, <2>2 DEF IInv, TypeOK
  <2>7. NumbersReserved'
    <3>1. \A n \in Numbers : status[n] = "absent" => status'[n] = "absent"
      BY <2>1, <2>2 DEF Committed
    <3> QED
      BY <2>2, <2>3, <3>1 DEF IInv, NumbersReserved
  <2>8. RetiresOthers'
    <3>1. \A b \in Activators : activator'[b] = IF b = a THEN NoActivation ELSE activator[b]
      BY <2>2 DEF IInv, TypeOK
    <3> QED
      BY <1>0, <2>3, <3>1 DEF IInv, RetiresOthers
  <2>9. ReadsOneRevision' /\ AttemptsReproducible'
    BY <2>2, <2>3 DEF IInv, ReadsOneRevision, AttemptsReproducible
  <2> QED
    BY <2>2, <2>5, <2>6, <2>7, <2>8, <2>9 DEF IInv
<1>6. CASE ActivateFails(a)
  BY <1>0, <1>1, <1>6 DEF ActivateFails
<1> QED
  BY <1>2, <1>3, <1>4, <1>5, <1>6 DEF ActivatorStep

-----------------------------------------------------------------------------
LEMMA ReaderIInv ==
  ASSUME IInv, NEW r \in Readers, ReaderStep(r)
  PROVE  IInv'
<1> DEFINE Read == [revision : Numbers \cup {0},
                    read : UNION {[S -> Values] : S \in SUBSET Settings}]
<1>0. /\ NoRead \in Read /\ NoRead.revision = 0 /\ DOMAIN NoRead.read = {}
      /\ NoRead.read \in [DOMAIN NoRead.read -> Values]
  <2>1. NoRead.read \in [{} -> Values] /\ DOMAIN NoRead.read = {} /\ NoRead.revision = 0
    BY DEF NoRead, NothingRead
  <2> QED
    BY <2>1 DEF NoRead
<1>1. ASSUME NEW S \in SUBSET Settings, NEW n \in Numbers \cup {0}, NEW f \in [S -> Values],
             NEW c, c = [revision |-> n, read |-> f],
             reader' = [reader EXCEPT ![r] = c],
             UNCHANGED <<status, values, editor, activator>>,
             AttemptsReproducible',
             n = 0 => S = {},
             n # 0 => n \in Committed /\ \A s \in S : f[s] = values[n][s]
      PROVE  IInv'
  <2>0. c \in Read /\ DOMAIN c.read = S /\ c.revision = n /\ c.read = f
    BY <1>1
  <2> \A x \in Readers : reader'[x] = IF x = r THEN c ELSE reader[x]
    BY <1>1 DEF IInv
  <2>1. TypeOK' /\ reader' \in [Readers -> Read]
    BY <1>1, <2>0 DEF IInv, TypeOK
  <2>2. ReadsOneRevision'
    BY <1>1, <2>0 DEF IInv, ReadsOneRevision, Committed
  <2>3. NumbersReserved' /\ RetiresOthers' /\ AtMostOneActive' /\ (Reactivation \/ HasActive)'
    BY <1>1 DEF IInv, NumbersReserved, RetiresOthers, AtMostOneActive, HasActive,
       Committed, Active
  <2> QED
    BY <1>1, <2>1, <2>2, <2>3 DEF IInv
<1>2. reader[r] \in Read /\ reader[r] = [revision |-> reader[r].revision, read |-> reader[r].read]
  BY DEF IInv
<1>3. CASE LoadRevision(r)
  <2>1. PICK n \in Committed :
          reader' = [reader EXCEPT ![r] = [revision |-> n, read |-> NothingRead]]
    BY <1>3 DEF LoadRevision
  <2>2. NothingRead \in [{} -> Values]
    BY DEF NothingRead
  <2>3. n \in Numbers /\ n # 0 /\ AttemptsReproducible'
    BY <1>3, NumbersAssumption DEF LoadRevision, IInv, AttemptsReproducible, Committed
  <2> QED
    BY <1>1, <1>3, <2>1, <2>2, <2>3 DEF LoadRevision
<1>4. CASE ReadSetting(r)
  <2> DEFINE D == DOMAIN reader[r].read
             n == reader[r].revision
  <2>1. PICK s \in Settings \ D : reader' = [reader EXCEPT ![r] =
           [revision |-> n,
            read |-> [t \in D \cup {s} |-> IF t = s THEN SettingOf(r, s) ELSE reader[r].read[t]]]]
    BY <1>4 DEF ReadSetting
  <2> DEFINE f == [t \in D \cup {s} |-> IF t = s THEN SettingOf(r, s) ELSE reader[r].read[t]]
             S == D \cup {s}
  <2>2. n \in Committed /\ n # 0 /\ n \in Numbers /\ S \in SUBSET Settings
    BY <1>4 DEF ReadSetting, IInv, TypeOK, ReadsOneRevision, Committed
  <2>3. \A t \in D : reader[r].read[t] = values[n][t] /\ reader[r].read[t] \in Values
    BY <2>2 DEF IInv, ReadsOneRevision
  <2>4. SettingOf(r, s) = values[n][s] /\ values[n][s] \in Values
    BY <2>2 DEF SettingOf, IInv, TypeOK
  <2>5. f \in [S -> Values] /\ \A t \in S : f[t] = values[n][t]
    BY <2>3, <2>4
  <2>6. reader' = [reader EXCEPT ![r] = [revision |-> n, read |-> f]]
    BY <2>1
  <2>7. AttemptsReproducible' /\ UNCHANGED <<status, values, editor, activator>>
    BY <1>4 DEF ReadSetting, IInv, AttemptsReproducible, Committed
  <2>8. n \in Numbers \cup {0} /\ (n = 0 => S = {})
    BY <2>2
  <2>9. n # 0 => n \in Committed /\ \A t \in S : f[t] = values[n][t]
    BY <2>2, <2>5
  <2> DEFINE c == [revision |-> n, read |-> f]
  <2>10. c = [revision |-> n, read |-> f] /\ reader' = [reader EXCEPT ![r] = c]
    BY <2>6
  <2> HIDE DEF c, f, S, D, n
  <2> QED
    BY <1>1, <2>2, <2>5, <2>7, <2>8, <2>9, <2>10
<1>5. CASE RecordAttempt(r)
  <2>1. /\ reader[r].revision # 0 /\ DOMAIN reader[r].read = Settings
        /\ attempts' = attempts \cup {reader[r]} /\ reader' = [reader EXCEPT ![r] = NoRead]
        /\ UNCHANGED <<status, values, editor, activator>>
    BY <1>5 DEF RecordAttempt
  <2>2. reader[r].revision \in Committed /\ reader[r].revision \in Numbers
    BY <2>1 DEF IInv, ReadsOneRevision, Committed
  <2>3. reader[r].read = values[reader[r].revision]
    <3>1. reader[r].read \in [Settings -> Values] /\ values[reader[r].revision] \in [Settings -> Values]
      BY <2>1, <2>2 DEF IInv, TypeOK, ReadsOneRevision
    <3>2. \A s \in Settings : reader[r].read[s] = values[reader[r].revision][s]
      BY <2>1 DEF IInv, ReadsOneRevision
    <3> QED
      BY <3>1, <3>2
  <2>4. AttemptsReproducible'
    BY <2>1, <2>2, <2>3 DEF IInv, AttemptsReproducible, Committed
  <2>5. NoRead = [revision |-> 0, read |-> NoRead.read] /\ NoRead.read \in [{} -> Values]
    BY DEF NoRead, NothingRead
  <2> QED
    BY <1>1, <2>1, <2>4, <2>5
<1>6. CASE ReadFails(r)
  <2>1. reader' = [reader EXCEPT ![r] = NoRead]
        /\ UNCHANGED <<status, values, attempts, editor, activator>>
    BY <1>6 DEF ReadFails
  <2>2. AttemptsReproducible'
    BY <2>1 DEF IInv, AttemptsReproducible, Committed
  <2>3. NoRead = [revision |-> 0, read |-> NoRead.read] /\ NoRead.read \in [{} -> Values]
    BY DEF NoRead, NothingRead
  <2> QED
    BY <1>1, <2>1, <2>2, <2>3
<1> QED
  BY <1>3, <1>4, <1>5, <1>6 DEF ReaderStep

LEMMA NextIInv == IInv /\ [Next]_vars => IInv'
<1> SUFFICES ASSUME IInv, [Next]_vars PROVE IInv'
  OBVIOUS
<1>1. CASE UNCHANGED vars
  BY <1>1 DEF vars, IInv, TypeOK, NumbersReserved, RetiresOthers, ReadsOneRevision,
     AtMostOneActive, AttemptsReproducible, HasActive, Committed, Active
<1> QED
  BY <1>1, EditorIInv, ActivatorIInv, ReaderIInv DEF Next

\* The strengthened invariant.
THEOREM Invariance == Spec => []IInv
  BY InitIInv, NextIInv, PTL DEF Spec

\* Revisions, settings and requests stay well typed.
THEOREM TypeCorrect == Spec => []TypeOK
<1>1. IInv => TypeOK
  BY DEF IInv
<1> QED
  BY Invariance, <1>1, PTL

\* No interleaving of activations leaves two active revisions.
THEOREM OneActive == Spec => []AtMostOneActive
<1>1. IInv => AtMostOneActive
  BY DEF IInv
<1> QED
  BY Invariance, <1>1, PTL

\* The profile keeps an active revision when no request asks for the one
\* that it finds active.
THEOREM StaysActive ==
  ASSUME ~ Reactivation
  PROVE  Spec => []HasActive
<1>1. IInv => HasActive
  BY DEF IInv
<1> QED
  BY Invariance, <1>1, PTL

\* Past attempts remain reproducible from the revision they name.
THEOREM Reproducible == Spec => []AttemptsReproducible
<1>1. IInv => AttemptsReproducible
  BY DEF IInv
<1> QED
  BY Invariance, <1>1, PTL

\* The settings of a committed revision never change.
THEOREM Immutable == Spec => RevisionsImmutable
<1>1. IInv /\ [Next]_vars =>
        [\A n \in Committed : /\ values'[n] = values[n]
                              /\ status'[n] = "draft" => status[n] = "draft"]_vars
  <2> SUFFICES ASSUME IInv, Next, NEW n \in Committed
               PROVE  values'[n] = values[n] /\ (status'[n] = "draft" => status[n] = "draft")
    BY DEF vars
  <2>1. ASSUME NEW e \in Editors, Create(e)
        PROVE  values'[n] = values[n] /\ status'[n] = status[n]
    <3>1. editor[e].number # n
      BY <2>1 DEF Create, IInv, NumbersReserved, Committed
    <3> QED
      BY <2>1, <3>1 DEF Create, IInv, TypeOK, Committed
  <2>2. ASSUME NEW a \in Activators, Activate(a)
        PROVE  values'[n] = values[n] /\ (status'[n] = "draft" => status[n] = "draft")
    BY <2>2 DEF Activate, Activated, Committed
  <2>3. Next => \/ UNCHANGED <<status, values>>
                \/ \E e \in Editors : Create(e)
                \/ \E a \in Activators : Activate(a)
    BY DEF Next, EditorStep, ActivatorStep, ReaderStep, Number, InsertRevision, CreateFails,
       Get, SelectActive, Retire, ActivateFails, LoadRevision, ReadSetting, RecordAttempt,
       ReadFails
  <2> QED
    BY <2>1, <2>2, <2>3
<1> QED
  BY <1>1, Invariance, PTL DEF Spec, RevisionsImmutable

=============================================================================
