----------------------- MODULE DocumentVersions_proofs -----------------------
(***************************************************************************)
(* DocumentVersions for every number of callers, documents and contents:   *)
(* what holds whoever writes, then what the API's requests keep when       *)
(* index_document does not run beside them.                                *)
(***************************************************************************)
EXTENDS DocumentVersions, TLAPS

\* What a call knows in each phase.
CallShape ==
    \A x \in Processes :
        /\ call[x].phase = "idle" => call[x] = Idle
        /\ call[x].phase # "idle" => call[x].hash \in Hashes
        /\ call[x].phase \notin {"idle", "reading"} => call[x].doc \in Documents
        /\ call[x].phase \in {"updated", "inserted"} => call[x].number \in Numbers
        /\ x \in Stores /\ call[x].phase = "selected" => call[x].number \in Numbers
        /\ call[x].phase # "inserted" => call[x].id = NoId
        /\ call[x].phase = "inserted" => call[x].id \in Ids
        /\ call[x].phase \in {"created", "reading", "missing"} => call[x].seen = {}

\* An uncommitted version has an id of its own.
IdsReserved ==
    /\ \A x \in Processes : call[x].phase = "inserted" => call[x].id \notin DOMAIN versions
    /\ \A x, y \in Processes :
         x # y /\ call[x].phase = "inserted" /\ call[y].phase = "inserted"
             => call[x].id # call[y].id

\* A call retires versions of its own document only.
SeenInDocument ==
    \A x \in Processes : call[x].seen \subseteq VersionsOf(call[x].doc)

DocumentsCommitted ==
    \A i \in DOMAIN versions : versions[i].doc \in documents

IInv ==
    /\ TypeOK
    /\ CallShape
    /\ IdsReserved
    /\ SeenInDocument
    /\ DocumentsCommitted
    /\ NeverWithoutCurrent

-----------------------------------------------------------------------------
LEMMA IdleIsCall == Idle \in Call
  BY DEF Idle, Call

LEMMA InitIInv == Init => IInv
<1> SUFFICES ASSUME Init PROVE IInv
  OBVIOUS
<1>1. call \in [Processes -> Call] /\ \A x \in Processes : call[x] = Idle
  BY IdleIsCall DEF Init
<1>2. DOMAIN versions = {} /\ versions \in [DOMAIN versions -> Version]
  BY DEF Init
<1>3. documents \subseteq Documents
  BY DEF Init
<1>4. TypeOK
  BY <1>1, <1>2, <1>3 DEF TypeOK
<1>5. CallShape /\ IdsReserved /\ SeenInDocument
  BY <1>1 DEF CallShape, IdsReserved, SeenInDocument, Idle
<1> QED
  BY <1>2, <1>4, <1>5 DEF IInv, DocumentsCommitted, NeverWithoutCurrent

\* A step that leaves the committed versions alone changes one call, and
\* keeps the invariant when the new value of the call fits.
LEMMA CallStep ==
  ASSUME IInv, NEW x \in Processes, NEW c \in Call,
         call' = [call EXCEPT ![x] = c], UNCHANGED versions,
         documents \subseteq documents', documents' \subseteq Documents,
         c.phase = "idle" => c = Idle,
         c.phase # "idle" => c.hash \in Hashes,
         c.phase \notin {"idle", "reading"} => c.doc \in Documents,
         c.phase \in {"updated", "inserted"} => c.number \in Numbers,
         x \in Stores /\ c.phase = "selected" => c.number \in Numbers,
         c.phase # "inserted" => c.id = NoId,
         c.phase = "inserted" => c.id \in FreshIds,
         c.phase \in {"created", "reading", "missing"} => c.seen = {},
         c.seen \subseteq VersionsOf(c.doc)
  PROVE  IInv'
<1>1. TypeOK'
  BY DEF IInv, TypeOK
<1>2. \A y \in Processes : call'[y] = IF y = x THEN c ELSE call[y]
  BY DEF IInv, TypeOK
<1>3. CallShape'
  BY <1>2 DEF IInv, CallShape, FreshIds
<1>4. IdsReserved'
  BY <1>2 DEF IInv, IdsReserved, FreshIds
<1>5. SeenInDocument'
  BY <1>2 DEF IInv, SeenInDocument, VersionsOf
<1>6. DocumentsCommitted' /\ NeverWithoutCurrent'
  BY DEF IInv, DocumentsCommitted, NeverWithoutCurrent, CurrentOf, VersionsOf
<1> QED
  BY <1>1, <1>3, <1>4, <1>5, <1>6 DEF IInv

\* What a commit publishes.
LEMMA CommitPublishes ==
  ASSUME IInv, NEW x \in Processes, Commit(x)
  PROVE  /\ call[x].id \in Ids \ DOMAIN versions
         /\ call[x].doc \in Documents /\ call[x].number \in Numbers
         /\ call[x].hash \in Hashes
         /\ DOMAIN versions' = DOMAIN versions \cup {call[x].id}
         /\ versions'[call[x].id] = NewVersion(call[x])
         /\ \A i \in DOMAIN versions :
              /\ i # call[x].id
              /\ versions'[i].doc = versions[i].doc
              /\ versions'[i].number = versions[i].number
              /\ versions'[i].hash = versions[i].hash
              /\ versions'[i].current = (versions[i].current /\ i \notin call[x].seen)
              /\ versions'[i] \in Version
         /\ \A y \in Processes : call'[y] = IF y = x THEN Idle ELSE call[y]
<1>1. /\ call[x].phase = "inserted"
      /\ versions' = [i \in DOMAIN versions \cup {call[x].id} |->
                        IF i = call[x].id THEN NewVersion(call[x]) ELSE Retired(call[x], i)]
      /\ call' = [call EXCEPT ![x] = Idle]
  BY DEF Commit
<1>2. /\ call[x].id \in Ids \ DOMAIN versions
      /\ call[x].doc \in Documents /\ call[x].number \in Numbers
      /\ call[x].hash \in Hashes
  BY <1>1 DEF IInv, CallShape, IdsReserved
<1>3. \A i \in DOMAIN versions :
        i # call[x].id /\ versions[i] \in Version /\ versions'[i] = Retired(call[x], i)
  BY <1>1, <1>2 DEF IInv, TypeOK
<1>4. \A i \in DOMAIN versions :
        /\ Retired(call[x], i) \in Version
        /\ Retired(call[x], i).doc = versions[i].doc
        /\ Retired(call[x], i).number = versions[i].number
        /\ Retired(call[x], i).hash = versions[i].hash
        /\ Retired(call[x], i).current = (versions[i].current /\ i \notin call[x].seen)
  <2> SUFFICES ASSUME NEW i \in DOMAIN versions
               PROVE  /\ Retired(call[x], i) \in Version
                      /\ Retired(call[x], i).doc = versions[i].doc
                      /\ Retired(call[x], i).number = versions[i].number
                      /\ Retired(call[x], i).hash = versions[i].hash
                      /\ Retired(call[x], i).current
                           = (versions[i].current /\ i \notin call[x].seen)
    OBVIOUS
  <2>1. versions[i] \in Version
    BY <1>3
  <2> DEFINE kept == versions[i].current /\ i \notin call[x].seen
  <2>2. kept \in BOOLEAN
    BY <2>1 DEF Version
  <2>3. Retired(call[x], i) = [versions[i] EXCEPT !.current = kept]
    BY DEF Retired
  <2> HIDE DEF kept
  <2>4. /\ Retired(call[x], i) \in Version
        /\ Retired(call[x], i).doc = versions[i].doc
        /\ Retired(call[x], i).number = versions[i].number
        /\ Retired(call[x], i).hash = versions[i].hash
        /\ Retired(call[x], i).current = kept
    BY <2>1, <2>2, <2>3 DEF Version
  <2> QED
    BY <2>4 DEF kept
<1>5. \A y \in Processes : call'[y] = IF y = x THEN Idle ELSE call[y]
  BY <1>1 DEF IInv, TypeOK
<1>6. /\ DOMAIN versions' = DOMAIN versions \cup {call[x].id}
      /\ versions'[call[x].id] = NewVersion(call[x])
  BY <1>1
<1> QED
  BY <1>2, <1>3, <1>4, <1>5, <1>6

LEMMA CommitIInv ==
  ASSUME IInv, NEW x \in Processes, Commit(x)
  PROVE  IInv'
<1> DEFINE c == call[x]
<1>1. /\ c.id \in Ids \ DOMAIN versions
      /\ c.doc \in Documents /\ c.number \in Numbers /\ c.hash \in Hashes
      /\ DOMAIN versions' = DOMAIN versions \cup {c.id}
      /\ versions'[c.id] = NewVersion(c)
      /\ \A i \in DOMAIN versions :
           /\ i # c.id
           /\ versions'[i].doc = versions[i].doc
           /\ versions'[i].current = (versions[i].current /\ i \notin c.seen)
           /\ versions'[i] \in Version
      /\ \A y \in Processes : call'[y] = IF y = x THEN Idle ELSE call[y]
  BY CommitPublishes
<1>2. /\ c.phase = "inserted"
      /\ documents' = documents \cup {c.doc}
      /\ call' = [call EXCEPT ![x] = Idle]
  BY DEF Commit
<1>3. /\ NewVersion(c) \in Version
      /\ NewVersion(c).doc = c.doc /\ NewVersion(c).current
  BY <1>1 DEF NewVersion, Version
<1> HIDE DEF c
<1>4. TypeOK'
  <2>1. documents' \subseteq Documents /\ DOMAIN versions' \subseteq Ids
    BY <1>1, <1>2 DEF IInv, TypeOK
  <2>2. call' \in [Processes -> Call]
    BY <1>2, IdleIsCall DEF IInv, TypeOK
  <2>3. \A i \in DOMAIN versions' : versions'[i] \in Version
    BY <1>1, <1>3
  <2>4. versions' = [i \in DOMAIN versions' |-> versions'[i]]
    BY DEF Commit
  <2> QED
    BY <2>1, <2>2, <2>3, <2>4 DEF TypeOK
<1>5. CallShape'
  <2>1. \A y \in Processes : call'[y] = Idle \/ call'[y] = call[y]
    BY <1>1
  <2>2. Idle.phase = "idle" /\ Idle.id = NoId /\ Idle.seen = {}
    BY DEF Idle
  <2> QED
    BY <2>1, <2>2 DEF IInv, CallShape
<1>6. IdsReserved'
  <2> SUFFICES ASSUME NEW y \in Processes, call'[y].phase = "inserted"
               PROVE  /\ call'[y].id \notin DOMAIN versions'
                      /\ \A z \in Processes : y # z /\ call'[z].phase = "inserted"
                           => call'[y].id # call'[z].id
    BY DEF IdsReserved
  <2>1. y # x /\ call'[y] = call[y]
    BY <1>1 DEF Idle
  <2>2. call[y].id # c.id /\ call[y].id \notin DOMAIN versions
    BY <1>2, <2>1 DEF IInv, IdsReserved, c
  <2>3. \A z \in Processes : call'[z].phase = "inserted" => call'[z] = call[z]
    BY <1>1 DEF Idle
  <2> QED
    BY <1>1, <2>1, <2>2, <2>3 DEF IInv, IdsReserved
<1>7. SeenInDocument'
  BY <1>1 DEF IInv, SeenInDocument, VersionsOf, Idle
<1>8. DocumentsCommitted'
  BY <1>1, <1>2, <1>3 DEF IInv, DocumentsCommitted
<1>9. NeverWithoutCurrent'
  <2> SUFFICES ASSUME NEW i \in DOMAIN versions'
               PROVE  \E j \in DOMAIN versions' :
                        versions'[j].doc = versions'[i].doc /\ versions'[j].current
    BY DEF NeverWithoutCurrent, CurrentOf, VersionsOf
  <2>1. CASE versions'[i].doc = c.doc
    BY <1>1, <1>3, <2>1
  <2>2. CASE versions'[i].doc # c.doc
    <3>1. i \in DOMAIN versions /\ versions[i].doc # c.doc
      BY <1>1, <1>3, <2>2
    <3>2. PICK j \in DOMAIN versions :
            versions[j].doc = versions[i].doc /\ versions[j].current
      BY <3>1 DEF IInv, NeverWithoutCurrent, CurrentOf, VersionsOf
    <3>3. j \notin c.seen
      BY <3>1, <3>2 DEF IInv, SeenInDocument, VersionsOf, c
    <3> QED
      BY <1>1, <3>1, <3>2, <3>3
  <2> QED
    BY <2>1, <2>2
<1> QED
  BY <1>4, <1>5, <1>6, <1>7, <1>8, <1>9 DEF IInv

LEMMA FailIInv ==
  ASSUME IInv, NEW x \in Processes, Fail(x)
  PROVE  IInv'
<1>1. /\ call' = [call EXCEPT ![x] = Idle]
      /\ UNCHANGED <<documents, versions>>
  BY DEF Fail
<1>2. /\ Idle.phase = "idle" /\ Idle.id = NoId /\ Idle.seen = {}
  BY DEF Idle
<1> QED
  BY <1>1, <1>2, IdleIsCall, CallStep DEF IInv, TypeOK

LEMMA IndexerIInv ==
  ASSUME IInv, NEW w \in Indexers, IndexerStep(w)
  PROVE  IInv'
<1> w \in Processes /\ w \notin Stores
  BY WritersDisjoint DEF Processes
<1> call[w] \in Call /\ documents \subseteq Documents
  BY DEF IInv, TypeOK
<1>1. ASSUME NEW h \in Hashes, Look(w, h) PROVE IInv'
  <2>1. call[w] = Idle
    BY <1>1 DEF IInv, CallShape, Look
  <2>2. ASSUME NEW d \in FreshDocuments,
               call' = [call EXCEPT ![w] =
                 [call[w] EXCEPT !.phase = "created", !.hash = h, !.doc = d]]
        PROVE  IInv'
    <3> DEFINE c == [call[w] EXCEPT !.phase = "created", !.hash = h, !.doc = d]
    <3>1. /\ c \in Call /\ c.phase = "created" /\ c.hash = h /\ c.doc \in Documents
          /\ c.id = NoId /\ c.seen = {}
      <4>1. d \in Documents
        BY DEF FreshDocuments
      <4>2. call[w].id = NoId /\ call[w].seen = {}
        BY <2>1 DEF Idle
      <4> QED
        BY <4>1, <4>2 DEF Call
    <3>2. UNCHANGED <<documents, versions>>
      BY <1>1 DEF Look
    <3> HIDE DEF c
    <3>3. call' = [call EXCEPT ![w] = c]
      BY <2>2 DEF c
    <3> QED
      BY <3>1, <3>2, <3>3, CallStep
  <2>3. ASSUME call' = [call EXCEPT ![w] = [call[w] EXCEPT !.phase = "reading", !.hash = h]]
        PROVE  IInv'
    <3> DEFINE c == [call[w] EXCEPT !.phase = "reading", !.hash = h]
    <3>1. c \in Call /\ c.phase = "reading" /\ c.hash = h /\ c.id = NoId /\ c.seen = {}
      <4>1. call[w].id = NoId /\ call[w].seen = {}
        BY <2>1 DEF Idle
      <4> QED
        BY <4>1 DEF Call
    <3>2. UNCHANGED <<documents, versions>>
      BY <1>1 DEF Look
    <3> HIDE DEF c
    <3>3. call' = [call EXCEPT ![w] = c]
      BY <2>3 DEF c
    <3> QED
      BY <3>1, <3>2, <3>3, CallStep
  <2> QED
    BY <1>1, <2>2, <2>3 DEF Look
<1>2. ASSUME CreateDocument(w) PROVE IInv'
  <2> DEFINE c == [call[w] EXCEPT !.phase = "reading", !.doc = NoDocument]
  <2>1. /\ call[w].phase = "created" /\ call[w].doc \in Documents
        /\ call[w].hash \in Hashes /\ call[w].id = NoId /\ call[w].seen = {}
    BY <1>2 DEF IInv, CallShape, CreateDocument
  <2>2. /\ c \in Call /\ c.phase = "reading" /\ c.hash \in Hashes
        /\ c.id = NoId /\ c.seen = {}
    BY <2>1 DEF Call
  <2>3. documents' = documents \cup {call[w].doc} /\ UNCHANGED versions
    BY <1>2 DEF CreateDocument
  <2> HIDE DEF c
  <2>4. call' = [call EXCEPT ![w] = c]
    BY <1>2 DEF CreateDocument, c
  <2> QED
    BY <2>1, <2>2, <2>3, <2>4, CallStep
<1>3. ASSUME LookAgain(w) PROVE IInv'
  <2>1. PICK d \in documents : call' = [call EXCEPT ![w] =
           IF Found(d, call[w].hash) THEN Idle
           ELSE [call[w] EXCEPT !.phase = "missing", !.doc = d]]
    BY <1>3 DEF LookAgain
  <2>2. /\ call[w].phase = "reading" /\ call[w].hash \in Hashes
        /\ call[w].id = NoId /\ call[w].seen = {} /\ UNCHANGED <<documents, versions>>
    BY <1>3 DEF IInv, CallShape, LookAgain
  <2>3. CASE Found(d, call[w].hash)
    <3>1. call' = [call EXCEPT ![w] = Idle]
      BY <2>1, <2>3
    <3>2. Fail(w)
      BY <2>2, <3>1 DEF Fail
    <3> QED
      BY <3>2, FailIInv
  <2>4. CASE ~ Found(d, call[w].hash)
    <3> DEFINE c == [call[w] EXCEPT !.phase = "missing", !.doc = d]
    <3>1. /\ c \in Call /\ c.phase = "missing" /\ c.hash \in Hashes
          /\ c.doc \in Documents /\ c.id = NoId /\ c.seen = {}
      BY <2>2 DEF Call
    <3> HIDE DEF c
    <3>2. call' = [call EXCEPT ![w] = c]
      BY <2>1, <2>4 DEF c
    <3> QED
      BY <2>2, <3>1, <3>2, CallStep
  <2> QED
    BY <2>3, <2>4
<1>4. ASSUME Select(w) PROVE IInv'
  <2> DEFINE c == [call[w] EXCEPT !.phase = "selected", !.seen = CurrentOf(call[w].doc)]
  <2>1. /\ call[w].phase = "missing" /\ call[w].hash \in Hashes
        /\ call[w].doc \in Documents /\ call[w].id = NoId /\ UNCHANGED <<documents, versions>>
    BY <1>4 DEF IInv, CallShape, Select
  <2>2. CurrentOf(call[w].doc) \subseteq VersionsOf(call[w].doc) /\ VersionsOf(call[w].doc) \subseteq Ids
    BY DEF CurrentOf, VersionsOf, IInv, TypeOK
  <2>3. /\ c \in Call /\ c.phase = "selected" /\ c.hash \in Hashes
        /\ c.doc \in Documents /\ c.id = NoId /\ c.seen \subseteq VersionsOf(c.doc)
    BY <2>1, <2>2 DEF Call
  <2> HIDE DEF c
  <2>4. call' = [call EXCEPT ![w] = c]
    BY <1>4 DEF Select, c
  <2> QED
    BY <2>1, <2>3, <2>4, CallStep
<1>5. ASSUME Update(w) PROVE IInv'
  <2>1. PICK n \in Numbers :
          call' = [call EXCEPT ![w] = [call[w] EXCEPT !.phase = "updated", !.number = n]]
    BY <1>5 DEF Update
  <2> DEFINE c == [call[w] EXCEPT !.phase = "updated", !.number = n]
  <2>2. /\ call[w].phase = "selected" /\ call[w].hash \in Hashes
        /\ call[w].doc \in Documents /\ call[w].id = NoId
        /\ call[w].seen \subseteq VersionsOf(call[w].doc) /\ UNCHANGED <<documents, versions>>
    BY <1>5 DEF IInv, CallShape, SeenInDocument, Update
  <2>3. /\ c \in Call /\ c.phase = "updated" /\ c.hash \in Hashes /\ c.number \in Numbers
        /\ c.doc \in Documents /\ c.id = NoId /\ c.seen \subseteq VersionsOf(c.doc)
    BY <2>2 DEF Call
  <2> HIDE DEF c
  <2>4. call' = [call EXCEPT ![w] = c]
    BY <2>1 DEF c
  <2> QED
    BY <2>2, <2>3, <2>4, CallStep
<1>6. ASSUME Insert(w) PROVE IInv'
  <2>1. PICK i \in FreshIds :
          call' = [call EXCEPT ![w] = [call[w] EXCEPT !.phase = "inserted", !.id = i]]
    BY <1>6 DEF Insert
  <2> DEFINE c == [call[w] EXCEPT !.phase = "inserted", !.id = i]
  <2>2. /\ call[w].phase = "updated" /\ call[w].hash \in Hashes
        /\ call[w].doc \in Documents /\ call[w].number \in Numbers
        /\ call[w].seen \subseteq VersionsOf(call[w].doc) /\ UNCHANGED <<documents, versions>>
    BY <1>6 DEF IInv, CallShape, SeenInDocument, Insert
  <2>3. /\ c \in Call /\ c.phase = "inserted" /\ c.hash \in Hashes /\ c.number \in Numbers
        /\ c.doc \in Documents /\ c.id = i /\ c.seen \subseteq VersionsOf(c.doc)
    BY <2>2 DEF Call, FreshIds
  <2> HIDE DEF c
  <2>4. call' = [call EXCEPT ![w] = c]
    BY <2>1 DEF c
  <2> QED
    BY <2>2, <2>3, <2>4, CallStep
<1> QED
  BY <1>1, <1>2, <1>3, <1>4, <1>5, <1>6, CommitIInv, FailIInv DEF IndexerStep

LEMMA StoreIInv ==
  ASSUME IInv, NEW s \in Stores, StoreStep(s)
  PROVE  IInv'
<1> s \in Processes
  BY DEF Processes
<1> call[s] \in Call /\ documents \subseteq Documents
  BY DEF IInv, TypeOK
<1>1. ASSUME NEW d \in Documents, NEW h \in Hashes, Lock(s, d, h) PROVE IInv'
  <2>1. PICK n \in Numbers : call' = [call EXCEPT ![s] =
          [call[s] EXCEPT !.phase = "selected", !.hash = h, !.doc = d,
                          !.seen = CurrentOf(d), !.number = n]]
    BY <1>1 DEF Lock
  <2> DEFINE c == [call[s] EXCEPT !.phase = "selected", !.hash = h, !.doc = d,
                                  !.seen = CurrentOf(d), !.number = n]
  <2>2. call[s] = Idle /\ UNCHANGED <<documents, versions>>
    BY <1>1 DEF IInv, CallShape, Lock
  <2>3. CurrentOf(d) \subseteq VersionsOf(d) /\ VersionsOf(d) \subseteq Ids
    BY DEF CurrentOf, VersionsOf, IInv, TypeOK
  <2>4. /\ c \in Call /\ c.phase = "selected" /\ c.hash = h /\ c.doc = d /\ c.number = n
        /\ c.id = NoId /\ c.seen \subseteq VersionsOf(c.doc)
    <3>1. call[s].id = NoId
      BY <2>2 DEF Idle
    <3> QED
      BY <2>3, <3>1 DEF Call
  <2> HIDE DEF c
  <2>5. call' = [call EXCEPT ![s] = c]
    BY <2>1 DEF c
  <2> QED
    BY <2>2, <2>4, <2>5, CallStep
<1>2. ASSUME NEW d \in Documents, NEW h \in Hashes, New(s, d, h) PROVE IInv'
  <2> DEFINE c == [call[s] EXCEPT !.phase = "selected", !.hash = h, !.doc = d, !.number = 1]
  <2>1. call[s] = Idle /\ 1 \in Numbers /\ UNCHANGED <<documents, versions>>
    BY <1>2 DEF IInv, CallShape, New
  <2>2. /\ c \in Call /\ c.phase = "selected" /\ c.hash = h /\ c.doc = d
        /\ c.number \in Numbers /\ c.id = NoId /\ c.seen = {}
    <3>1. call[s].id = NoId /\ call[s].seen = {}
      BY <2>1 DEF Idle
    <3> QED
      BY <2>1, <3>1 DEF Call
  <2> HIDE DEF c
  <2>3. call' = [call EXCEPT ![s] = c]
    BY <1>2 DEF New, c
  <2> QED
    BY <2>1, <2>2, <2>3, CallStep
<1>3. ASSUME Write(s) PROVE IInv'
  <2>1. PICK i \in FreshIds :
          call' = [call EXCEPT ![s] = [call[s] EXCEPT !.phase = "inserted", !.id = i]]
    BY <1>3 DEF Write
  <2> DEFINE c == [call[s] EXCEPT !.phase = "inserted", !.id = i]
  <2>2. /\ call[s].phase = "selected" /\ call[s].hash \in Hashes
        /\ call[s].doc \in Documents /\ call[s].number \in Numbers
        /\ call[s].seen \subseteq VersionsOf(call[s].doc) /\ UNCHANGED <<documents, versions>>
    BY <1>3 DEF IInv, CallShape, SeenInDocument, Write
  <2>3. /\ c \in Call /\ c.phase = "inserted" /\ c.hash \in Hashes /\ c.number \in Numbers
        /\ c.doc \in Documents /\ c.id = i /\ c.seen \subseteq VersionsOf(c.doc)
    BY <2>2 DEF Call, FreshIds
  <2> HIDE DEF c
  <2>4. call' = [call EXCEPT ![s] = c]
    BY <2>1 DEF c
  <2> QED
    BY <2>2, <2>3, <2>4, CallStep
<1> QED
  BY <1>1, <1>2, <1>3, CommitIInv, FailIInv DEF StoreStep

LEMMA NextIInv == IInv /\ [Next]_vars => IInv'
<1> SUFFICES ASSUME IInv, [Next]_vars PROVE IInv'
  OBVIOUS
<1>1. CASE UNCHANGED vars
  BY <1>1 DEF vars, IInv, TypeOK, CallShape, IdsReserved, SeenInDocument,
     DocumentsCommitted, NeverWithoutCurrent, CurrentOf, VersionsOf
<1> QED
  BY <1>1, IndexerIInv, StoreIInv DEF Next

\* The strengthened invariant of both writers.
THEOREM Invariance == Spec => []IInv
  BY InitIInv, NextIInv, PTL DEF Spec

\* Documents, versions and calls stay well typed, whoever writes.
THEOREM TypeCorrect == Spec => []TypeOK
<1>1. IInv => TypeOK
  BY DEF IInv
<1> QED
  BY Invariance, <1>1, PTL

\* index_document and store, however they interleave and fail, leave every
\* document that has versions with a current one.
THEOREM AlwaysCurrent == Spec => []NeverWithoutCurrent
<1>1. IInv => NeverWithoutCurrent
  BY DEF IInv
<1> QED
  BY Invariance, <1>1, PTL

-----------------------------------------------------------------------------
(***************************************************************************)
(* The requests of the API alone.  Each holds its Document row, so what it *)
(* read under the lock is still true when it commits.                      *)
(***************************************************************************)

StoresExclusive ==
    \A s, t \in Stores :
        s # t /\ call[s].phase # "idle" => call[t].doc # call[s].doc

StoresHold ==
    \A s \in Stores :
        /\ call[s].phase \in {"idle", "selected", "inserted"}
        /\ call[s].phase # "idle" =>
             /\ call[s].seen = CurrentOf(call[s].doc)
             /\ \A i \in VersionsOf(call[s].doc) :
                  versions[i].number < call[s].number /\ versions[i].hash # call[s].hash

SInv ==
    /\ StoresExclusive
    /\ StoresHold
    /\ OneCurrentVersion
    /\ NumbersAndContentsUnique
    /\ CurrentIsLatest

LEMMA InitSInv == Init => SInv
<1> SUFFICES ASSUME Init PROVE SInv
  OBVIOUS
<1>1. \A s \in Stores : call[s].phase = "idle"
  BY DEF Init, Idle, Processes
<1>2. DOMAIN versions = {}
  BY DEF Init
<1> QED
  BY <1>1, <1>2 DEF SInv, StoresExclusive, StoresHold, OneCurrentVersion,
     NumbersAndContentsUnique, CurrentIsLatest

\* A step of a request that publishes nothing.
LEMMA StoreCallStep ==
  ASSUME IInv, SInv, NEW s \in Stores, NEW c,
         call' = [call EXCEPT ![s] = c], UNCHANGED versions,
         c.phase \in {"idle", "selected", "inserted"},
         c.phase = "idle" => c.doc = NoDocument,
         c.phase # "idle" =>
           /\ \A t \in Stores \ {s} : call[t].doc # c.doc
           /\ c.seen = CurrentOf(c.doc)
           /\ \A i \in VersionsOf(c.doc) :
                versions[i].number < c.number /\ versions[i].hash # c.hash
  PROVE  SInv'
<1>1. \A t \in Stores : call'[t] = IF t = s THEN c ELSE call[t]
  BY DEF IInv, TypeOK, Processes
<1>2. \A d : VersionsOf(d)' = VersionsOf(d) /\ CurrentOf(d)' = CurrentOf(d)
  BY DEF VersionsOf, CurrentOf
<1>3. StoresExclusive'
  <2> SUFFICES ASSUME NEW t \in Stores, NEW u \in Stores, t # u, call'[t].phase # "idle"
               PROVE  call'[u].doc # call'[t].doc
    BY DEF StoresExclusive
  <2>1. CASE t = s
    BY <1>1, <2>1
  <2>2. CASE t # s /\ u # s
    BY <1>1, <2>2 DEF SInv, StoresExclusive
  <2>3. CASE t # s /\ u = s
    <3>1. call[t].phase # "idle" /\ call[t].doc \in Documents
      BY <1>1, <2>3 DEF IInv, CallShape, SInv, StoresHold, Processes
    <3> QED
      BY <1>1, <2>3, <3>1, NullsAreFresh
  <2> QED
    BY <2>1, <2>2, <2>3
<1>4. StoresHold'
  <2> SUFFICES ASSUME NEW t \in Stores
               PROVE  /\ call'[t].phase \in {"idle", "selected", "inserted"}
                      /\ call'[t].phase # "idle" =>
                           /\ call'[t].seen = CurrentOf(call'[t].doc)
                           /\ \A i \in VersionsOf(call'[t].doc) :
                                /\ versions[i].number < call'[t].number
                                /\ versions[i].hash # call'[t].hash
    BY <1>2 DEF StoresHold
  <2> QED
    BY <1>1 DEF SInv, StoresHold
<1>5. OneCurrentVersion' /\ NumbersAndContentsUnique' /\ CurrentIsLatest'
  BY DEF SInv, OneCurrentVersion, NumbersAndContentsUnique, CurrentIsLatest
<1> QED
  BY <1>3, <1>4, <1>5 DEF SInv

LEMMA CommitSInv ==
  ASSUME IInv, SInv, NEW s \in Stores, Commit(s)
  PROVE  SInv'
<1> DEFINE c == call[s]
<1> s \in Processes
  BY DEF Processes
<1>1. /\ c.id \in Ids \ DOMAIN versions
      /\ c.doc \in Documents /\ c.number \in Numbers /\ c.hash \in Hashes
      /\ DOMAIN versions' = DOMAIN versions \cup {c.id}
      /\ versions'[c.id] = NewVersion(c)
      /\ \A i \in DOMAIN versions :
           /\ i # c.id
           /\ versions'[i].doc = versions[i].doc
           /\ versions'[i].number = versions[i].number
           /\ versions'[i].hash = versions[i].hash
           /\ versions'[i].current = (versions[i].current /\ i \notin c.seen)
      /\ \A y \in Processes : call'[y] = IF y = s THEN Idle ELSE call[y]
  BY CommitPublishes
<1>2. c.phase = "inserted"
  BY DEF Commit
<1>3. /\ versions'[c.id].doc = c.doc /\ versions'[c.id].number = c.number
      /\ versions'[c.id].hash = c.hash /\ versions'[c.id].current
  BY <1>1 DEF NewVersion
<1>4. \A i \in DOMAIN versions : versions[i].doc = c.doc =>
        /\ versions[i].number < c.number
        /\ versions[i].hash # c.hash
        /\ ~ versions'[i].current
  <2> SUFFICES ASSUME NEW i \in DOMAIN versions, versions[i].doc = c.doc
               PROVE  /\ versions[i].number < c.number
                      /\ versions[i].hash # c.hash
                      /\ ~ versions'[i].current
    OBVIOUS
  <2>1. /\ c.seen = CurrentOf(c.doc)
        /\ \A j \in VersionsOf(c.doc) :
             versions[j].number < c.number /\ versions[j].hash # c.hash
    BY <1>2 DEF SInv, StoresHold
  <2>2. i \in VersionsOf(c.doc)
    BY DEF VersionsOf
  <2>3. versions[i].current => i \in c.seen
    BY <2>1, <2>2 DEF CurrentOf
  <2> QED
    BY <1>1, <2>1, <2>2, <2>3
<1>5. \A i \in DOMAIN versions : versions[i].doc # c.doc =>
        versions'[i].current = versions[i].current
  BY <1>1 DEF IInv, SeenInDocument, VersionsOf, TypeOK, Version
<1>6. /\ c.number \in Nat
      /\ \A i \in DOMAIN versions : versions[i].number \in Nat
  BY <1>1, NumbersAreNaturals DEF IInv, TypeOK, Version
<1>7. \A t \in Stores : t # s =>
        call'[t] = call[t] /\ call[t].doc # c.doc
  BY <1>1, <1>2 DEF Processes, SInv, StoresExclusive
<1>8. call'[s] = Idle /\ Idle.phase = "idle" /\ Idle.doc = NoDocument
  BY <1>1 DEF Idle
<1> HIDE DEF c
<1>9. StoresExclusive'
  <2> SUFFICES ASSUME NEW t \in Stores, NEW u \in Stores, t # u, call'[t].phase # "idle"
               PROVE  call'[u].doc # call'[t].doc
    BY DEF StoresExclusive
  <2>1. t # s /\ call'[t] = call[t]
    BY <1>7, <1>8
  <2>2. call[t].doc \in Documents
    BY <2>1 DEF IInv, CallShape, SInv, StoresHold, Processes
  <2> QED
    BY <1>7, <1>8, <2>1, <2>2, NullsAreFresh DEF SInv, StoresExclusive
<1>10. StoresHold'
  <2> SUFFICES ASSUME NEW t \in Stores
               PROVE  /\ call'[t].phase \in {"idle", "selected", "inserted"}
                      /\ call'[t].phase # "idle" =>
                           /\ call'[t].seen = {i \in DOMAIN versions' :
                                versions'[i].doc = call'[t].doc /\ versions'[i].current}
                           /\ \A i \in DOMAIN versions' : versions'[i].doc = call'[t].doc =>
                                /\ versions'[i].number < call'[t].number
                                /\ versions'[i].hash # call'[t].hash
    BY Zenon DEF StoresHold, CurrentOf, VersionsOf
  <2>1. CASE t = s
    BY <1>8, <2>1
  <2>2. CASE t # s
    <3>1. call'[t] = call[t] /\ call[t].doc # c.doc
      BY <1>7, <2>2
    <3>2. /\ {i \in DOMAIN versions' : versions'[i].doc = call[t].doc /\ versions'[i].current}
               = CurrentOf(call[t].doc)
          /\ {i \in DOMAIN versions' : versions'[i].doc = call[t].doc}
               = VersionsOf(call[t].doc)
      BY <1>1, <1>3, <1>5, <3>1 DEF CurrentOf, VersionsOf
    <3>3. /\ call[t].phase \in {"idle", "selected", "inserted"}
          /\ call[t].phase # "idle" =>
               /\ call[t].seen = CurrentOf(call[t].doc)
               /\ \A i \in VersionsOf(call[t].doc) :
                    versions[i].number < call[t].number /\ versions[i].hash # call[t].hash
      BY DEF SInv, StoresHold
    <3>4. \A i \in DOMAIN versions' : versions'[i].doc = call[t].doc =>
            /\ i \in VersionsOf(call[t].doc)
            /\ versions'[i].number = versions[i].number
            /\ versions'[i].hash = versions[i].hash
      BY <1>1, <1>3, <3>1 DEF VersionsOf
    <3> QED
      BY <3>1, <3>2, <3>3, <3>4
  <2> QED
    BY <2>1, <2>2
<1>11. OneCurrentVersion'
  BY <1>1, <1>3, <1>4, <1>5 DEF SInv, OneCurrentVersion
<1>12. NumbersAndContentsUnique'
  BY <1>1, <1>3, <1>4, <1>6 DEF SInv, NumbersAndContentsUnique
<1>13. CurrentIsLatest'
  BY <1>1, <1>3, <1>4, <1>5, <1>6 DEF SInv, CurrentIsLatest
<1> QED
  BY <1>9, <1>10, <1>11, <1>12, <1>13 DEF SInv

LEMMA NextSInv ==
  ASSUME Indexers = {}
  PROVE  IInv /\ SInv /\ [Next]_vars => SInv'
<1> SUFFICES ASSUME IInv, SInv, [Next]_vars PROVE SInv'
  OBVIOUS
<1>1. CASE UNCHANGED vars
  BY <1>1 DEF vars, SInv, StoresExclusive, StoresHold, OneCurrentVersion,
     NumbersAndContentsUnique, CurrentIsLatest, CurrentOf, VersionsOf
<1>2. ASSUME NEW s \in Stores, StoreStep(s) PROVE SInv'
  <2> s \in Processes
    BY DEF Processes
  <2>1. ASSUME NEW d \in Documents, NEW h \in Hashes, Lock(s, d, h) PROVE SInv'
    <3>1. PICK n \in Numbers :
            /\ IsNextNumber(n, d)
            /\ call' = [call EXCEPT ![s] =
                 [call[s] EXCEPT !.phase = "selected", !.hash = h, !.doc = d,
                                 !.seen = CurrentOf(d), !.number = n]]
      BY <2>1 DEF Lock
    <3> DEFINE c == [call[s] EXCEPT !.phase = "selected", !.hash = h, !.doc = d,
                                    !.seen = CurrentOf(d), !.number = n]
    <3>2. /\ c.phase = "selected" /\ c.hash = h /\ c.doc = d
          /\ c.seen = CurrentOf(d) /\ c.number = n
      BY DEF IInv, TypeOK, Call
    <3>3. \A i \in VersionsOf(d) : versions[i].number < n /\ versions[i].hash # h
      BY <2>1, <3>1 DEF Lock, Found, IsNextNumber
    <3>4. \A t \in Stores \ {s} : call[t].doc # d
      BY <2>1 DEF Lock, LockFree
    <3> HIDE DEF c
    <3>5. call' = [call EXCEPT ![s] = c] /\ UNCHANGED versions
      BY <2>1, <3>1 DEF Lock, c
    <3> QED
      BY <3>2, <3>3, <3>4, <3>5, StoreCallStep
  <2>2. ASSUME NEW d \in Documents, NEW h \in Hashes, New(s, d, h) PROVE SInv'
    <3> DEFINE c == [call[s] EXCEPT !.phase = "selected", !.hash = h, !.doc = d, !.number = 1]
    <3>1. call[s].seen = {}
      BY <2>2 DEF New, IInv, CallShape, Idle
    <3>2. c.phase = "selected" /\ c.doc = d /\ c.seen = {}
      BY <3>1 DEF IInv, TypeOK, Call
    <3>3. d \notin documents /\ \A t \in Stores \ {s} : call[t].doc # d
      BY <2>2 DEF New, FreshDocuments, Processes
    <3>4. VersionsOf(d) = {} /\ CurrentOf(d) = {}
      BY <3>3 DEF IInv, DocumentsCommitted, VersionsOf, CurrentOf
    <3> HIDE DEF c
    <3>5. call' = [call EXCEPT ![s] = c] /\ UNCHANGED versions
      BY <2>2 DEF New, c
    <3> QED
      BY <3>2, <3>3, <3>4, <3>5, StoreCallStep
  <2>3. ASSUME Write(s) PROVE SInv'
    <3>1. PICK i \in FreshIds :
            call' = [call EXCEPT ![s] = [call[s] EXCEPT !.phase = "inserted", !.id = i]]
      BY <2>3 DEF Write
    <3> DEFINE c == [call[s] EXCEPT !.phase = "inserted", !.id = i]
    <3>2. /\ c.phase = "inserted" /\ c.doc = call[s].doc /\ c.seen = call[s].seen
          /\ c.number = call[s].number /\ c.hash = call[s].hash
      BY DEF IInv, TypeOK, Call
    <3>3. call[s].phase = "selected" /\ UNCHANGED versions
      BY <2>3 DEF Write
    <3> HIDE DEF c
    <3>4. call' = [call EXCEPT ![s] = c]
      BY <3>1 DEF c
    <3>5. /\ \A t \in Stores \ {s} : call[t].doc # c.doc
          /\ c.seen = CurrentOf(c.doc)
          /\ \A j \in VersionsOf(c.doc) :
               versions[j].number < c.number /\ versions[j].hash # c.hash
      BY <3>2, <3>3 DEF SInv, StoresExclusive, StoresHold
    <3> QED
      BY <3>2, <3>3, <3>4, <3>5, StoreCallStep
  <2>4. ASSUME Fail(s) PROVE SInv'
    <3>1. Idle.phase = "idle" /\ Idle.doc = NoDocument
      BY DEF Idle
    <3>2. call' = [call EXCEPT ![s] = Idle] /\ UNCHANGED versions
      BY <2>4 DEF Fail
    <3> QED
      BY <3>1, <3>2, StoreCallStep
  <2> QED
    BY <1>2, <2>1, <2>2, <2>3, <2>4, CommitSInv DEF StoreStep
<1> QED
  BY <1>1, <1>2 DEF Next

LEMMA StoresInvariance ==
  ASSUME Indexers = {}
  PROVE  Spec => []SInv
  BY InitSInv, NextSInv, Invariance, PTL DEF Spec

\* Requests alone keep one current version per document.
THEOREM StoresKeepOneCurrent ==
  ASSUME Indexers = {}
  PROVE  Spec => []OneCurrentVersion
<1>1. SInv => OneCurrentVersion
  BY DEF SInv
<1> QED
  BY StoresInvariance, <1>1, PTL

\* Requests alone never reuse a number or store a content twice.
THEOREM StoresNumberUniquely ==
  ASSUME Indexers = {}
  PROVE  Spec => []NumbersAndContentsUnique
<1>1. SInv => NumbersAndContentsUnique
  BY DEF SInv
<1> QED
  BY StoresInvariance, <1>1, PTL

\* Requests alone never take a document back to an older number.
THEOREM StoresKeepLatest ==
  ASSUME Indexers = {}
  PROVE  Spec => []CurrentIsLatest
<1>1. SInv => CurrentIsLatest
  BY DEF SInv
<1> QED
  BY StoresInvariance, <1>1, PTL

-----------------------------------------------------------------------------
(***************************************************************************)
(* The requests implement VersionHistory: a commit appends, every other    *)
(* step stutters.                                                          *)
(***************************************************************************)

StoredOf(d) == {<<versions[i].number, versions[i].hash>> : i \in VersionsOf(d)}
CurrentNumbers(d) == {versions[i].number : i \in CurrentOf(d)}

LEMMA InitImplements == Init => History!Init
<1> SUFFICES ASSUME Init PROVE History!Init
  OBVIOUS
<1>1. \A d : VersionsOf(d) = {} /\ CurrentOf(d) = {}
  BY DEF Init, VersionsOf, CurrentOf
<1> QED
  BY <1>1 DEF History!Init

LEMMA CommitAppends ==
  ASSUME IInv, SInv, NEW s \in Stores, Commit(s)
  PROVE  History!Next
<1> DEFINE c == call[s]
<1> s \in Processes
  BY DEF Processes
<1>1. /\ c.id \in Ids \ DOMAIN versions
      /\ c.doc \in Documents /\ c.number \in Numbers /\ c.hash \in Hashes
      /\ DOMAIN versions' = DOMAIN versions \cup {c.id}
      /\ versions'[c.id] = NewVersion(c)
      /\ \A i \in DOMAIN versions :
           /\ i # c.id
           /\ versions'[i].doc = versions[i].doc
           /\ versions'[i].number = versions[i].number
           /\ versions'[i].hash = versions[i].hash
           /\ versions'[i].current = (versions[i].current /\ i \notin c.seen)
  BY CommitPublishes
<1>2. c.phase = "inserted"
  BY DEF Commit
<1>3. /\ c.seen = CurrentOf(c.doc)
      /\ \A i \in VersionsOf(c.doc) :
           versions[i].number < c.number /\ versions[i].hash # c.hash
  BY <1>2 DEF SInv, StoresHold
<1>4. \A i \in DOMAIN versions : versions[i].doc # c.doc =>
        versions'[i].current = versions[i].current
  BY <1>1 DEF IInv, SeenInDocument, VersionsOf, TypeOK, Version
<1>5. /\ versions'[c.id].doc = c.doc /\ versions'[c.id].number = c.number
      /\ versions'[c.id].hash = c.hash /\ versions'[c.id].current
  BY <1>1 DEF NewVersion
<1> HIDE DEF c
<1>6. ASSUME NEW d \in Documents
      PROVE  /\ VersionsOf(d)' = IF d = c.doc THEN VersionsOf(d) \cup {c.id} ELSE VersionsOf(d)
             /\ CurrentOf(d)' = IF d = c.doc THEN {c.id} ELSE CurrentOf(d)
             /\ StoredOf(d)' = IF d = c.doc THEN StoredOf(d) \cup {<<c.number, c.hash>>}
                               ELSE StoredOf(d)
             /\ CurrentNumbers(d)' = IF d = c.doc THEN {c.number} ELSE CurrentNumbers(d)
  <2>1. VersionsOf(d)' = IF d = c.doc THEN VersionsOf(d) \cup {c.id} ELSE VersionsOf(d)
    BY <1>1, <1>5 DEF VersionsOf
  <2>2. CurrentOf(d)' = IF d = c.doc THEN {c.id} ELSE CurrentOf(d)
    <3>1. CASE d = c.doc
      <4>1. \A i \in VersionsOf(d) : ~ versions'[i].current
        BY <1>1, <1>3, <3>1 DEF CurrentOf, VersionsOf
      <4> QED
        BY <1>5, <2>1, <3>1, <4>1 DEF CurrentOf
    <3>2. CASE d # c.doc
      BY <1>4, <2>1, <3>2 DEF CurrentOf, VersionsOf
    <3> QED
      BY <3>1, <3>2
  <2>3. StoredOf(d)' = IF d = c.doc THEN StoredOf(d) \cup {<<c.number, c.hash>>}
                       ELSE StoredOf(d)
    <3>1. \A i \in VersionsOf(d) :
            versions'[i].number = versions[i].number /\ versions'[i].hash = versions[i].hash
      BY <1>1 DEF VersionsOf
    <3> QED
      BY <1>5, <2>1, <3>1 DEF StoredOf
  <2>4. CurrentNumbers(d)' = IF d = c.doc THEN {c.number} ELSE CurrentNumbers(d)
    <3>1. \A i \in CurrentOf(d) : versions'[i].number = versions[i].number
      BY <1>1 DEF CurrentOf, VersionsOf
    <3> QED
      BY <1>5, <2>2, <3>1 DEF CurrentNumbers
  <2> QED
    BY <2>1, <2>2, <2>3, <2>4
<1> DEFINE stored == [d \in Documents |-> StoredOf(d)]
           current == [d \in Documents |-> CurrentNumbers(d)]
<1>7. /\ stored' = [stored EXCEPT ![c.doc] = @ \cup {<<c.number, c.hash>>}]
      /\ current' = [current EXCEPT ![c.doc] = {c.number}]
  BY <1>1, <1>6
<1>8. \A v \in stored[c.doc] : v[1] < c.number /\ v[2] # c.hash
  BY <1>1, <1>3 DEF StoredOf
<1>9. /\ \A v \in stored[c.doc] : v[2] # c.hash
      /\ \E n \in Numbers :
           /\ \A v \in stored[c.doc] : v[1] < n
           /\ stored' = [stored EXCEPT ![c.doc] = @ \cup {<<n, c.hash>>}]
           /\ current' = [current EXCEPT ![c.doc] = {n}]
  BY <1>1, <1>7, <1>8
<1>10. \E d \in Documents, h \in Hashes :
         /\ \A v \in stored[d] : v[2] # h
         /\ \E n \in Numbers :
              /\ \A v \in stored[d] : v[1] < n
              /\ stored' = [stored EXCEPT ![d] = @ \cup {<<n, h>>}]
              /\ current' = [current EXCEPT ![d] = {n}]
  <2> HIDE DEF stored, current
  <2> QED
    BY <1>1, <1>9
<1> QED
  BY <1>10 DEF History!Next, History!Append, StoredOf, CurrentNumbers

LEMMA NextImplements ==
  ASSUME Indexers = {}
  PROVE  IInv /\ SInv /\ [Next]_vars => [History!Next]_(History!vars)
<1> SUFFICES ASSUME IInv, SInv, [Next]_vars PROVE [History!Next]_(History!vars)
  OBVIOUS
<1>1. ASSUME UNCHANGED versions PROVE UNCHANGED History!vars
  BY <1>1 DEF History!vars, VersionsOf, CurrentOf
<1>2. ASSUME NEW s \in Stores, Commit(s) PROVE History!Next
  BY <1>2, CommitAppends
<1>3. ASSUME Next PROVE UNCHANGED versions \/ \E s \in Stores : Commit(s)
  BY <1>3 DEF Next, StoreStep, Lock, New, Write, Fail
<1> QED
  BY <1>1, <1>2, <1>3 DEF vars

\* Requests alone implement the history that VersionHistory specifies.
THEOREM StoresImplementHistory ==
  ASSUME Indexers = {}
  PROVE  Spec => ImplementsHistory
<1>1. IInv /\ SInv /\ [Next]_vars => [History!Next]_(History!vars)
  BY NextImplements
<1> QED
  BY <1>1, InitImplements, StoresInvariance, Invariance, PTL
     DEF Spec, ImplementsHistory, History!Spec

=============================================================================
