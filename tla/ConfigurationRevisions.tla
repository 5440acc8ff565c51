------------------------ MODULE ConfigurationRevisions ------------------------
(***************************************************************************)
(* The revisions of one configuration profile (configuration/service.py):  *)
(*   - create_from copies the settings of a revision into a new draft;     *)
(*   - activate retires the active revision and activates another one;     *)
(*   - ConfigurationReader, for a RAG execution, finds the revision with   *)
(*     one query and each setting with one more.                           *)
(* Every request has a READ COMMITTED session of its own.  Two unique      *)
(* constraints are checked when a row is written: (profile_id,             *)
(* revision_number), and profile_id among the active revisions.            *)
(***************************************************************************)
EXTENDS Naturals

CONSTANTS
    Editors,        \* requests that call create_from
    Activators,     \* requests that call activate
    Readers,        \* RAG executions
    Numbers,        \* revision numbers, 1, 2, ... (bound)
    Settings,
    Values,
    Initial,        \* the settings of revision 1
    Kept,           \* a setting that create_from copies
    Reactivation    \* may a request ask for the revision it finds active?

ASSUME NumbersAssumption == Numbers \subseteq Nat /\ 1 \in Numbers /\ 0 \notin Numbers
ASSUME InitialAssumption == Initial \in [Settings -> Values]
ASSUME ReactivationAssumption == Reactivation \in BOOLEAN
ASSUME ActorsDisjoint ==
    /\ Editors \cap Activators = {}
    /\ Editors \cap Readers = {}
    /\ Activators \cap Readers = {}

VARIABLES
    status,     \* of every revision number; "absent" before its commit
    values,     \* the ConfigurationValue rows of every revision
    attempts,   \* committed QuestionAttempt rows: revision and snapshot
    editor,
    activator,
    reader

vars == <<status, values, attempts, editor, activator, reader>>

Committed == {n \in Numbers : status[n] # "absent"}
Active == {n \in Numbers : status[n] = "active"}

NoEdit == [phase |-> "idle", source |-> 0, number |-> 0]
NoActivation == [phase |-> "idle", revision |-> 0, loaded |-> "absent", others |-> {}]
NothingRead == [s \in {} |-> Initial[s]]
NoRead == [revision |-> 0, read |-> NothingRead]

\* bootstrap_rag_configuration: revision 1 is active.
Init ==
    /\ status = [n \in Numbers |-> IF n = 1 THEN "active" ELSE "absent"]
    /\ values = [n \in Numbers |-> Initial]
    /\ attempts = {}
    /\ editor = [e \in Editors |-> NoEdit]
    /\ activator = [a \in Activators |-> NoActivation]
    /\ reader = [r \in Readers |-> NoRead]

-----------------------------------------------------------------------------
(***************************************************************************)
(* create_from                                                             *)
(***************************************************************************)

\* The source and the numbers of the profile's revisions.
Number(e) ==
    /\ editor[e].phase = "idle"
    /\ \E source \in Committed, n \in Numbers :
         /\ \A m \in Committed : m < n
         /\ n - 1 \in Committed
         /\ editor' = [editor EXCEPT ![e] =
              [phase |-> "numbered", source |-> source, number |-> n]]
    /\ UNCHANGED <<status, values, attempts, activator, reader>>

\* INSERT waits for an uncommitted revision with the number ...
NumberFree(e) ==
    /\ status[editor[e].number] = "absent"
    /\ \A d \in Editors \ {e} :
         editor[d].phase = "inserted" => editor[d].number # editor[e].number

InsertRevision(e) ==
    /\ editor[e].phase = "numbered"
    /\ NumberFree(e)
    /\ editor' = [editor EXCEPT ![e].phase = "inserted"]
    /\ UNCHANGED <<status, values, attempts, activator, reader>>

\* mutant: a setting that is not given is left empty
CopiedEmpty(old, given) == given
CopiedValues(old, given) ==
    [s \in Settings |-> IF given[s] = Kept THEN old[s] ELSE given[s]]

Create(e) ==
    /\ editor[e].phase = "inserted"
    /\ \E given \in [Settings -> Values \cup {Kept}] :
         values' = [values EXCEPT ![editor[e].number] =
                      CopiedValues(values[editor[e].source], given)]
    /\ status' = [status EXCEPT ![editor[e].number] = "draft"]
    /\ editor' = [editor EXCEPT ![e] = NoEdit]
    /\ UNCHANGED <<attempts, activator, reader>>

\* ... and fails when the number is taken; an option may be unavailable.
CreateFails(e) ==
    /\ editor[e].phase # "idle"
    /\ editor' = [editor EXCEPT ![e] = NoEdit]
    /\ UNCHANGED <<status, values, attempts, activator, reader>>

(***************************************************************************)
(* activate                                                                *)
(***************************************************************************)

\* The session keeps the revision as it is loaded here: the later queries
\* of the request do not refresh it.
Get(a) ==
    /\ activator[a].phase = "idle"
    /\ \E n \in Committed :
         /\ Reactivation \/ status[n] # "active"
         /\ activator' = [activator EXCEPT ![a] =
              [phase |-> "loaded", revision |-> n, loaded |-> status[n], others |-> {}]]
    /\ UNCHANGED <<status, values, attempts, editor, reader>>

SelectActive(a) ==
    /\ activator[a].phase = "loaded"
    /\ activator' = [activator EXCEPT ![a] =
         [@ EXCEPT !.phase = "selected", !.others = Active \ {activator[a].revision}]]
    /\ UNCHANGED <<status, values, attempts, editor, reader>>

\* An UPDATE waits for the transaction that has updated one of the rows.
RowsFree(a, rows) ==
    \A b \in Activators \ {a} :
        activator[b].phase = "flushed" => activator[b].others \cap rows = {}

\* flush(): the other revisions are updated, and their rows locked.
Retire(a) ==
    /\ activator[a].phase = "selected"
    /\ RowsFree(a, activator[a].others)
    /\ activator' = [activator EXCEPT ![a].phase = "flushed"]
    /\ UNCHANGED <<status, values, attempts, editor, reader>>

\* mutant: the index on the active revisions does not exist
IndexAllowsAll(c) == TRUE
\* The partial unique index, read when the row becomes active.
IndexAllows(c) == Active \subseteq c.others \cup {c.revision}

\* The status is written only if it differs from the loaded one.
Changes(c) == c.loaded # "active"

Activated(c) ==
    [n \in Numbers |->
        IF n \in c.others THEN "retired"
        ELSE IF n = c.revision /\ Changes(c) THEN "active"
        ELSE status[n]]

\* The UPDATE of the revision and the commit.
Activate(a) ==
    LET c == activator[a] IN
    /\ c.phase = "flushed"
    /\ RowsFree(a, {c.revision})
    /\ Changes(c) => IndexAllows(c)
    /\ status' = Activated(c)
    /\ activator' = [activator EXCEPT ![a] = NoActivation]
    /\ UNCHANGED <<values, attempts, editor, reader>>

\* An IntegrityError, a deadlock victim or a crash: rollback.
ActivateFails(a) ==
    /\ activator[a].phase # "idle"
    /\ activator' = [activator EXCEPT ![a] = NoActivation]
    /\ UNCHANGED <<status, values, attempts, editor, reader>>

(***************************************************************************)
(* A RAG execution: ConfigurationReader, and the attempt that it records.  *)
(***************************************************************************)

\* The active revision of the profile, or one that the caller names.
LoadRevision(r) ==
    /\ reader[r].revision = 0
    /\ \E n \in Committed :
         reader' = [reader EXCEPT ![r] = [revision |-> n, read |-> NothingRead]]
    /\ UNCHANGED <<status, values, attempts, editor, activator>>

\* mutant: a setting is read from the revision that is active by then
SettingOfActive(r, s) ==
    IF Active = {} THEN values[1][s] ELSE values[CHOOSE n \in Active : TRUE][s]
SettingOf(r, s) == values[reader[r].revision][s]

ReadSetting(r) ==
    /\ reader[r].revision # 0
    /\ \E s \in Settings \ DOMAIN reader[r].read :
         reader' = [reader EXCEPT ![r] =
           [revision |-> @.revision,
            read |-> [t \in DOMAIN @.read \cup {s} |->
                        IF t = s THEN SettingOf(r, s) ELSE @.read[t]]]]
    /\ UNCHANGED <<status, values, attempts, editor, activator>>

RecordAttempt(r) ==
    /\ reader[r].revision # 0
    /\ DOMAIN reader[r].read = Settings
    /\ attempts' = attempts \cup {reader[r]}
    /\ reader' = [reader EXCEPT ![r] = NoRead]
    /\ UNCHANGED <<status, values, editor, activator>>

\* A setting without value, an inactive option: the request fails.
ReadFails(r) ==
    /\ reader[r].revision # 0
    /\ reader' = [reader EXCEPT ![r] = NoRead]
    /\ UNCHANGED <<status, values, attempts, editor, activator>>

-----------------------------------------------------------------------------
EditorStep(e) == Number(e) \/ InsertRevision(e) \/ Create(e) \/ CreateFails(e)

ActivatorStep(a) ==
    \/ Get(a)
    \/ SelectActive(a)
    \/ Retire(a)
    \/ Activate(a)
    \/ ActivateFails(a)

ReaderStep(r) ==
    LoadRevision(r) \/ ReadSetting(r) \/ RecordAttempt(r) \/ ReadFails(r)

Next ==
    \/ \E e \in Editors : EditorStep(e)
    \/ \E a \in Activators : ActivatorStep(a)
    \/ \E r \in Readers : ReaderStep(r)

Spec == Init /\ [][Next]_vars

-----------------------------------------------------------------------------
(***************************************************************************)
(* Properties.                                                             *)
(***************************************************************************)

Edit == [phase : {"idle", "numbered", "inserted"}, source : Numbers \cup {0},
         number : Numbers \cup {0}]
Activation == [phase : {"idle", "loaded", "selected", "flushed"},
               revision : Numbers \cup {0},
               loaded : {"absent", "draft", "active", "retired"},
               others : SUBSET Numbers]

\* Revisions, settings and requests have their types.
TypeOK ==
    /\ status \in [Numbers -> {"absent", "draft", "active", "retired"}]
    /\ values \in [Numbers -> [Settings -> Values]]
    /\ editor \in [Editors -> Edit]
    /\ activator \in [Activators -> Activation]
    /\ \A r \in Readers : DOMAIN reader[r].read \subseteq Settings

\* Concurrent activations never leave two active revisions: the reader
\* refuses a profile with several (configuration/service.py:246-250).
AtMostOneActive == \A m, n \in Active : m = n

\* A profile always has an active revision: without one every execution
\* that uses the profile fails (configuration/service.py:240-244).
HasActive == Active # {}

\* An attempt's snapshot is the settings of the revision it names, at any
\* later time: past experiments remain reproducible, whichever revisions
\* were created or activated while the settings were being read.
AttemptsReproducible ==
    \A t \in attempts : t.revision \in Committed /\ t.read = values[t.revision]

\* A number is never given twice: the settings of a committed revision
\* never change, and a revision that was activated is never a draft again.
RevisionsImmutable ==
    [][\A n \in Committed :
         /\ values'[n] = values[n]
         /\ status'[n] = "draft" => status[n] = "draft"]_vars
=============================================================================
