--------------------------- MODULE PipelineRevisions ---------------------------
(***************************************************************************)
(* The revisions of one pipeline (pipeline/persistence.py) under the       *)
(* requests of the Pipeline Lab: save a draft, reset it from the active    *)
(* revision, start a new one; the activation of a revision; the production *)
(* view; and a step test (pipeline/step_testing.py), whose ExecutionStep   *)
(* references the link of a binding to its node.                           *)
(*                                                                         *)
(* A request is one READ COMMITTED transaction.  Its writes are published  *)
(* by the step that commits; until then they show in its own record, and   *)
(* the locks they hold are guards of the other requests.  A save writes    *)
(* only the columns of the revision's row whose value it changes, and      *)
(* replaces the rows of the bindings, all of them, by rows of its own.     *)
(***************************************************************************)
EXTENDS Naturals

CONSTANTS
    Savers, Activators, Testers, Views,   \* the requests, one each
    Numbers,        \* revision numbers, 1, 2, ... (bound)
    Compositions,   \* what a manifest hash identifies, for a given number
    Reactivation,   \* may a request ask for the revision it finds active?
    OneAtATime,     \* does a save wait for the answer of the previous one?
    Seed,           \* the author of the rows the bootstrap leaves
    Orders          \* the orders that random primary keys may have

ASSUME NumbersAssumption == Numbers \subseteq Nat /\ {1, 2} \subseteq Numbers /\ 0 \notin Numbers
ASSUME SwitchesAssumption == Reactivation \in BOOLEAN /\ OneAtATime \in BOOLEAN
ASSUME SeedAssumption == Seed \notin Savers
ASSUME OrdersAssumption == Orders \subseteq
    {f \in [Numbers -> Numbers] : \A m, n \in Numbers : f[m] = f[n] => m = n}

VARIABLES
    status,     \* of each revision; "absent" before its commit
    hash,       \* PipelineRevision.manifest_hash
    reason,     \* PipelineRevision.change_reason
    bindings,   \* the committed PipelineBinding rows, as the sets that saves insert
    traced,     \* revisions with an ExecutionStep on a link of a seeded binding
    uuid,       \* the order of the revisions' random primary keys
    saver, activator, tester, view

vars == <<status, hash, reason, bindings, traced, uuid, saver, activator, tester, view>>

Reasons == {"bootstrap", "cloned", "lab", "reset", "new"}

Committed == {n \in Numbers : status[n] # "absent"}
Active == {n \in Numbers : status[n] = "active"}
Drafts == {n \in Numbers : status[n] = "draft"}
\* draft_revision: the latest of the drafts
IsDraft(n) == n \in Drafts /\ \A m \in Drafts : m <= n
IsNext(n) == n - 1 \in Committed /\ \A m \in Committed : m < n

\* The rows that one save inserts; links to nodes come from the migration only.
Rows(by, composition) == [by |-> by, comp |-> composition]
Linked(rows) == rows.by = Seed

NoRow == [hash |-> "none", reason |-> "none"]
NoSave == [phase |-> "idle", target |-> 0, source |-> 0, read |-> "none",
           comp |-> "none", row |-> NoRow, reason |-> "none", old |-> {}]
NoActivation == [phase |-> "idle", revision |-> 0, loaded |-> "none", others |-> {}]
NoView == [phase |-> "idle", revision |-> 0, read |-> "none"]

\* bootstrap_catalog and the migrations: revision 1 is active, 2 is a draft that
\* was perhaps saved once, and both have links.
Init ==
    /\ \E c, d \in Compositions :
         /\ hash = [n \in Numbers |-> IF n = 2 THEN d ELSE c]
         /\ bindings = [n \in Numbers |-> IF n <= 2 THEN {Rows(Seed, hash[n])} ELSE {}]
    /\ status = [n \in Numbers |-> CASE n = 1 -> "active" [] n = 2 -> "draft"
                                     [] OTHER -> "absent"]
    /\ reason \in {[n \in Numbers |-> IF n = 1 THEN "bootstrap" ELSE r] : r \in {"cloned", "lab"}}
    /\ traced = {}
    /\ uuid \in Orders
    /\ saver = [s \in Savers |-> NoSave]
    /\ activator = [a \in Activators |-> NoActivation]
    /\ tester = [t \in Testers |-> 0]
    /\ view = [v \in Views |-> NoView]

-----------------------------------------------------------------------------
(***************************************************************************)
(* save, reset, new_revision                                               *)
(***************************************************************************)

InFlight(s) == saver[s].phase \notin {"idle", "done", "blocked"}
Ended(s, phase) == saver' = [saver EXCEPT ![s] = [NoSave EXCEPT !.phase = phase]]

MayStart(s) ==
    /\ saver[s].phase = "idle"
    /\ OneAtATime => \A t \in Savers : ~InFlight(t)

\* What the request holds after it has read the revision's row, and the source's.
Found(target, source, comp, r) ==
    [phase |-> IF source = 0 THEN "ready" ELSE "load",
     target |-> target,
     source |-> source,
     read |-> IF source = 0 THEN "none" ELSE hash[source],
     comp |-> comp,
     row |-> IF target = 0 THEN NoRow ELSE [hash |-> hash[target], reason |-> reason[target]],
     reason |-> r,
     old |-> {}]

SavesUnchanged == UNCHANGED <<status, hash, reason, bindings, traced, uuid,
                              activator, tester, view>>

\* "save": a selection, or the draft's own manifest; a clone if there is no draft.
FindDraft(s) ==
    /\ MayStart(s)
    /\ \/ \E d \in Numbers, c \in Compositions :
            /\ IsDraft(d)
            /\ \/ saver' = [saver EXCEPT ![s] = Found(d, 0, c, "lab")]
               \/ saver' = [saver EXCEPT ![s] = Found(d, d, "none", "lab")]
       \/ \E n \in Active, c \in Compositions \cup {"none"} :
            /\ Drafts = {}
            /\ saver' = [saver EXCEPT ![s] = Found(0, n, c, "lab")]
    /\ SavesUnchanged

FindForReset(s) ==
    /\ MayStart(s)
    /\ \E n \in Active :
         \/ \E d \in Numbers :
              /\ IsDraft(d)
              /\ saver' = [saver EXCEPT ![s] = Found(d, n, "none", "reset")]
         \/ /\ Drafts = {}
            /\ saver' = [saver EXCEPT ![s] = Found(0, n, "none", "reset")]
    /\ SavesUnchanged

FindForNew(s) ==
    /\ MayStart(s)
    /\ \E n \in Numbers :
         /\ IF Drafts = {} THEN n \in Active ELSE IsDraft(n)
         /\ saver' = [saver EXCEPT ![s] = Found(0, n, "none", "new")]
    /\ SavesUnchanged

\* clone_active_to_draft returns a draft that was created meanwhile.
FindsLateDraft(s) == saver[s].target = 0 /\ saver[s].reason # "new" /\ Drafts # {}

LateDraft(s) ==
    /\ saver[s].phase = "load"
    /\ FindsLateDraft(s)
    /\ \E d \in Numbers, rows \in bindings[saver[s].source] :
         /\ IsDraft(d)
         /\ rows.comp = saver[s].read
         /\ saver' = [saver EXCEPT ![s] =
              IF saver[s].reason = "reset" THEN Found(d, 0, rows.comp, "reset")
              ELSE Found(d, IF saver[s].comp = "none" THEN d ELSE 0, saver[s].comp, "lab")]
    /\ SavesUnchanged

\* load_manifest of the source; _next_revision_number for a new revision.
LoadManifest(s) ==
    /\ saver[s].phase = "load"
    /\ ~FindsLateDraft(s)
    /\ \E rows \in bindings[saver[s].source] :
         IF rows.comp # saver[s].read
         THEN Ended(s, "done")
         ELSE LET comp == IF saver[s].comp = "none" THEN rows.comp ELSE saver[s].comp IN
              IF saver[s].target = 0
              THEN \E n \in Numbers :
                     /\ IsNext(n)
                     /\ saver' = [saver EXCEPT ![s].phase = "numbered",
                                               ![s].target = n, ![s].comp = comp]
              ELSE saver' = [saver EXCEPT ![s].phase = "ready", ![s].comp = comp]
    /\ SavesUnchanged

\* A uniqueness check waits for the rows that another request has not committed.
Alone(s) == \A t \in Savers \ {s} :
               saver[t].phase = "written" => saver[t].target # saver[s].target

\* INSERT of a new revision and of its bindings.
InsertRevision(s) ==
    /\ saver[s].phase = "numbered"
    /\ Alone(s)
    /\ IF status[saver[s].target] = "absent"
       THEN saver' = [saver EXCEPT ![s].phase = "written"]
       ELSE Ended(s, "done")
    /\ SavesUnchanged

IsNew(s) == saver[s].row = NoRow
ChangesHash(s) == saver[s].comp # saver[s].row.hash
ChangesReason(s) == saver[s].reason # saver[s].row.reason
Updates(s) == ChangesHash(s) \/ ChangesReason(s)
\* A request that has updated the revision's row holds it until its end.
HoldsRow(s, n) ==
    /\ saver[s].phase \in {"selected", "written"}
    /\ saver[s].target = n
    /\ ~IsNew(s)
    /\ Updates(s)

\* UPDATE of the row, if a column changes; SELECT of the bindings.
UpdateRow(s) ==
    /\ saver[s].phase = "ready"
    /\ Updates(s) => \A t \in Savers \ {s} : ~HoldsRow(t, saver[s].target)
    /\ saver' = [saver EXCEPT ![s].phase = "selected", ![s].old = bindings[saver[s].target]]
    /\ SavesUnchanged

\* DELETE of the links: refused while an ExecutionStep references one.
LinksReferenced(s) ==
    /\ saver[s].target \in traced
    /\ \E rows \in saver[s].old : rows \in bindings[saver[s].target] /\ Linked(rows)

\* mutant: no constraint on (pipeline_revision_id, position)
PositionsFreeUnchecked(s) == TRUE
\* INSERT: position 0 of the revision must be free once the old rows are gone.
PositionsFree(s) == bindings[saver[s].target] \subseteq saver[s].old

ReplaceBindings(s) ==
    /\ saver[s].phase = "selected"
    /\ Alone(s)
    /\ CASE LinksReferenced(s) -> Ended(s, "blocked")
         [] ~LinksReferenced(s) /\ ~PositionsFree(s) -> Ended(s, "done")
         [] OTHER -> saver' = [saver EXCEPT ![s].phase = "written"]
    /\ SavesUnchanged

\* mutants: the hash of the row that was loaded is written back, or none is
PublishedHashLoaded(s, n) == saver[s].row.hash
PublishedHashKept(s, n) == IF IsNew(s) THEN saver[s].comp ELSE hash[n]
PublishedHash(s, n) == IF IsNew(s) \/ ChangesHash(s) THEN saver[s].comp ELSE hash[n]

Commit(s) ==
    /\ saver[s].phase = "written"
    /\ LET n == saver[s].target IN
         /\ status' = [status EXCEPT ![n] = IF IsNew(s) THEN "draft" ELSE @]
         /\ hash' = [hash EXCEPT ![n] = PublishedHash(s, n)]
         /\ reason' = [reason EXCEPT ![n] = IF IsNew(s) \/ ChangesReason(s)
                                            THEN saver[s].reason ELSE @]
         /\ bindings' = [bindings EXCEPT ![n] =
              (@ \ saver[s].old) \cup {Rows(s, saver[s].comp)}]
    /\ Ended(s, "done")
    /\ UNCHANGED <<traced, uuid, activator, tester, view>>

\* An unknown component, an invalid composition, a lost connection.
SaveFails(s) ==
    /\ InFlight(s)
    /\ Ended(s, "done")
    /\ SavesUnchanged

Save(s) ==
    \/ FindDraft(s)
    \/ FindForReset(s)
    \/ FindForNew(s)
    \/ LateDraft(s)
    \/ LoadManifest(s)
    \/ InsertRevision(s)
    \/ UpdateRow(s)
    \/ ReplaceBindings(s)
    \/ Commit(s)
    \/ SaveFails(s)

-----------------------------------------------------------------------------
(***************************************************************************)
(* activate                                                                *)
(***************************************************************************)

ActivationsUnchanged == UNCHANGED <<hash, reason, bindings, traced, uuid, saver, tester, view>>

\* The status as the session loads it; validate_revision loads the manifest.
Get(a) ==
    /\ activator[a].phase = "idle"
    /\ \E n \in Committed :
         /\ Reactivation \/ n \notin Active
         /\ activator' = [activator EXCEPT ![a] =
              [phase |-> IF \A rows \in bindings[n] : rows.comp = hash[n]
                         THEN "loaded" ELSE "refused",
               revision |-> n, loaded |-> status[n], others |-> {}]]
    /\ UNCHANGED status
    /\ ActivationsUnchanged

SelectActive(a) ==
    /\ activator[a].phase = "loaded"
    /\ activator' = [activator EXCEPT ![a].phase = "selected",
                                      ![a].others = Active \ {activator[a].revision}]
    /\ UNCHANGED status
    /\ ActivationsUnchanged

\* mutant: whatever is active, the index lets another row become active
IndexAllowsAll(a) == TRUE
\* One flush: the UPDATEs go in the order of the keys, and the partial unique
\* index is checked by the one that makes the revision active.
IndexAllows(a) ==
    LET n == activator[a].revision IN
    \/ activator[a].loaded = "active"
    \/ \A m \in Active \ {n} : m \in activator[a].others /\ uuid[m] < uuid[n]

RetiredAfter(a, m) == IF m \in activator[a].others THEN "retired" ELSE status[m]

Activate(a) ==
    /\ activator[a].phase = "selected"
    /\ \A s \in Savers, m \in activator[a].others \cup {activator[a].revision} :
         ~HoldsRow(s, m)
    /\ IF IndexAllows(a)
       THEN /\ status' = [m \in Numbers |->
                 IF m = activator[a].revision /\ activator[a].loaded # "active"
                 THEN "active" ELSE RetiredAfter(a, m)]
            /\ activator' = [activator EXCEPT ![a].phase = "activated"]
       ELSE /\ activator' = [activator EXCEPT ![a].phase = "conflict"]
            /\ UNCHANGED status
    /\ ActivationsUnchanged

ActivateFails(a) ==
    /\ activator[a].phase \in {"loaded", "selected"}
    /\ activator' = [activator EXCEPT ![a].phase = "refused"]
    /\ UNCHANGED status
    /\ ActivationsUnchanged

Activation(a) == Get(a) \/ SelectActive(a) \/ Activate(a) \/ ActivateFails(a)

-----------------------------------------------------------------------------
(***************************************************************************)
(* A step test, and the production view                                    *)
(***************************************************************************)

\* _selected_binding: a selected link of the revision.
SelectBinding(t) ==
    /\ tester[t] = 0
    /\ \E n \in Committed :
         /\ \E rows \in bindings[n] : Linked(rows)
         /\ tester' = [tester EXCEPT ![t] = n]
    /\ UNCHANGED <<status, hash, reason, bindings, traced, uuid, saver, activator, view>>

\* mutant: the step does not lock the link it references
LinkUnlocked(t) == TRUE
LinkFree(t) == \A s \in Savers :
    ~(saver[s].phase = "written" /\ saver[s].target = tester[t] /\ ~IsNew(s))

\* create_step reads the link again; the step's foreign key locks it.
CreateStep(t) ==
    /\ tester[t] # 0
    /\ LinkFree(t)
    /\ traced' = IF \E rows \in bindings[tester[t]] : Linked(rows)
                 THEN traced \cup {tester[t]} ELSE traced
    /\ tester' = [tester EXCEPT ![t] = 0]
    /\ UNCHANGED <<status, hash, reason, bindings, uuid, saver, activator, view>>

FindActive(v) ==
    /\ view[v].phase = "idle"
    /\ \E n \in Active :
         view' = [view EXCEPT ![v] = [phase |-> "found", revision |-> n, read |-> hash[n]]]
    /\ UNCHANGED <<status, hash, reason, bindings, traced, uuid, saver, activator, tester>>

\* A manifest that does not match makes the view fall back on a static one.
LoadActive(v) ==
    /\ view[v].phase = "found"
    /\ view' = [view EXCEPT ![v].phase =
         IF \A rows \in bindings[view[v].revision] : rows.comp = view[v].read
         THEN "idle" ELSE "fallback"]
    /\ UNCHANGED <<status, hash, reason, bindings, traced, uuid, saver, activator, tester>>

Next ==
    \/ \E s \in Savers : Save(s)
    \/ \E a \in Activators : Activation(a)
    \/ \E t \in Testers : SelectBinding(t) \/ CreateStep(t)
    \/ \E v \in Views : FindActive(v) \/ LoadActive(v)

Spec == Init /\ [][Next]_vars

-----------------------------------------------------------------------------
SaveRecords ==
    [phase : {"idle", "load", "numbered", "ready", "selected", "written",
              "done", "blocked"},
     target : Numbers \cup {0}, source : Numbers \cup {0},
     read : Compositions \cup {"none"}, comp : Compositions \cup {"none"},
     row : [hash : Compositions, reason : Reasons] \cup {NoRow},
     reason : Reasons \cup {"none"},
     old : SUBSET [by : Savers \cup {Seed}, comp : Compositions]]

\* Every variable has its type; a row that a request holds was read.
TypeOK ==
    /\ status \in [Numbers -> {"absent", "draft", "active", "retired"}]
    /\ hash \in [Numbers -> Compositions]
    /\ reason \in [Numbers -> Reasons]
    /\ bindings \in [Numbers -> SUBSET [by : Savers \cup {Seed}, comp : Compositions]]
    /\ traced \subseteq Numbers
    /\ uuid \in [Numbers -> Numbers]
    /\ saver \in [Savers -> SaveRecords]
    /\ activator \in [Activators ->
         [phase : {"idle", "loaded", "selected", "activated", "refused", "conflict"},
          revision : Numbers \cup {0},
          loaded : {"none", "draft", "active", "retired"},
          others : SUBSET Numbers]]
    /\ tester \in [Testers -> Numbers \cup {0}]
    /\ view \in [Views -> [phase : {"idle", "found", "fallback"},
                           revision : Numbers \cup {0},
                           read : Compositions \cup {"none"}]]

\* Whatever requests run together, the bindings of a revision are the rows of
\* exactly one save, never a mixture (uq_pipeline_bindings_revision_position).
OneComposition ==
    \A n \in Numbers :
      IF status[n] = "absent" THEN bindings[n] = {}
      ELSE \E rows \in bindings[n] : bindings[n] = {rows}

\* The hash of a revision is the hash of its bindings: load_manifest refuses
\* any other one.
HashMatches ==
    \A n \in Numbers : \A rows \in bindings[n] : rows.comp = hash[n]

NothingActivated == \A a \in Activators : activator[a].phase # "activated"

\* As long as no revision is activated, the production view finds the
\* composition it reads, and never falls back on the static manifest,
\* whatever the Lab saves meanwhile.
ProductionLoads == NothingActivated => \A v \in Views : view[v].phase # "fallback"

\* A step that ran keeps the link it references.
StepsKeepLinks ==
    \A n \in traced : \E rows \in bindings[n] : Linked(rows)

\* One revision is active at any time.
OneActive == \E n \in Numbers : Active = {n}

Kept(n) == hash'[n] = hash[n] /\ bindings'[n] = bindings[n]

\* The requests of the Lab alone, without an activation, never change the
\* active revision.
LabKeepsActive == [][NothingActivated => \A n \in Active : Kept(n)]_vars

=============================================================================
