------------------------- MODULE PipelineComposition -------------------------
(***************************************************************************)
(* The composition of one draft PipelineRevision: which binding serves     *)
(* which node of the template (pipeline_binding_nodes), the older table    *)
(* that is projected from it (pipeline_binding_capabilities), and the      *)
(* audit trail of both (pipeline/composition.py, audit/service.py).        *)
(*                                                                         *)
(* The service commits nothing: a caller edits one row, projects and       *)
(* commits, in one transaction (docs/pipeline-composition-2b.md).  Several *)
(* callers may do so at once, under READ COMMITTED: a session keeps the    *)
(* rows it has read ("view"), an UPDATE carries only the columns changed   *)
(* from that view, and a written row is locked until its transaction ends. *)
(* Meanwhile step tests (pipeline/step_testing.py) look up the selected    *)
(* link of a node, then its binding, and record a step that references the *)
(* link: each read is a statement of its own, and the record comes later.  *)
(*                                                                         *)
(* Left out: the priority of a link (it orders lists), and what a step     *)
(* test does once its step is recorded (see DocumentPipeline).             *)
(***************************************************************************)
EXTENDS Integers, FiniteSets, Functions

CONSTANTS
    Bindings,         \* PipelineBinding rows, numbers in primary key order
    Nodes,            \* RagTemplateNode rows of the template revision
    Capabilities,     \* Capability rows
    Configurations,   \* link configurations without secrets
    Resources,        \* ResourceInstance rows
    Editors,          \* sessions that edit the revision
    Testers,          \* requests of a step test, one each
    Testable,         \* capabilities with a runtime: "entity_resolution"
    CapabilityOf,     \* capability of each node
    Provides,         \* capabilities of the component version of each binding
    Accepts,          \* resources of the component version of each binding
    EnabledNodes, EnabledBindings,
    AvailableVersions, \* bindings whose component version is "available"
    UnavailableResources, \* resources whose qualification is not "available"
    Backfilled,       \* states of the links that the migration may leave
    MaxEdits,         \* edits and step tests (bound)
    NoNode, NoLink, NoRow, NoResource

Pairs == Bindings \X Nodes
Keys == Bindings \X Capabilities
Own == Bindings \X {NoNode}
Items == Pairs \cup Own

Link == [enabled : BOOLEAN, selected : BOOLEAN, configuration : Configurations]
Binding == [resource : Resources \cup {NoResource}]

Provided(p) == CapabilityOf[p[2]] \in Provides[p[1]]
Key(p) == <<p[1], CapabilityOf[p[2]]>>

ASSUME CompositionAssumption ==
    /\ IsFiniteSet(Bindings) /\ IsFiniteSet(Nodes) /\ NoNode \notin Nodes
    /\ NoLink \notin Link

VARIABLES
    status,     \* PipelineRevision.status
    row,        \* link of each pair and resource of each binding, committed
    legacy,     \* configuration of each pipeline_binding_capabilities row
    told,       \* what the committed audit events, in order, make of "row"
    tx,         \* the open transaction of each editor
    test,       \* what each step test has read
    steps,      \* committed ExecutionStep rows
    edits,      \* edits and step tests begun so far (bounds the behaviours)
    crossed     \* a commit did not see what another one did (history variable)

database == <<row, legacy, told>>
testing == <<test, steps>>
vars == <<status, database, tx, testing, edits, crossed>>

Idle == [phase |-> "idle"]
Open(e) == tx[e].phase # "idle"
Ended == [phase |-> "ended"]

\* What an editor may ask for: one call of a mutator of the service.
Edits ==
    [kind : {"add"}, item : Pairs, link : Link]
    \cup [kind : {"remove", "select", "set_priority"}, item : Pairs]
    \cup [kind : {"enable"}, item : Pairs, enabled : BOOLEAN]
    \cup [kind : {"configure"}, item : Pairs, configuration : Configurations]
    \cup [kind : {"resource"}, item : Own, resource : Resources \cup {NoResource}]

(***************************************************************************)
(* Rows as one transaction has them                                        *)
(***************************************************************************)
Over(writes, base) == [i \in DOMAIN base |-> IF i \in DOMAIN writes THEN writes[i] ELSE base[i]]

\* The rows a query of editor e finds, and what the session makes of them: an
\* object it already holds keeps its attributes.
Found(e) == {p \in Pairs : Over(tx[e].writes, row)[p] # NoLink}
Reading(e) == [p \in Found(e) |->
                 IF p \in DOMAIN tx[e].view THEN tx[e].view[p] ELSE row[p]]

\* An UPDATE carries the columns changed since the session read the row.
Updated(current, seen, new) ==
    [c \in DOMAIN current |-> IF new[c] = seen[c] THEN current[c] ELSE new[c]]

\* What the mutator makes of the object it has read.
Edited(edit, seen) ==
    CASE edit.kind = "enable" ->
             [seen EXCEPT !.enabled = edit.enabled, !.selected = @ /\ edit.enabled]
      [] edit.kind = "select" -> [seen EXCEPT !.selected = TRUE]
      [] edit.kind = "set_priority" -> seen
      [] edit.kind = "configure" -> [seen EXCEPT !.configuration = edit.configuration]
      [] edit.kind = "resource" -> [seen EXCEPT !.resource = edit.resource]

Siblings(p) == {q \in Pairs : q[2] = p[2] /\ q # p}

(***************************************************************************)
(* What validation makes of the committed rows                             *)
(***************************************************************************)
Links == {p \in Pairs : row[p] # NoLink}
Resource(b) == row[<<b, NoNode>>].resource
Selected(n) == {p \in Links : p[2] = n /\ row[p].selected}
ActiveLinks(rows) == {p \in DOMAIN rows : rows[p].enabled /\ rows[p].selected}

\* _projection: two nodes that share a key must agree on the configuration.
Divergent(rows) ==
    \E p, q \in ActiveLinks(rows) :
        Key(p) = Key(q) /\ rows[p].configuration # rows[q].configuration
Projection(rows) ==
    [k \in {Key(p) : p \in ActiveLinks(rows)} |->
        (CHOOSE c \in Configurations : \E p \in ActiveLinks(rows) :
             Key(p) = k /\ rows[p].configuration = c)]

Composed(table) == [p \in {q \in Pairs : table[q] # NoLink} |-> table[p]]
Committed == Composed(row)
IsCoherent ==
    LET projected == Projection(Committed)
    IN  /\ ~Divergent(Committed)
        /\ \A k \in Keys : legacy[k] = IF k \in DOMAIN projected THEN projected[k] ELSE NoRow

\* What the constraints of the tables and the migration promise of the links
\* that it leaves: it gives all of them the same, empty configuration.
ASSUME BackfillAssumption ==
    \A links \in Backfilled :
        /\ links \in [Pairs -> Link \cup {NoLink}]
        /\ \A p \in Pairs : links[p] # NoLink =>
              Provided(p) /\ (links[p].selected => links[p].enabled)
        /\ \A p \in Pairs : \A q \in Siblings(p) :
              ~(links[p] # NoLink /\ links[p].selected /\ links[q] # NoLink /\ links[q].selected)
        /\ ~Divergent(Composed(links))

\* validate_pipeline_composition, level "structure_valid".
StructureErrors ==
    {x \in {"link_disabled", "node_disabled", "capability", "several", "projection", "resource"} :
        \/ x = "link_disabled" /\ \E p \in Links : row[p].selected /\ ~row[p].enabled
        \/ x = "node_disabled" /\ \E n \in Nodes \ EnabledNodes : Selected(n) # {}
        \/ x = "capability" /\ \E p \in Links : ~Provided(p)
        \/ x = "several" /\ \E n \in Nodes : Cardinality(Selected(n)) > 1
        \/ x = "projection" /\ ~IsCoherent
        \/ x = "resource" /\ \E b \in Bindings :
                Resource(b) \notin Accepts[b] \cup {NoResource}}

(***************************************************************************)
(* Locks and constraints.  A row that a transaction has written stays      *)
(* locked until it ends, and so does its entry in the partial unique index *)
(* on the selected link of a node.                                         *)
(***************************************************************************)
Others(e) == {d \in Editors \ {e} : Open(d)}
Free(e, i) == \A d \in Others(e) : i \notin DOMAIN tx[d].writes
KeyFree(e, k) == \A d \in Others(e) : k \notin DOMAIN tx[d].legacy
IndexFree(e, p) ==
    \A d \in Others(e) : \A q \in Siblings(p) \cap DOMAIN tx[d].writes :
        ~(row[q] # NoLink /\ row[q].selected)
        /\ ~(tx[d].writes[q] # NoLink /\ tx[d].writes[q].selected)

\* The foreign key of a step on its link, which a step that is not committed
\* yet locks; whoever records a step waits for a removal of the link.
Referenced(p) == \E s \in steps : s.link = p
Recording(p) == \E t \in Testers : test[t].phase = "recorded" /\ test[t].link = p
\* mutant: no foreign key, the link is only looked up
NeverRemoving(p) == FALSE
Removing(p) == \E e \in Editors : Open(e) /\ p \in DOMAIN tx[e].writes /\ tx[e].writes[p] = NoLink

\* mutant: no partial unique index
SelectionUnchecked(p, before) == TRUE
\* uq_pipeline_binding_nodes_selected_node at the moment link p is written
\* selected, when the links of "before" have been deselected already.
SelectionUnique(p, before) ==
    \A q \in Siblings(p) \ before : row[q] = NoLink \/ ~row[q].selected

(***************************************************************************)
(* Actions                                                                 *)
(***************************************************************************)
Advance(e, t) == tx' = [tx EXCEPT ![e] = t]
Fail(e) == Advance(e, [tx[e] EXCEPT !.phase = "failed", !.view = <<>>, !.after = NoLink,
                                    !.found = {}, !.desired = <<>>, !.late = FALSE])

\* The checks of the mutators; the session now holds the row it will edit.
Admissible(edit) ==
    CASE edit.kind = "add" -> Provided(edit.item) /\ (edit.link.selected => edit.link.enabled)
      [] edit.kind = "resource" -> edit.resource \in Accepts[edit.item[1]] \cup {NoResource}
      [] edit.kind = "select" -> row[edit.item] # NoLink /\ row[edit.item].enabled
      [] OTHER -> row[edit.item] # NoLink

\* An editor asks for an edit of the revision, which it finds to be mutable.
Begin(e) ==
    /\ ~Open(e) /\ edits < MaxEdits
    /\ status # "active"
    /\ \E edit \in Edits :
        /\ Admissible(edit)
        /\ Advance(e, [phase |-> IF edit.kind = "select" THEN "read" ELSE "queried",
                       edit |-> edit,
                       view |-> IF edit.kind = "add" THEN <<>>
                                ELSE [i \in {edit.item} |-> row[i]],
                       writes |-> <<>>, after |-> NoLink,
                       found |-> {}, desired |-> <<>>, legacy |-> <<>>,
                       on |-> NoRow, late |-> FALSE])
    /\ edits' = edits + 1
    /\ UNCHANGED <<status, database, testing, crossed>>

\* mutant: the candidates are the selected links of every node
QueryRevision(e) ==
    /\ tx[e].phase = "read"
    /\ LET candidates == {p \in Links : row[p].selected}
       IN Advance(e, [tx[e] EXCEPT
              !.phase = "queried", !.found = candidates,
              !.view = [p \in candidates \cup DOMAIN @ |->
                            IF p \in DOMAIN @ THEN @[p] ELSE row[p]]])
    /\ UNCHANGED <<status, database, testing, edits, crossed>>
\* select_binding_for_node: the links that are selected now.
Query(e) ==
    /\ tx[e].phase = "read"
    /\ LET candidates == Selected(tx[e].edit.item[2])
       IN Advance(e, [tx[e] EXCEPT
              !.phase = "queried", !.found = candidates,
              !.view = [p \in candidates \cup DOMAIN @ |->
                            IF p \in DOMAIN @ THEN @[p] ELSE row[p]]])
    /\ UNCHANGED <<status, database, testing, edits, crossed>>

\* add_binding_node: one INSERT.
FlushAdd(e) ==
    LET p == tx[e].edit.item new == tx[e].edit.link
    IN  /\ tx[e].phase = "queried" /\ tx[e].edit.kind = "add"
        /\ Free(e, p) /\ (new.selected => IndexFree(e, p))
        /\ IF row[p] = NoLink /\ (new.selected => SelectionUnique(p, {}))
           THEN Advance(e, [tx[e] EXCEPT !.phase = "flushed", !.after = new,
                                         !.view = [i \in {p} |-> new],
                                         !.writes = [i \in {p} |-> new]])
           ELSE Fail(e)
        /\ UNCHANGED <<status, database, testing, edits, crossed>>

\* remove_binding_node: one DELETE; that no row matches is only a warning, and
\* a link that a step references stays.
FlushRemove(e) ==
    LET p == tx[e].edit.item
    IN  /\ tx[e].phase = "queried" /\ tx[e].edit.kind = "remove"
        /\ row[p] # NoLink => Free(e, p) /\ ~Recording(p)
        /\ IF row[p] # NoLink /\ Referenced(p) THEN Fail(e)
           ELSE Advance(e, [tx[e] EXCEPT !.phase = "flushed", !.view = <<>>,
                    !.writes = IF row[p] = NoLink THEN <<>> ELSE [i \in {p} |-> NoLink]])
        /\ UNCHANGED <<status, database, testing, edits, crossed>>

\* disable_binding_node, set_priority, update_configuration and
\* set_resource_instance: one UPDATE, of a row that must still be there.
FlushUpdate(e) ==
    LET i == tx[e].edit.item
        new == Edited(tx[e].edit, tx[e].view[i])
    IN  /\ tx[e].phase = "queried"
        /\ tx[e].edit.kind \in {"enable", "set_priority", "configure", "resource"}
        /\ Free(e, i) \/ (i \in Own /\ new = tx[e].view[i])
        /\ IF /\ row[i] # NoLink
              /\ i \in Pairs => LET r == Updated(row[i], tx[e].view[i], new)
                                IN r.selected => r.enabled
           THEN Advance(e, [tx[e] EXCEPT
                    !.phase = "flushed", !.after = new, !.view = [j \in {i} |-> new],
                    !.writes = IF i \in Own /\ new = tx[e].view[i] THEN <<>>
                               ELSE [j \in {i} |-> Updated(row[i], tx[e].view[i], new)]])
           ELSE Fail(e)
        /\ UNCHANGED <<status, database, testing, edits, crossed>>

\* select_binding_for_node: the candidates lose the selection and the link
\* gets it, one UPDATE after the other in primary key order; a link that was
\* selected when it was read, and is no candidate any more, is not written.
FlushSelect(e) ==
    LET p == tx[e].edit.item
        view == tx[e].view
        others == tx[e].found \ {p}
        touched == others \cup {q \in {p} : p \in tx[e].found \/ ~view[p].selected}
        new == [q \in DOMAIN view |-> [view[q] EXCEPT !.selected = (q = p)]]
        before == {q \in others : q[1] < p[1]}
    IN  /\ tx[e].phase = "queried" /\ tx[e].edit.kind = "select"
        /\ \A q \in touched : Free(e, q)
        /\ view[p].selected \/ IndexFree(e, p)
        /\ IF /\ \A q \in touched : row[q] # NoLink
              /\ p \in touched => LET r == Updated(row[p], view[p], new[p])
                                  IN r.selected => r.enabled
              /\ view[p].selected \/ SelectionUnique(p, before)
           THEN Advance(e, [tx[e] EXCEPT
                    !.phase = "flushed", !.after = new[p], !.view = new,
                    !.writes = [q \in touched |-> Updated(row[q], view[q], new[q])]])
           ELSE Fail(e)
        /\ UNCHANGED <<status, database, testing, edits, crossed>>

Flush(e) == FlushAdd(e) \/ FlushRemove(e) \/ FlushUpdate(e) \/ FlushSelect(e)

\* project_legacy_capabilities, up to the rows it will delete.
ProjectRead(e) ==
    /\ tx[e].phase = "flushed"
    /\ IF Divergent(Reading(e)) THEN Fail(e)
       ELSE Advance(e, [tx[e] EXCEPT !.phase = "projected", !.view = <<>>,
                           !.found = {k \in Keys : legacy[k] # NoRow},
                           !.desired = Projection(Reading(e))])
    /\ UNCHANGED <<status, database, testing, edits, crossed>>

\* A DELETE waits for a row that another transaction has deleted; if that one
\* commits, the row it has inserted instead is not seen any more.
ProjectBlock(e) ==
    /\ tx[e].phase = "projected"
    /\ \E k \in tx[e].found :
          ~KeyFree(e, k) /\ Advance(e, [tx[e] EXCEPT !.phase = "blocked", !.on = k])
    /\ UNCHANGED <<status, database, testing, edits, crossed>>

\* The rows found are deleted, those of the projection inserted.
ProjectWrite(e) ==
    LET t == tx[e] keys == t.found \cup DOMAIN t.desired
    IN  /\ t.phase = "projected"
        /\ \A k \in keys : KeyFree(e, k)
        /\ IF \A k \in DOMAIN t.desired \ t.found : legacy[k] = NoRow
           THEN Advance(e, [t EXCEPT !.phase = "written", !.found = {}, !.desired = <<>>,
                       !.legacy = [k \in keys |-> IF k \in DOMAIN t.desired
                                                  THEN t.desired[k] ELSE NoRow]])
           ELSE Fail(e)
        /\ UNCHANGED <<status, database, testing, edits, crossed>>

\* What the audit event of a transaction says of the rows: a selection names
\* the link that is selected, and by it the others that are not.
Audited(t) ==
    [i \in Items |->
        IF i = t.edit.item THEN t.after
        ELSE IF /\ t.edit.kind = "select" /\ i \in Siblings(t.edit.item)
                /\ told[i] # NoLink
             THEN [told[i] EXCEPT !.selected = FALSE] ELSE told[i]]

\* The end of a transaction as the others meet it: who waits for one of its
\* rows goes on, and who holds what the commit has changed is late.
Released(e, committed) ==
    [d \in Editors |->
        IF d = e THEN Idle
        ELSE IF ~Open(d) THEN tx[d]
        ELSE LET t == tx[d]
                 woken == t.phase = "blocked" /\ t.on \in DOMAIN tx[e].legacy
                 missed == /\ committed
                           /\ \/ t.phase \in {"projected", "blocked", "written"}
                              \/ DOMAIN tx[e].writes \cap DOMAIN t.view # {}
             IN  [t EXCEPT
                    !.phase = IF woken THEN "projected" ELSE @,
                    !.found = IF woken /\ committed THEN @ \ {t.on} ELSE @,
                    !.on = IF woken THEN NoRow ELSE @,
                    !.late = @ \/ missed]]

Commit(e) ==
    /\ tx[e].phase = "written"
    /\ row' = Over(tx[e].writes, row)
    /\ legacy' = Over(tx[e].legacy, legacy)
    /\ told' = Audited(tx[e])
    /\ crossed' = (crossed \/ tx[e].late)
    /\ tx' = Released(e, TRUE)
    /\ UNCHANGED <<status, testing, edits>>

\* mutant: the caller keeps the session after an error
KeepSession(e) == tx[e].phase = "failed" /\ UNCHANGED vars
\* The caller rolls back after an error.
Rollback(e) ==
    /\ tx[e].phase = "failed"
    /\ tx' = Released(e, FALSE)
    /\ UNCHANGED <<status, database, testing, edits, crossed>>

\* The connection is lost, or the caller gives the edit up.
Abort(e) ==
    /\ Open(e) /\ tx[e].phase # "failed"
    /\ tx' = Released(e, FALSE)
    /\ UNCHANGED <<status, database, testing, edits, crossed>>

\* PipelinePersistenceService.activate, in a transaction of its own, looks at
\* neither the links nor the editors.
Activate ==
    /\ status = "draft" /\ status' = "active"
    /\ UNCHANGED <<database, tx, testing, edits, crossed>>

(***************************************************************************)
(* A step test: RagComposerStepTestService.execute.  A refusal leaves      *)
(* nothing behind.                                                         *)
(***************************************************************************)
Tested(t, j) ==
    /\ test' = [test EXCEPT ![t] = j]
    /\ UNCHANGED <<status, database, tx, steps, crossed>>

\* The selected link of an enabled node, which must be one and enabled.
TestLink(t) ==
    /\ test[t].phase = "idle" /\ edits < MaxEdits /\ edits' = edits + 1
    /\ \E n \in EnabledNodes : \E p \in Selected(n) :
          /\ Selected(n) = {p} /\ row[p].enabled
          /\ Tested(t, [phase |-> "selected", link |-> p])

\* Then the link's binding as it is now, the version and the resource it names,
\* and the capability of the node, which must be one that has a runtime.
TestBinding(t) ==
    LET p == test[t].link
    IN  /\ test[t].phase = "selected"
        /\ p[1] \in EnabledBindings \cap AvailableVersions
        /\ Provided(p) /\ CapabilityOf[p[2]] \in Testable
        /\ Resource(p[1]) \notin UnavailableResources
        /\ Tested(t, [phase |-> "bound", link |-> p, resource |-> Resource(p[1])])
        /\ UNCHANGED edits

\* One of these conditions fails, or the request names the wrong inputs.
TestRefused(t) ==
    /\ test[t].phase = "selected"
    /\ Tested(t, Ended) /\ UNCHANGED edits

\* create_step looks the link up again, and its foreign key locks it: it waits
\* for a removal, and fails if the link is gone.
TestRecord(t) ==
    LET p == test[t].link
    IN  /\ test[t].phase = "bound" /\ ~Removing(p)
        /\ Tested(t, IF row[p] = NoLink THEN Ended ELSE [test[t] EXCEPT !.phase = "recorded"])
        /\ UNCHANGED edits

\* The trace is committed before the runtime is called.
TestCommit(t) ==
    /\ test[t].phase = "recorded"
    /\ steps' = steps \cup {[link |-> test[t].link, resource |-> test[t].resource]}
    /\ test' = [test EXCEPT ![t] = Ended]
    /\ UNCHANGED <<status, database, tx, edits, crossed>>

\* The process stops before the commit.
TestCrash(t) ==
    /\ test[t].phase \notin {"idle", "ended"}
    /\ Tested(t, Ended) /\ UNCHANGED edits

TestStep(t) == TestBinding(t) \/ TestRefused(t) \/ TestRecord(t) \/ TestCommit(t)

\* Nobody edits any more, or tests.
Rest ==
    /\ \A e \in Editors : ~Open(e)
    /\ \A t \in Testers : test[t].phase \in {"idle", "ended"}
    /\ edits = MaxEdits \/ status = "active"
    /\ UNCHANGED vars

Step(e) ==
    \/ Query(e) \/ Flush(e) \/ ProjectRead(e) \/ ProjectWrite(e)
    \/ Commit(e) \/ Rollback(e)

Init ==
    /\ status = "draft"
    /\ \E links \in Backfilled :
          row = [i \in Items |-> IF i \in Pairs THEN links[i] ELSE [resource |-> NoResource]]
    /\ legacy = [k \in Keys |-> IF k \in DOMAIN Projection(Committed)
                                THEN Projection(Committed)[k] ELSE NoRow]
    /\ told = row
    /\ tx = [e \in Editors |-> Idle]
    /\ test = [t \in Testers |-> Idle] /\ steps = {}
    /\ edits = 0 /\ crossed = FALSE

Next ==
    \/ \E e \in Editors : Begin(e) \/ ProjectBlock(e) \/ Abort(e) \/ Step(e)
    \/ \E t \in Testers : TestLink(t) \/ TestStep(t) \/ TestCrash(t)
    \/ Activate \/ Rest

Spec == Init /\ [][Next]_vars

\* A session goes on with what it has begun; nothing makes a caller begin, and
\* a lock is given to those who wait for it in their order.
Fairness ==
    /\ \A e \in Editors : WF_vars(Step(e))
    /\ \A t \in Testers : WF_vars(TestStep(t))
FairSpec == Spec /\ Fairness

(***************************************************************************)
(* Properties                                                              *)
(***************************************************************************)
\* The mutators and the projection leave a structure that validation accepts,
\* but for nodes the template disables: the constraints hold whatever two
\* editors do, and the projection is the one of the links unless a commit
\* missed another one that changed a row its session held, or that came after
\* its session had read the links to project.
StaysValid ==
    StructureErrors \subseteq {"node_disabled"} \cup IF crossed THEN {"projection"} ELSE {}

\* The audit trail explains the composition: replaying the committed events on
\* the links the migration left gives the links, their selection and the
\* resources that are committed, on the same condition.  The deselected links
\* get no event of their own: the selection of another one stands for it.
AuditExplains == ~crossed => told = row

\* A step that has been recorded can be traced to the composition: its link is
\* there, on an enabled node whose capability the binding provides and the Lab
\* can run, and its resource is one that the component takes, although it has
\* read the link, the binding and the link again in statements of their own,
\* while editors move the selection, change the resource, and remove and add
\* links; only the foreign key makes a removal and a record wait for each other.
StepsTraceable ==
    \A s \in steps :
        /\ row[s.link] # NoLink
        /\ s.link[2] \in EnabledNodes /\ Provided(s.link) /\ Key(s.link)[2] \in Testable
        /\ s.resource \in (Accepts[s.link[1]] \cup {NoResource}) \ UnavailableResources

\* Editors and step tests never wait for each other for ever: the locks on
\* links, on the selection of a node, on projected rows and on the link of a
\* step are always given back.
EditsEnd ==
    /\ \A e \in Editors : Open(e) ~> ~Open(e)
    /\ \A t \in Testers : test[t].phase # "idle" ~> test[t].phase = "ended"

=============================================================================
