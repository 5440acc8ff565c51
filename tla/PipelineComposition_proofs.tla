---------------------- MODULE PipelineComposition_proofs ----------------------
(***************************************************************************)
(* PipelineComposition for every set of bindings, nodes, capabilities,     *)
(* configurations, resources, editors and testers, and any number of       *)
(* transactions and step tests.                                            *)
(***************************************************************************)
EXTENDS PipelineComposition, FiniteSetTheorems, TLAPS

\* A link that is there and selected.
Marked(table, p) == table[p] # NoLink /\ table[p].selected

\* A row that the mutators and the constraints of the tables let in.
LinkOK(p, link) ==
    link # NoLink => link \in Link /\ Provided(p) /\ (link.selected => link.enabled)
ResourceOK(b, binding) ==
    binding \in Binding /\ binding.resource \in Accepts[b] \cup {NoResource}
RowOK(i, value) ==
    /\ i \in Pairs => LinkOK(i, value)
    /\ i \in Own => ResourceOK(i[1], value)

RowsOK(rows) ==
    /\ DOMAIN rows = Items
    /\ \A i \in Items : RowOK(i, rows[i])
    /\ \A p \in Pairs : \A q \in Siblings(p) : ~(Marked(rows, p) /\ Marked(rows, q))

\* A row is written by one transaction at a time, and one link of a node
\* selected by one.
Writes(t) == IF t.phase = "idle" THEN <<>> ELSE t.writes
Apart(v, w) ==
    /\ DOMAIN v \cap DOMAIN w = {}
    /\ \A p \in Pairs \cap DOMAIN v : \A q \in Siblings(p) \cap DOMAIN w :
          ~(Marked(v, p) /\ Marked(w, q))

EditOK(edit) ==
    /\ edit \in Edits
    /\ edit.kind = "add" => LinkOK(edit.item, edit.link)
    /\ edit.kind = "resource" => edit.resource \in Accepts[edit.item[1]] \cup {NoResource}

Ending == {"projected", "blocked", "written"}
Shape(t) ==
    t = [phase |-> t.phase, edit |-> t.edit, view |-> t.view, writes |-> t.writes,
         after |-> t.after, found |-> t.found, desired |-> t.desired, legacy |-> t.legacy,
         on |-> t.on, late |-> t.late]

\* What a transaction reads and writes: the link or binding of its edit and, of
\* a selection, the links that were selected before.
Reads(t) ==
    /\ \A i \in DOMAIN t.view :
          i \in Items /\ t.view[i] \in IF i \in Pairs THEN Link ELSE Binding
    /\ t.phase = "read" => t.edit.kind = "select"
    /\ t.phase \in {"read", "queried"} =>
          /\ DOMAIN t.writes = {} /\ t.after = NoLink
          /\ DOMAIN t.view = IF t.edit.kind = "add" THEN {}
                             ELSE IF t.phase = "queried" /\ t.edit.kind = "select"
                                  THEN t.found \cup {t.edit.item} ELSE {t.edit.item}
          /\ t.edit.kind = "select" /\ t.phase = "queried" =>
                /\ t.found \subseteq Siblings(t.edit.item) \cup {t.edit.item}
                /\ \A q \in t.found \ {t.edit.item} : t.view[q].selected
Touches(t) ==
    /\ DOMAIN t.writes \subseteq
           {t.edit.item} \cup IF t.edit.kind = "select" THEN Siblings(t.edit.item) ELSE {}
    /\ \A i \in DOMAIN t.writes :
          /\ RowOK(i, t.writes[i])
          /\ i \in Pairs /\ t.edit.kind # "remove" => t.writes[i] # NoLink

\* With the rows it has written, one link of a node is selected.
Chosen(writes, rows) ==
    \A p \in Pairs \cap DOMAIN writes :
        Marked(writes, p) => \A q \in Siblings(p) : ~Marked(Over(writes, rows), q)
SafeTx(t, rows) ==
    /\ Shape(t) /\ t.phase \in {"read", "queried", "flushed", "failed"} \cup Ending
    /\ EditOK(t.edit) /\ Reads(t) /\ Touches(t) /\ Chosen(t.writes, rows)

\* A transaction that no commit has overtaken has read what is stored, writes
\* what its audit event will tell, and projects the links as it leaves them.
ProjectionOf(table, stored) ==
    /\ ~Divergent(Composed(table))
    /\ \A k \in Keys : stored[k] = IF k \in DOMAIN Projection(Composed(table))
                                   THEN Projection(Composed(table))[k] ELSE NoRow
Tells(t, rows) ==
    /\ t.phase = "flushed" =>
          /\ t.edit.item \in DOMAIN t.view \cup DOMAIN t.writes
          /\ \A i \in DOMAIN t.writes \ DOMAIN t.view : t.writes[i] = NoLink
    /\ Over(t.writes, rows)[t.edit.item] = t.after
    /\ t.edit.kind = "select" => t.edit.item \in DOMAIN t.writes /\ Marked(t.writes, t.edit.item)
    /\ \A q \in DOMAIN t.writes \ {t.edit.item} :
          rows[q] # NoLink /\ t.writes[q] = [rows[q] EXCEPT !.selected = FALSE]
Fits(t, rows, stored) ==
    /\ \A i \in DOMAIN t.view : t.view[i] = Over(t.writes, rows)[i]
    /\ t.phase = "queried" /\ t.edit.kind = "select" /\ t.view[t.edit.item].selected =>
          t.edit.item \in t.found
    /\ t.phase \in {"flushed"} \cup Ending => Tells(t, rows)
    /\ t.phase \in {"projected", "blocked"} =>
          /\ t.found = {k \in Keys : stored[k] # NoRow}
          /\ t.desired = Projection(Composed(Over(t.writes, rows)))
          /\ ~Divergent(Composed(Over(t.writes, rows)))
    /\ t.phase = "written" => ProjectionOf(Over(t.writes, rows), Over(t.legacy, stored))
FitsTx(t, rows, stored) == ~t.late /\ t.phase # "failed" => Fits(t, rows, stored)

IInv ==
    /\ RowsOK(row) /\ DOMAIN legacy = Keys /\ DOMAIN tx = Editors
    /\ \A e, d \in Editors : e # d => Apart(Writes(tx[e]), Writes(tx[d]))
    /\ \A e \in Editors : Open(e) => SafeTx(tx[e], row) /\ FitsTx(tx[e], row, legacy)
    /\ ~crossed => ProjectionOf(row, legacy) /\ told = row

-----------------------------------------------------------------------------
\* Items, rows and edits.

LEMMA ItemsApart ==
    /\ Pairs \cap Own = {} /\ Items = Pairs \cup Own
    /\ \A p \in Pairs : p[1] \in Bindings /\ p[2] \in Nodes /\ p = <<p[1], p[2]>>
BY CompositionAssumption DEF Pairs, Own, Items

LEMMA SiblingsMutual ==
    ASSUME NEW p \in Pairs, NEW q \in Siblings(p)
    PROVE  q \in Pairs /\ q # p /\ q[2] = p[2] /\ p \in Siblings(q)
BY DEF Siblings

LEMMA OverIs ==
    ASSUME NEW writes, NEW base
    PROVE  /\ DOMAIN Over(writes, base) = DOMAIN base
           /\ \A i \in DOMAIN base :
                 Over(writes, base)[i] = IF i \in DOMAIN writes THEN writes[i] ELSE base[i]
BY DEF Over

LEMMA ApartMutual ==
    ASSUME NEW v, NEW w, Apart(v, w)
    PROVE  Apart(w, v)
<1>1. ASSUME NEW p \in Pairs \cap DOMAIN w, NEW q \in Siblings(p) \cap DOMAIN v
      PROVE  ~(Marked(w, p) /\ Marked(v, q))
  <2>1. q \in Pairs /\ p \in Siblings(q)
      BY SiblingsMutual
  <2> QED
      BY <2>1 DEF Apart
<1> QED
    BY <1>1 DEF Apart

\* The edits a caller may ask for.
LEMMA EditIs ==
    ASSUME NEW edit \in Edits
    PROVE  /\ edit.item \in Items
           /\ edit.kind = "resource" =>
                 edit.item \in Own /\ edit.resource \in Resources \cup {NoResource}
           /\ edit.kind # "resource" => edit.item \in Pairs
           /\ edit.kind = "add" => edit.link \in Link
           /\ edit.kind = "enable" => edit.enabled \in BOOLEAN
           /\ edit.kind = "configure" => edit.configuration \in Configurations
           /\ edit.kind \in {"add", "remove", "select", "set_priority", "enable", "configure",
                             "resource"}
BY DEF Edits, Items

LEMMA LinkIs ==
    ASSUME NEW link \in Link
    PROVE  /\ link = [enabled |-> link.enabled, selected |-> link.selected,
                      configuration |-> link.configuration]
           /\ link.enabled \in BOOLEAN /\ link.selected \in BOOLEAN
           /\ link.configuration \in Configurations
           /\ DOMAIN link = {"enabled", "selected", "configuration"}
           /\ link # NoLink
BY CompositionAssumption DEF Link

\* An UPDATE of a link, column by column.
LEMMA UpdatedLink ==
    ASSUME NEW current \in Link, NEW seen \in Link, NEW new \in Link
    PROVE  LET updated == Updated(current, seen, new) IN
           /\ updated \in Link
           /\ updated.enabled = IF new.enabled = seen.enabled THEN current.enabled ELSE new.enabled
           /\ updated.selected = IF new.selected = seen.selected THEN current.selected
                                 ELSE new.selected
           /\ current = seen => updated = new
<1> DEFINE updated == Updated(current, seen, new)
           columns == {"enabled", "selected", "configuration"}
<1>1. DOMAIN current = columns
    BY DEF Link
<1>2. updated = [c \in columns |-> IF new[c] = seen[c] THEN current[c] ELSE new[c]]
    BY <1>1 DEF Updated
<1>3. updated = [enabled |-> updated["enabled"], selected |-> updated["selected"],
                 configuration |-> updated["configuration"]]
    BY <1>2
<1>4. \A c \in columns : updated[c] = IF new[c] = seen[c] THEN current[c] ELSE new[c]
    BY <1>2
<1>5. \A c \in columns : updated[c] \in {current[c], new[c]}
    BY <1>4
<1>6. updated \in Link
    BY <1>3, <1>5, LinkIs DEF Link
<1>7. ASSUME current = seen PROVE updated = new
  <2>1. \A c \in columns : updated[c] = new[c]
      BY <1>4, <1>7
  <2>2. new = [enabled |-> new["enabled"], selected |-> new["selected"],
               configuration |-> new["configuration"]]
      BY LinkIs
  <2> QED
      BY <1>3, <2>1, <2>2
<1> QED
    BY <1>4, <1>6, <1>7

LEMMA UpdatedBinding ==
    ASSUME NEW current \in Binding, NEW seen \in Binding, NEW new \in Binding
    PROVE  LET updated == Updated(current, seen, new) IN
           /\ updated \in Binding
           /\ updated.resource = IF new.resource = seen.resource THEN current.resource
                                 ELSE new.resource
           /\ current = seen => updated = new
<1> DEFINE updated == Updated(current, seen, new)
<1>1. DOMAIN current = {"resource"}
    BY DEF Binding
<1>2. updated = [c \in {"resource"} |-> IF new[c] = seen[c] THEN current[c] ELSE new[c]]
    BY <1>1 DEF Updated
<1>3. updated = [resource |-> IF new.resource = seen.resource THEN current.resource
                              ELSE new.resource]
    BY <1>2
<1>4. /\ current.resource \in Resources \cup {NoResource}
      /\ new.resource \in Resources \cup {NoResource}
      /\ new = [resource |-> new.resource]
    BY DEF Binding
<1>5. updated.resource = IF new.resource = seen.resource THEN current.resource ELSE new.resource
    BY <1>3
<1>6. updated \in Binding
    BY <1>3, <1>4 DEF Binding
<1>7. current = seen => updated = new
    BY <1>3, <1>4
<1> QED
    BY <1>5, <1>6, <1>7

\* What the mutators make of a row.
LEMMA EditedLink ==
    ASSUME NEW edit \in Edits, edit.kind \in {"enable", "select", "set_priority", "configure"},
           NEW seen \in Link
    PROVE  LET new == Edited(edit, seen) IN
           /\ new \in Link
           /\ edit.kind = "enable" =>
                 new.enabled = edit.enabled /\ new.selected = (seen.selected /\ edit.enabled)
           /\ edit.kind = "select" => new.selected = TRUE /\ new.enabled = seen.enabled
           /\ edit.kind \in {"set_priority", "configure"} =>
                 new.enabled = seen.enabled /\ new.selected = seen.selected
<1>1. CASE edit.kind = "enable"
    BY <1>1, EditIs, LinkIs DEF Edited, Link
<1>2. CASE edit.kind = "select"
    BY <1>2, EditIs, LinkIs DEF Edited, Link
<1>3. CASE edit.kind = "set_priority"
    BY <1>3, EditIs, LinkIs DEF Edited, Link
<1>4. CASE edit.kind = "configure"
    BY <1>4, EditIs, LinkIs DEF Edited, Link
<1> QED
    BY <1>1, <1>2, <1>3, <1>4

LEMMA EditedBinding ==
    ASSUME NEW edit \in Edits, edit.kind = "resource", NEW seen \in Binding
    PROVE  Edited(edit, seen) \in Binding /\ Edited(edit, seen).resource = edit.resource
BY EditIs DEF Edited, Binding

-----------------------------------------------------------------------------
\* A step that only moves one transaction.

Moves(e, t) ==
    /\ e \in Editors /\ Advance(e, t) /\ UNCHANGED <<database, crossed>>
    /\ t.phase # "idle"

LEMMA MoveKeeps ==
    ASSUME IInv, NEW e \in Editors, NEW t, Moves(e, t),
           SafeTx(t, row), FitsTx(t, row, legacy),
           \A d \in Editors \ {e} : Apart(Writes(t), Writes(tx[d]))
    PROVE  IInv'
<1>1. /\ DOMAIN tx' = Editors /\ tx'[e] = t
      /\ \A d \in Editors \ {e} : tx'[d] = tx[d]
    BY DEF Moves, Advance, IInv
<1>2. row' = row /\ legacy' = legacy /\ told' = told /\ crossed' = crossed
    BY DEF Moves, database
<1>3. \A d, f \in Editors : d # f => Apart(Writes(tx'[d]), Writes(tx'[f]))
  <2> SUFFICES ASSUME NEW d \in Editors, NEW f \in Editors, d # f
               PROVE  Apart(Writes(tx'[d]), Writes(tx'[f]))
      OBVIOUS
  <2>1. Apart(Writes(tx[d]), Writes(tx[f]))
      BY DEF IInv
  <2>2. CASE d = e
      BY <1>1, <2>2
  <2>3. CASE f = e
      BY <1>1, <2>3, ApartMutual
  <2>4. CASE d # e /\ f # e
      BY <1>1, <2>1, <2>4
  <2> QED
      BY <2>2, <2>3, <2>4
<1>4. \A d \in Editors :
          tx'[d].phase # "idle" => SafeTx(tx'[d], row') /\ FitsTx(tx'[d], row', legacy')
    BY <1>1, <1>2 DEF IInv, Open
<1>5. RowsOK(row') /\ DOMAIN legacy' = Keys
      /\ (~crossed' => ProjectionOf(row', legacy') /\ told' = row')
    BY <1>2 DEF IInv
<1> QED
    BY <1>1, <1>3, <1>4, <1>5 DEF IInv, Open

\* A transaction that writes nothing more keeps its locks and what it has chosen.
LEMMA SameWritesKeep ==
    ASSUME IInv, NEW e \in Editors, Open(e), NEW t, Moves(e, t), t.writes = tx[e].writes,
           SafeTx(t, row), FitsTx(t, row, legacy)
    PROVE  IInv'
<1>1. Writes(t) = Writes(tx[e])
    BY DEF Writes, Open, Moves
<1>2. \A d \in Editors \ {e} : Apart(Writes(t), Writes(tx[d]))
    BY <1>1 DEF IInv
<1> QED
    BY <1>2, MoveKeeps

\* A transaction that has written one or several rows, which it has locked.
LEMMA FlushKeeps ==
    ASSUME IInv, NEW e \in Editors, Open(e), NEW t, Moves(e, t), t.phase = "flushed",
           Touches(t), DOMAIN t.writes \subseteq Items,
           \A i \in DOMAIN t.writes : Free(e, i),
           \A p \in Pairs \cap DOMAIN t.writes : Marked(t.writes, p) =>
              \/ Marked(row, p)
              \/ IndexFree(e, p) /\ \A q \in Siblings(p) : ~Marked(Over(t.writes, row), q),
           \A p \in Pairs \cap DOMAIN t.writes : \A q \in Siblings(p) \cap DOMAIN t.writes :
              ~(Marked(t.writes, p) /\ Marked(t.writes, q)),
           Shape(t), EditOK(t.edit), Reads(t), ~t.late => Fits(t, row, legacy)
    PROVE  IInv'
<1>1. Chosen(t.writes, row)
  <2> SUFFICES ASSUME NEW p \in Pairs \cap DOMAIN t.writes, Marked(t.writes, p),
                      NEW q \in Siblings(p)
               PROVE  ~Marked(Over(t.writes, row), q)
      BY DEF Chosen
  <2>1. q \in Pairs /\ q \in Items
      BY SiblingsMutual, ItemsApart
  <2>2. CASE q \in DOMAIN t.writes
    <3>1. Over(t.writes, row)[q] = t.writes[q]
        BY <2>1, <2>2, OverIs DEF IInv, RowsOK
    <3> QED
        BY <2>2, <3>1 DEF Marked
  <2>3. CASE q \notin DOMAIN t.writes
    <3>1. Over(t.writes, row)[q] = row[q]
        BY <2>1, <2>3, OverIs DEF IInv, RowsOK
    <3>2. CASE Marked(row, p)
        BY <3>1, <3>2 DEF Marked, IInv, RowsOK
    <3> QED
        BY <3>2
  <2> QED
      BY <2>2, <2>3
<1>2. ASSUME NEW d \in Editors \ {e} PROVE Apart(Writes(t), Writes(tx[d]))
  <2>1. CASE ~ Open(d)
      BY <2>1 DEF Open, Writes, Apart
  <2>2. CASE Open(d)
    <3>1. /\ Writes(tx[d]) = tx[d].writes /\ Writes(t) = t.writes
          /\ d \in Others(e)
        BY <2>2 DEF Open, Writes, Others, Moves
    <3>2. DOMAIN t.writes \cap DOMAIN tx[d].writes = {}
        BY <3>1 DEF Free
    <3>3. ASSUME NEW p \in Pairs \cap DOMAIN t.writes,
                 NEW q \in Siblings(p) \cap DOMAIN tx[d].writes,
                 Marked(t.writes, p), Marked(tx[d].writes, q)
          PROVE  FALSE
      <4>1. CASE IndexFree(e, p)
          BY <3>1, <3>3, <4>1 DEF IndexFree, Marked
      <4>2. CASE Marked(row, p)
        <5>1. q \in Pairs /\ p \in Siblings(q) /\ p \in Items
            BY SiblingsMutual, ItemsApart
        <5>2. Chosen(tx[d].writes, row)
            BY <2>2 DEF IInv, SafeTx
        <5>3. ~Marked(Over(tx[d].writes, row), p)
            BY <3>3, <5>1, <5>2 DEF Chosen
        <5>4. Over(tx[d].writes, row)[p] = row[p]
            BY <3>2, <5>1, OverIs DEF IInv, RowsOK
        <5> QED
            BY <4>2, <5>3, <5>4 DEF Marked
      <4> QED
          BY <3>3, <4>1, <4>2
    <3> QED
        BY <3>1, <3>2, <3>3 DEF Apart
  <2> QED
      BY <2>1, <2>2
<1>3. SafeTx(t, row)
    BY <1>1 DEF SafeTx
<1>4. FitsTx(t, row, legacy)
    BY DEF FitsTx
<1> QED
    BY <1>2, <1>3, <1>4, MoveKeeps

\* What fails keeps its locks until it is rolled back.
LEMMA FailKeeps ==
    ASSUME IInv, NEW e \in Editors, Open(e), Fail(e), UNCHANGED <<database, crossed>>
    PROVE  IInv'
<1>1. PICK t : t = [tx[e] EXCEPT !.phase = "failed", !.view = <<>>, !.after = NoLink,
                                 !.found = {}, !.desired = <<>>, !.late = FALSE]
    OBVIOUS
<1>2. SafeTx(tx[e], row)
    BY DEF IInv
<1>3. t = [phase |-> "failed", edit |-> tx[e].edit, view |-> <<>>, writes |-> tx[e].writes,
           after |-> NoLink, found |-> {}, desired |-> <<>>, legacy |-> tx[e].legacy,
           on |-> tx[e].on, late |-> FALSE]
    BY ONLY <1>1, <1>2 DEF SafeTx, Shape
<1>4. /\ t.phase = "failed" /\ t.edit = tx[e].edit /\ t.view = <<>> /\ t.writes = tx[e].writes
      /\ Shape(t)
    BY ONLY <1>3 DEF Shape
<1>5. Reads(t) /\ Touches(t)
    BY <1>2, <1>4 DEF SafeTx, Reads, Touches
<1>6. SafeTx(t, row) /\ FitsTx(t, row, legacy)
    BY <1>2, <1>4, <1>5 DEF SafeTx, FitsTx
<1>7. Moves(e, t)
    BY <1>1, <1>4 DEF Moves, Fail
<1> QED
    BY <1>4, <1>6, <1>7, SameWritesKeep

-----------------------------------------------------------------------------
\* A transaction begins and reads.

LEMMA RowIs ==
    ASSUME RowsOK(row), NEW i \in Items
    PROVE  /\ i \in Pairs /\ row[i] # NoLink => row[i] \in Link /\ Provided(i)
                                                /\ (row[i].selected => row[i].enabled)
           /\ i \in Own => row[i] \in Binding /\ row[i].resource \in Accepts[i[1]] \cup {NoResource}
BY DEF RowsOK, RowOK, LinkOK, ResourceOK

LEMMA NothingWritten ==
    ASSUME NEW writes, DOMAIN writes = {}
    PROVE  /\ \A base : \A i \in DOMAIN base : Over(writes, base)[i] = base[i]
           /\ Chosen(writes, row)
           /\ \A w : Apart(writes, w)
BY OverIs DEF Chosen, Apart

LEMMA Begins ==
    ASSUME IInv, NEW e \in Editors, Begin(e)
    PROVE  IInv'
<1>1. PICK edit \in Edits : Admissible(edit) /\
          Advance(e, [phase |-> IF edit.kind = "select" THEN "read" ELSE "queried",
                      edit |-> edit,
                      view |-> IF edit.kind = "add" THEN <<>>
                               ELSE [i \in {edit.item} |-> row[i]],
                      writes |-> <<>>, after |-> NoLink,
                      found |-> {}, desired |-> <<>>, legacy |-> <<>>,
                      on |-> NoRow, late |-> FALSE])
    BY DEF Begin
<1>2. PICK view : view = IF edit.kind = "add" THEN <<>> ELSE [i \in {edit.item} |-> row[i]]
    OBVIOUS
<1>3. PICK t : t = [phase |-> IF edit.kind = "select" THEN "read" ELSE "queried",
                    edit |-> edit, view |-> view, writes |-> <<>>, after |-> NoLink,
                    found |-> {}, desired |-> <<>>, legacy |-> <<>>,
                    on |-> NoRow, late |-> FALSE]
    OBVIOUS
<1>4. /\ t.phase = IF edit.kind = "select" THEN "read" ELSE "queried"
      /\ t.edit = edit /\ t.view = view /\ t.writes = <<>> /\ t.late = FALSE /\ t.after = NoLink
      /\ Shape(t)
    BY ONLY <1>3 DEF Shape
<1>5. EditOK(edit)
  <2>1. edit.kind = "add" => edit.link \in Link /\ Provided(edit.item)
                             /\ (edit.link.selected => edit.link.enabled)
      BY <1>1, EditIs DEF Admissible
  <2>2. edit.kind = "resource" => edit.resource \in Accepts[edit.item[1]] \cup {NoResource}
      BY <1>1 DEF Admissible
  <2> QED
      BY <2>1, <2>2 DEF EditOK, LinkOK
<1>6. /\ DOMAIN view = IF edit.kind = "add" THEN {} ELSE {edit.item}
      /\ \A i \in DOMAIN view : i = edit.item /\ view[i] = row[i]
    BY <1>2
<1>7. ASSUME NEW i \in DOMAIN view
      PROVE  i \in Items /\ view[i] \in (IF i \in Pairs THEN Link ELSE Binding)
  <2>1. i = edit.item /\ i \in Items /\ view[i] = row[i] /\ edit.kind # "add"
      BY <1>6, EditIs
  <2>2. CASE edit.kind = "resource"
      BY <2>1, <2>2, EditIs, RowIs, ItemsApart DEF IInv
  <2>3. CASE edit.kind # "resource"
    <3>1. i \in Pairs /\ row[i] # NoLink
        BY <1>1, <2>1, <2>3, EditIs DEF Admissible
    <3> QED
        BY <2>1, <3>1, RowIs DEF IInv
  <2> QED
      BY <2>2, <2>3
<1>8. Reads(t)
    BY <1>4, <1>6, <1>7 DEF Reads
<1>9. DOMAIN t.writes = {}
    BY <1>4
<1>10. SafeTx(t, row)
    BY <1>4, <1>5, <1>8, <1>9, NothingWritten DEF SafeTx, Touches
<1>11. FitsTx(t, row, legacy)
  <2>1. \A i \in DOMAIN view : view[i] = Over(t.writes, row)[i]
      BY <1>6, <1>7, <1>9 DEF Over, IInv, RowsOK
  <2> QED
      BY <1>4, <2>1 DEF FitsTx, Fits, Ending
<1>12. Moves(e, t)
    BY <1>1, <1>2, <1>3, <1>4 DEF Moves, Begin
<1>13. \A d \in Editors \ {e} : Apart(Writes(t), Writes(tx[d]))
    BY <1>4, <1>9, NothingWritten DEF Writes
<1> QED
    BY <1>10, <1>11, <1>12, <1>13, MoveKeeps

LEMMA Queries ==
    ASSUME IInv, NEW e \in Editors, Query(e)
    PROVE  IInv'
<1>1. PICK old : old = tx[e]
    OBVIOUS
<1>2. PICK item : item = old.edit.item
    OBVIOUS
<1>3. PICK candidates : candidates = Selected(item[2])
    OBVIOUS
<1>4. /\ old.phase = "read" /\ Open(e)
      /\ SafeTx(old, row) /\ FitsTx(old, row, legacy)
    BY <1>1 DEF Query, IInv, Open
<1>5. /\ old.edit.kind = "select" /\ DOMAIN old.view = {item} /\ DOMAIN old.writes = {}
      /\ item \in Pairs /\ old.edit \in Edits /\ old.after = NoLink
    BY <1>2, <1>4, EditIs DEF SafeTx, Reads, EditOK
<1>6. PICK view : view = [p \in candidates \cup DOMAIN old.view |->
                              IF p \in DOMAIN old.view THEN old.view[p] ELSE row[p]]
    OBVIOUS
<1>7. PICK t : t = [old EXCEPT !.phase = "queried", !.found = candidates, !.view = view]
    OBVIOUS
<1>8. t = [phase |-> "queried", edit |-> old.edit, view |-> view, writes |-> old.writes,
           after |-> old.after, found |-> candidates, desired |-> old.desired,
           legacy |-> old.legacy, on |-> old.on, late |-> old.late]
    BY ONLY <1>4, <1>7 DEF SafeTx, Shape
<1>9. /\ t.phase = "queried" /\ t.edit = old.edit /\ t.view = view /\ t.writes = old.writes
      /\ t.found = candidates /\ t.late = old.late /\ t.after = old.after
      /\ Shape(t)
    BY ONLY <1>8 DEF Shape
<1>10. \A p \in candidates : /\ p \in Pairs /\ row[p] # NoLink /\ row[p].selected
                             /\ p \in Siblings(item) \cup {item}
    BY <1>3, <1>5 DEF Selected, Links, Siblings
<1>11. /\ DOMAIN view = candidates \cup {item}
       /\ view[item] = old.view[item]
       /\ \A p \in candidates \ {item} : view[p] = row[p]
    BY <1>5, <1>6
<1>12. ASSUME NEW i \in DOMAIN view
       PROVE  i \in Items /\ view[i] \in (IF i \in Pairs THEN Link ELSE Binding)
  <2>1. CASE i = item
      BY <1>4, <1>5, <1>11, <2>1, ItemsApart DEF SafeTx, Reads
  <2>2. CASE i # item
    <3>1. i \in Pairs /\ i \in Items /\ view[i] = row[i] /\ row[i] # NoLink
        BY <1>10, <1>11, <2>2, ItemsApart
    <3> QED
        BY <3>1, RowIs DEF IInv
  <2> QED
      BY <2>1, <2>2
<1>13. Reads(t)
    BY <1>2, <1>4, <1>5, <1>9, <1>10, <1>11, <1>12 DEF Reads
<1>14. SafeTx(t, row)
  <2>1. Touches(t)
      BY <1>4, <1>5, <1>9 DEF SafeTx, Touches
  <2> QED
      BY <1>4, <1>9, <1>13, <2>1 DEF SafeTx
<1>15. FitsTx(t, row, legacy)
  <2> SUFFICES ASSUME ~t.late PROVE Fits(t, row, legacy)
      BY DEF FitsTx
  <2>1. old.view[item] = row[item]
    <3>1. Fits(old, row, legacy)
        BY <1>4, <1>9 DEF FitsTx
    <3>2. old.view[item] = Over(old.writes, row)[item]
        BY <1>5, <3>1 DEF Fits
    <3> QED
        BY <1>5, <3>2, ItemsApart DEF Over, IInv, RowsOK
  <2>2. \A i \in DOMAIN view : view[i] = row[i] /\ i \in DOMAIN row
      BY <1>11, <1>12, <2>1 DEF IInv, RowsOK
  <2>3. \A i \in DOMAIN view : view[i] = Over(t.writes, row)[i]
      BY <1>5, <1>9, <2>2 DEF Over
  <2>4. ASSUME view[item].selected PROVE item \in candidates
    <3>1. row[item] # NoLink
      <4>1. view[item] \in Link
          BY <1>5, <1>11, <1>12
      <4> QED
          BY <2>1, <4>1, <1>11, LinkIs
    <3>2. row[item].selected
        BY <1>11, <2>1, <2>4
    <3> QED
        BY <1>3, <1>5, <3>1, <3>2 DEF Selected, Links
  <2> QED
      BY <1>2, <1>9, <2>3, <2>4 DEF Fits, Ending
<1>16. Moves(e, t)
  <2>1. Advance(e, [old EXCEPT !.phase = "queried", !.found = candidates,
                        !.view = [p \in candidates \cup DOMAIN @ |->
                                      IF p \in DOMAIN @ THEN @[p] ELSE row[p]]])
      BY <1>1, <1>2, <1>3 DEF Query
  <2>2. Advance(e, t)
      BY ONLY <1>6, <1>7, <2>1
  <2> QED
      BY <1>9, <2>2 DEF Moves, Query
<1> QED
    BY <1>1, <1>4, <1>9, <1>14, <1>15, <1>16, SameWritesKeep

-----------------------------------------------------------------------------
\* A transaction writes.

FlushOf(old, after, view, writes) ==
    [old EXCEPT !.phase = "flushed", !.after = after, !.view = view, !.writes = writes]

LEMMA Flushed ==
    ASSUME NEW old, Shape(old), NEW after, NEW view, NEW writes, NEW t,
           t = FlushOf(old, after, view, writes)
    PROVE  /\ t.phase = "flushed" /\ t.edit = old.edit /\ t.view = view /\ t.writes = writes
           /\ t.after = after /\ t.late = old.late
           /\ Shape(t)
<1>1. t = [phase |-> "flushed", edit |-> old.edit, view |-> view, writes |-> writes,
           after |-> after, found |-> old.found, desired |-> old.desired,
           legacy |-> old.legacy, on |-> old.on, late |-> old.late]
    BY DEF Shape, FlushOf
<1> QED
    BY ONLY <1>1 DEF Shape

LEMMA FlushAdds ==
    ASSUME IInv, NEW e \in Editors, FlushAdd(e)
    PROVE  IInv'
<1>1. PICK old : old = tx[e]
    OBVIOUS
<1>2. PICK p : p = old.edit.item
    OBVIOUS
<1>3. PICK new : new = old.edit.link
    OBVIOUS
<1>4. /\ old.phase = "queried" /\ Open(e) /\ SafeTx(old, row) /\ old.edit.kind = "add"
      /\ UNCHANGED <<database, crossed>>
    BY <1>1 DEF FlushAdd, IInv, Open
<1>5. /\ p \in Pairs /\ p \in Items /\ p \notin Own /\ new \in Link /\ Shape(old)
      /\ EditOK(old.edit) /\ LinkOK(p, new)
    BY <1>2, <1>3, <1>4, EditIs, ItemsApart DEF SafeTx, EditOK
<1>6. CASE Fail(e)
    BY <1>4, <1>6, FailKeeps
<1>7. CASE ~ Fail(e)
  <2>1. PICK writes : writes = [i \in {p} |-> new]
      OBVIOUS
  <2>2. PICK t : t = FlushOf(old, new, writes, writes)
      OBVIOUS
  <2>3. /\ Free(e, p) /\ row[p] = NoLink /\ Advance(e, t)
        /\ new.selected => IndexFree(e, p) /\ SelectionUnique(p, {})
      BY <1>1, <1>2, <1>3, <1>7, <2>1, <2>2 DEF FlushAdd, FlushOf
  <2>4. /\ t.phase = "flushed" /\ t.edit = old.edit /\ t.view = writes /\ t.writes = writes
        /\ t.after = new /\ Shape(t)
      BY ONLY <1>5, <2>2, Flushed
  <2>5. DOMAIN writes = {p} /\ writes[p] = new
      BY <2>1
  <2>6. Over(writes, row)[p] = new /\ \A i \in Items \ {p} : Over(writes, row)[i] = row[i]
      BY <1>5, <2>5 DEF Over, IInv, RowsOK
  <2>7. Moves(e, t)
      BY <1>4, <2>3, <2>4 DEF Moves
  <2>8. Touches(t)
      BY <1>2, <1>5, <2>4, <2>5, LinkIs DEF Touches, RowOK
  <2>9. Reads(t)
      BY <1>5, <2>4, <2>5 DEF Reads
  <2>10. Fits(t, row, legacy)
      BY <1>2, <1>4, <2>4, <2>5, <2>6 DEF Fits, Tells, Ending
  <2>11. ASSUME NEW q \in Pairs \cap DOMAIN writes, Marked(writes, q)
         PROVE  IndexFree(e, q) /\ \A s \in Siblings(q) : ~Marked(Over(writes, row), s)
    <3>1. q = p /\ new.selected
        BY <2>5, <2>11 DEF Marked
    <3>2. \A s \in Siblings(p) : s \in Items \ {p}
        BY <1>5, SiblingsMutual, ItemsApart
    <3> QED
        BY <2>3, <2>6, <3>1, <3>2 DEF SelectionUnique, Marked
  <2>12. \A q \in Pairs \cap DOMAIN writes : \A s \in Siblings(q) \cap DOMAIN writes :
              ~(Marked(writes, q) /\ Marked(writes, s))
      BY <2>5 DEF Siblings
  <2>13. \A i \in DOMAIN writes : i \in Items /\ Free(e, i)
      BY <1>5, <2>3, <2>5
  <2> QED
      BY <1>4, <1>5, <2>4, <2>7, <2>8, <2>9, <2>10, <2>11, <2>12, <2>13, FlushKeeps
<1> QED
    BY <1>6, <1>7

LEMMA FlushRemoves ==
    ASSUME IInv, NEW e \in Editors, FlushRemove(e)
    PROVE  IInv'
<1>1. PICK old : old = tx[e]
    OBVIOUS
<1>2. PICK p : p = old.edit.item
    OBVIOUS
<1>3. /\ old.phase = "queried" /\ Open(e) /\ SafeTx(old, row) /\ old.edit.kind = "remove"
      /\ FitsTx(old, row, legacy)
      /\ UNCHANGED <<database, crossed>>
    BY <1>1 DEF FlushRemove, IInv, Open
<1>4. /\ p \in Pairs /\ p \in Items /\ p \notin Own /\ Shape(old)
      /\ EditOK(old.edit) /\ old.after = NoLink /\ DOMAIN old.view = {p} /\ DOMAIN old.writes = {}
      /\ old.view[p] \in Link
    BY <1>2, <1>3, EditIs, ItemsApart DEF SafeTx, EditOK, Reads
<1>5. PICK writes : writes = IF row[p] = NoLink THEN <<>> ELSE [i \in {p} |-> NoLink]
    OBVIOUS
<1>6. PICK t : t = [old EXCEPT !.phase = "flushed", !.view = <<>>, !.writes = writes]
    OBVIOUS
<1>0. CASE Fail(e)
    BY <1>0, <1>3, FailKeeps
<1> SUFFICES ASSUME ~Fail(e) PROVE IInv'
    BY <1>0
<1>7. /\ row[p] # NoLink => Free(e, p)
      /\ Advance(e, t)
    BY <1>1, <1>2, <1>5, <1>6 DEF FlushRemove
<1>8. t = FlushOf(old, NoLink, <<>>, writes)
    BY <1>4, <1>6 DEF Shape, FlushOf
<1>9. /\ t.phase = "flushed" /\ t.edit = old.edit /\ t.view = <<>> /\ t.writes = writes
      /\ t.after = NoLink /\ t.late = old.late /\ Shape(t)
    BY ONLY <1>4, <1>8, Flushed
<1>10. /\ row[p] = NoLink => DOMAIN writes = {}
       /\ row[p] # NoLink => DOMAIN writes = {p} /\ writes[p] = NoLink
    BY <1>5
<1>11. Moves(e, t)
    BY <1>3, <1>7, <1>9 DEF Moves
<1>12. Touches(t) /\ Reads(t)
    BY <1>2, <1>3, <1>4, <1>9, <1>10 DEF Touches, RowOK, LinkOK, Reads
<1>13. ASSUME ~t.late PROVE Fits(t, row, legacy)
  <2>1. old.view[p] = row[p]
    <3>1. Fits(old, row, legacy)
        BY <1>3, <1>9, <1>13 DEF FitsTx
    <3> QED
        BY <1>4, <3>1 DEF Fits, Over, IInv, RowsOK
  <2>2. row[p] # NoLink
      BY <1>4, <2>1, LinkIs
  <2>3. Over(writes, row)[p] = NoLink
      BY <1>4, <1>10, <2>2 DEF Over, IInv, RowsOK
  <2> QED
      BY <1>2, <1>3, <1>9, <1>10, <2>2, <2>3 DEF Fits, Tells, Ending
<1>14. \A q \in Pairs \cap DOMAIN writes : ~Marked(writes, q)
    BY <1>10 DEF Marked
<1>15. \A i \in DOMAIN writes : i \in Items /\ Free(e, i)
    BY <1>4, <1>7, <1>10
<1> QED
    BY <1>3, <1>4, <1>9, <1>11, <1>12, <1>13, <1>14, <1>15, FlushKeeps

LEMMA FlushUpdates ==
    ASSUME IInv, NEW e \in Editors, FlushUpdate(e)
    PROVE  IInv'
<1>1. PICK old : old = tx[e]
    OBVIOUS
<1>2. PICK i : i = old.edit.item
    OBVIOUS
<1>3. PICK seen : seen = old.view[i]
    OBVIOUS
<1>4. PICK new : new = Edited(old.edit, seen)
    OBVIOUS
<1>5. /\ old.phase = "queried" /\ Open(e) /\ SafeTx(old, row) /\ FitsTx(old, row, legacy)
      /\ old.edit.kind \in {"enable", "set_priority", "configure", "resource"}
      /\ Free(e, i) \/ (i \in Own /\ new = seen)
      /\ UNCHANGED <<database, crossed>>
    BY <1>1, <1>2, <1>3, <1>4 DEF FlushUpdate, IInv, Open
<1>6. /\ i \in Items /\ Shape(old) /\ EditOK(old.edit) /\ old.edit \in Edits
      /\ DOMAIN old.view = {i} /\ DOMAIN old.writes = {}
      /\ seen \in IF i \in Pairs THEN Link ELSE Binding
      /\ i \in Pairs <=> old.edit.kind # "resource"
      /\ i \in Own <=> old.edit.kind = "resource"
    BY <1>2, <1>3, <1>5, EditIs, ItemsApart DEF SafeTx, EditOK, Reads
<1>7. new \in IF i \in Pairs THEN Link ELSE Binding
    BY <1>4, <1>5, <1>6, EditedLink, EditedBinding
<1>8. CASE Fail(e)
    BY <1>5, <1>8, FailKeeps
<1>9. CASE ~ Fail(e)
  <2>1. PICK updated : updated = Updated(row[i], seen, new)
      OBVIOUS
  <2>2. PICK writes : writes = IF i \in Own /\ new = seen THEN <<>> ELSE [j \in {i} |-> updated]
      OBVIOUS
  <2>3. PICK view : view = [j \in {i} |-> new]
      OBVIOUS
  <2>4. PICK t : t = FlushOf(old, new, view, writes)
      OBVIOUS
  <2>5. /\ row[i] # NoLink /\ Advance(e, t)
        /\ i \in Pairs => (updated.selected => updated.enabled)
      BY <1>1, <1>2, <1>3, <1>4, <1>9, <2>1, <2>2, <2>3, <2>4 DEF FlushUpdate, FlushOf
  <2>6. /\ t.phase = "flushed" /\ t.edit = old.edit /\ t.view = view /\ t.writes = writes
        /\ t.after = new /\ t.late = old.late /\ Shape(t)
      BY ONLY <1>6, <2>4, Flushed
  <2>7. /\ DOMAIN view = {i} /\ view[i] = new
        /\ DOMAIN writes = {} \/ (DOMAIN writes = {i} /\ writes[i] = updated)
        /\ ~(i \in Own /\ new = seen) => DOMAIN writes = {i}
        /\ i \in Own /\ new = seen => DOMAIN writes = {}
      BY <2>2, <2>3
  <2>8. row[i] \in IF i \in Pairs THEN Link ELSE Binding
      BY <1>6, <2>5, RowIs, ItemsApart DEF IInv
  <2>9. RowOK(i, updated)
    <3>1. CASE i \in Pairs
      <4>1. updated \in Link /\ Provided(i) /\ (updated.selected => updated.enabled)
          BY <1>6, <1>7, <2>1, <2>5, <2>8, <3>1, UpdatedLink, RowIs DEF IInv
      <4> QED
          BY <1>6, <3>1, <4>1 DEF RowOK, LinkOK
    <3>2. CASE i \in Own
      <4>1. old.edit.kind = "resource"
          BY <1>6, <3>2
      <4>2. seen \in Binding /\ new \in Binding /\ row[i] \in Binding
          BY <1>6, <1>7, <2>8, <4>1
      <4>3. updated \in Binding /\ updated.resource \in {row[i].resource, new.resource}
          BY <2>1, <4>2, UpdatedBinding
      <4>4. new.resource \in Accepts[i[1]] \cup {NoResource}
          BY <1>2, <1>4, <1>6, <4>1, <4>2, EditedBinding DEF EditOK
      <4>5. row[i].resource \in Accepts[i[1]] \cup {NoResource}
          BY <1>6, <3>2, RowIs DEF IInv
      <4> QED
          BY <1>6, <4>1, <4>3, <4>4, <4>5 DEF RowOK, ResourceOK
    <3> QED
        BY <1>6, <3>1, <3>2
  <2>16. i \in Pairs => updated # NoLink
      BY <1>6, <1>7, <2>1, <2>8, UpdatedLink, LinkIs
  <2>10. Moves(e, t)
      BY <1>5, <2>5, <2>6 DEF Moves
  <2>11. Touches(t) /\ Reads(t)
      BY <1>2, <1>6, <1>7, <2>6, <2>7, <2>9, <2>16 DEF Touches, Reads
  <2>12. ASSUME ~t.late PROVE Fits(t, row, legacy)
    <3>1. seen = row[i]
      <4>1. Fits(old, row, legacy)
          BY <1>5, <2>6, <2>12 DEF FitsTx
      <4> QED
          BY <1>3, <1>6, <4>1 DEF Fits, Over, IInv, RowsOK
    <3>2. updated = new
        BY <1>6, <1>7, <2>1, <2>8, <3>1, UpdatedLink, UpdatedBinding
    <3>3. Over(writes, row)[i] = new
        BY <1>6, <2>7, <3>1, <3>2 DEF Over, IInv, RowsOK
    <3> QED
        BY <1>2, <1>5, <2>6, <2>7, <3>3 DEF Fits, Tells, Ending
  <2>13. ASSUME NEW p \in Pairs \cap DOMAIN writes, Marked(writes, p) PROVE Marked(row, p)
    <3>1. p = i /\ updated.selected /\ i \in Pairs
        BY <2>7, <2>13 DEF Marked
    <3>2. /\ seen \in Link /\ new \in Link /\ row[i] \in Link
          /\ new.selected = seen.selected \/ new.selected = FALSE
        BY <1>4, <1>5, <1>6, <1>7, <2>8, <3>1, EditedLink, EditIs, LinkIs
    <3>3. row[i].selected
        BY <2>1, <3>1, <3>2, UpdatedLink
    <3> QED
        BY <2>5, <3>1, <3>3 DEF Marked
  <2>14. \A p \in Pairs \cap DOMAIN writes : \A q \in Siblings(p) \cap DOMAIN writes :
              ~(Marked(writes, p) /\ Marked(writes, q))
      BY <2>7 DEF Siblings
  <2>15. \A j \in DOMAIN writes : j \in Items /\ Free(e, j)
      BY <1>5, <1>6, <2>7
  <2> QED
      BY <1>5, <1>6, <2>6, <2>10, <2>11, <2>12, <2>13, <2>14, <2>15, FlushKeeps
<1> QED
    BY <1>8, <1>9

\* The end of FlushSelect, with its LET definitions as parameters.
SelectRows(e, old, p, view, touched, new, before) ==
    IF /\ \A q \in touched : row[q] # NoLink
       /\ p \in touched => LET r == Updated(row[p], view[p], new[p])
                           IN r.selected => r.enabled
       /\ view[p].selected \/ SelectionUnique(p, before)
    THEN Advance(e, [old EXCEPT
           !.phase = "flushed", !.after = new[p], !.view = new,
           !.writes = [q \in touched |-> Updated(row[q], view[q], new[q])]])
    ELSE Fail(e)

LEMMA FlushSelects ==
    ASSUME IInv, NEW e \in Editors, FlushSelect(e)
    PROVE  IInv'
<1>1. PICK old : old = tx[e]
    OBVIOUS
<1>2. PICK p : p = old.edit.item
    OBVIOUS
<1>3. PICK view : view = old.view
    OBVIOUS
<1>4. PICK others : others = old.found \ {p}
    OBVIOUS
<1>5. PICK touched : touched = others \cup {q \in {p} : p \in old.found \/ ~view[p].selected}
    OBVIOUS
<1>6. PICK new : new = [q \in DOMAIN view |-> [view[q] EXCEPT !.selected = (q = p)]]
    OBVIOUS
<1>7. PICK before : before = {q \in others : q[1] < p[1]}
    OBVIOUS
<1>8. /\ old.phase = "queried" /\ Open(e) /\ SafeTx(old, row) /\ FitsTx(old, row, legacy)
      /\ old.edit.kind = "select"
      /\ \A q \in touched : Free(e, q)
      /\ view[p].selected \/ IndexFree(e, p)
      /\ UNCHANGED <<database, crossed>>
    BY <1>1, <1>2, <1>3, <1>4, <1>5 DEF FlushSelect, IInv, Open
<1>9. /\ p \in Pairs /\ Shape(old) /\ EditOK(old.edit) /\ old.edit \in Edits
      /\ DOMAIN view = old.found \cup {p} /\ DOMAIN old.writes = {}
      /\ old.found \subseteq Siblings(p) \cup {p}
      /\ \A q \in old.found \ {p} : view[q].selected
    BY <1>2, <1>3, <1>8, EditIs DEF SafeTx, EditOK, Reads
<1>10. \A q \in DOMAIN view : q \in Pairs /\ q \in Items /\ view[q] \in Link
  <2> SUFFICES ASSUME NEW q \in DOMAIN view PROVE q \in Pairs /\ q \in Items /\ view[q] \in Link
      OBVIOUS
  <2>1. q \in Pairs /\ q \in Items
      BY <1>9, SiblingsMutual, ItemsApart
  <2> QED
      BY <1>3, <1>8, <2>1 DEF SafeTx, Reads
<1>11. /\ DOMAIN new = DOMAIN view
       /\ \A q \in DOMAIN view : /\ new[q] \in Link /\ new[q].selected = (q = p)
                                 /\ new[q].enabled = view[q].enabled
                                 /\ new[q] = [view[q] EXCEPT !.selected = (q = p)]
  <2>1. ASSUME NEW link \in Link, NEW b \in BOOLEAN
        PROVE  LET n == [link EXCEPT !.selected = b] IN
               n \in Link /\ n.selected = b /\ n.enabled = link.enabled
      BY DEF Link
  <2>2. DOMAIN new = DOMAIN view
        /\ \A q \in DOMAIN view : new[q] = [view[q] EXCEPT !.selected = (q = p)]
      BY ONLY <1>6
  <2>3. ASSUME NEW q \in DOMAIN view
        PROVE  /\ new[q] \in Link /\ new[q].selected = (q = p)
               /\ new[q].enabled = view[q].enabled
    <3>1. PICK b \in BOOLEAN : b = (q = p)
        OBVIOUS
    <3>2. PICK link \in Link : link = view[q]
        BY <1>10
    <3>3. new[q] = [link EXCEPT !.selected = b]
        BY ONLY <2>2, <3>1, <3>2
    <3> QED
        BY ONLY <2>1, <3>1, <3>2, <3>3
  <2> QED
      BY ONLY <2>2, <2>3
<1>12. touched \subseteq DOMAIN view
    BY <1>4, <1>5, <1>9
<1>13. CASE Fail(e)
    BY <1>8, <1>13, FailKeeps
<1>14. CASE ~ Fail(e)
  <2>1. PICK writes : writes = [q \in touched |-> Updated(row[q], view[q], new[q])]
      OBVIOUS
  <2>2. PICK t : t = FlushOf(old, new[p], new, writes)
      OBVIOUS
  <2>3. /\ Advance(e, t)
        /\ \A q \in touched : row[q] # NoLink
        /\ p \in touched =>
              LET r == Updated(row[p], view[p], new[p]) IN r.selected => r.enabled
        /\ view[p].selected \/ SelectionUnique(p, before)
    <3>1. SelectRows(e, old, p, view, touched, new, before)
      <4> DEFINE item == tx[e].edit.item
                 seen == tx[e].view
                 rest == tx[e].found \ {item}
                 all == rest \cup {q \in {item} : item \in tx[e].found \/ ~seen[item].selected}
                 made == [q \in DOMAIN seen |-> [seen[q] EXCEPT !.selected = (q = item)]]
                 lower == {q \in rest : q[1] < item[1]}
      <4>1. SelectRows(e, tx[e], item, seen, all, made, lower)
          BY ONLY FlushSelect(e) DEF FlushSelect, SelectRows
      <4>2. item = p /\ seen = view /\ rest = others
          BY ONLY <1>1, <1>2, <1>3, <1>4
      <4>3. all = touched /\ made = new /\ lower = before
        <5>1. all = touched
            BY ONLY <1>1, <1>5, <4>2
        <5>2. made = new
            BY ONLY <1>6, <4>2
        <5>3. lower = before
            BY ONLY <1>7, <4>2
        <5> QED
            BY <5>1, <5>2, <5>3
      <4> HIDE DEF item, seen, rest, all, made, lower
      <4> QED
          BY ONLY <1>1, <4>1, <4>2, <4>3
    <3>2. t = [old EXCEPT !.phase = "flushed", !.after = new[p], !.view = new,
                 !.writes = [q \in touched |-> Updated(row[q], view[q], new[q])]]
        BY ONLY <2>1, <2>2 DEF FlushOf
    <3> QED
        BY ONLY <1>14, <3>1, <3>2 DEF SelectRows
  <2>4. /\ t.phase = "flushed" /\ t.edit = old.edit /\ t.view = new /\ t.writes = writes
        /\ t.after = new[p] /\ t.late = old.late /\ Shape(t)
      BY ONLY <1>9, <2>2, Flushed
  <2>5. DOMAIN writes = touched /\ \A q \in touched : writes[q] = Updated(row[q], view[q], new[q])
      BY <2>1
  <2>6. \A q \in touched : row[q] \in Link /\ Provided(q) /\ (row[q].selected => row[q].enabled)
      BY <1>10, <1>12, <2>3, RowIs DEF IInv
  <2>7. ASSUME NEW q \in touched
        PROVE  /\ writes[q] \in Link
               /\ writes[q].selected = IF new[q].selected = view[q].selected
                                       THEN row[q].selected ELSE new[q].selected
               /\ view[q] = row[q] => writes[q] = new[q]
      BY <1>10, <1>11, <1>12, <2>5, <2>6, UpdatedLink
  <2>8. ASSUME NEW q \in others PROVE ~ writes[q].selected
    <3>1. q \in touched /\ q # p /\ view[q].selected /\ q \in DOMAIN view
        BY <1>4, <1>5, <1>9
    <3>2. new[q].selected = FALSE /\ view[q].selected \in BOOLEAN
        BY <1>10, <1>11, <3>1, LinkIs
    <3> QED
        BY <2>7, <3>1, <3>2
  <2>9. ASSUME NEW q \in touched PROVE RowOK(q, writes[q])
    <3>1. q \in Pairs /\ q \notin Own
        BY <1>10, <1>12, ItemsApart
    <3>2. writes[q].selected => writes[q].enabled
      <4>1. CASE q = p
          BY <2>3, <2>5, <4>1
      <4>2. CASE q # p
          BY <1>5, <2>8, <4>2
      <4> QED
          BY <4>1, <4>2
    <3> QED
        BY <2>6, <2>7, <3>1, <3>2 DEF RowOK, LinkOK
  <2>10. Moves(e, t)
      BY <1>8, <2>3, <2>4 DEF Moves
  <2>11. touched \subseteq {p} \cup Siblings(p)
      BY <1>4, <1>5, <1>9
  <2>12. Touches(t)
      BY <1>2, <1>8, <2>4, <2>5, <2>7, <2>9, <2>11, LinkIs DEF Touches
  <2>13. Reads(t)
      BY <1>10, <1>11, <2>4 DEF Reads
  <2>14. \A q \in Pairs \cap touched : Marked(writes, q) => q = p
      BY <1>5, <2>8 DEF Marked
  <2>15. ASSUME p \in touched, ~view[p].selected, NEW q \in Siblings(p)
         PROVE  IndexFree(e, p) /\ ~Marked(Over(writes, row), q)
    <3>1. SelectionUnique(p, before) /\ IndexFree(e, p) /\ q # p /\ q \in Items
        BY <1>8, <1>9, <2>3, <2>15, SiblingsMutual, ItemsApart
    <3>2. CASE q \in others
      <4>1. Over(writes, row)[q] = writes[q]
          BY <1>5, <2>5, <3>1, <3>2 DEF Over, IInv, RowsOK
      <4> QED
          BY <2>8, <3>1, <3>2, <4>1 DEF Marked
    <3>3. CASE q \notin others
      <4>1. Over(writes, row)[q] = row[q]
          BY <1>5, <2>5, <3>1, <3>3 DEF Over, IInv, RowsOK
      <4>2. ~Marked(row, q)
          BY <1>7, <3>1, <3>3 DEF SelectionUnique, Marked
      <4> QED
          BY <3>1, <4>1, <4>2 DEF Marked
    <3> QED
        BY <3>1, <3>2, <3>3
  <2>16. ASSUME NEW q \in Pairs \cap touched, Marked(writes, q)
         PROVE  \/ Marked(row, q)
                \/ IndexFree(e, q) /\ \A s \in Siblings(q) : ~Marked(Over(writes, row), s)
    <3>1. q = p
        BY <2>14, <2>16
    <3>2. CASE view[p].selected
      <4>1. new[p].selected = view[p].selected
          BY <1>9, <1>10, <1>11, <3>2, LinkIs
      <4>2. writes[p].selected
          BY <2>16, <3>1 DEF Marked
      <4> QED
          BY <2>3, <2>7, <3>1, <4>1, <4>2 DEF Marked
    <3>3. CASE ~view[p].selected
        BY <1>8, <2>15, <3>1, <3>3
    <3> QED
        BY <3>2, <3>3
  <2>17. \A q \in Pairs \cap touched : \A s \in Siblings(q) \cap touched :
              ~(Marked(writes, q) /\ Marked(writes, s))
      BY <2>14 DEF Siblings
  <2>18. \A q \in touched : q \in Items /\ Free(e, q)
      BY <1>8, <1>10, <1>12
  <2>19. ASSUME ~t.late PROVE Fits(t, row, legacy)
    <3>1. Fits(old, row, legacy)
        BY <1>8, <2>4, <2>19 DEF FitsTx
    <3>2. \A q \in DOMAIN view : view[q] = row[q]
        BY <1>3, <1>9, <1>10, <3>1 DEF Fits, Over, IInv, RowsOK
    <3>3. touched = DOMAIN view
      <4>1. view[p].selected => p \in old.found
          BY <1>2, <1>3, <1>8, <3>1 DEF Fits
      <4> QED
          BY <1>4, <1>5, <1>9, <4>1
    <3>4. \A q \in DOMAIN view : writes[q] = new[q]
        BY <2>7, <3>2, <3>3
    <3>5. \A q \in DOMAIN view : Over(writes, row)[q] = new[q]
        BY <1>10, <2>5, <3>3, <3>4 DEF Over, IInv, RowsOK
    <3>6. p \in touched /\ Marked(writes, p)
        BY <1>9, <1>11, <3>3, <3>4, LinkIs DEF Marked
    <3>7. \A q \in touched \ {p} : row[q] # NoLink /\ writes[q] = [row[q] EXCEPT !.selected = FALSE]
      <4> SUFFICES ASSUME NEW q \in touched \ {p}
                   PROVE  writes[q] = [row[q] EXCEPT !.selected = FALSE]
          BY <2>3
      <4>1. /\ writes[q] = new[q] /\ view[q] = row[q]
            /\ new[q] = [view[q] EXCEPT !.selected = (q = p)] /\ (q = p) = FALSE
          BY <1>11, <3>2, <3>3, <3>4
      <4> QED
          BY ONLY <4>1
    <3>8. Tells(t, row)
        BY <1>2, <1>9, <1>11, <2>4, <2>5, <3>3, <3>5, <3>6, <3>7 DEF Tells
    <3> QED
        BY <1>11, <2>4, <3>5, <3>8 DEF Fits, Ending
  <2> QED
      BY <1>8, <1>9, <2>4, <2>5, <2>10, <2>12, <2>13, <2>16, <2>17, <2>18, <2>19, FlushKeeps
<1> QED
    BY <1>13, <1>14

-----------------------------------------------------------------------------
\* A transaction projects its links.

\* The fields that the end of a transaction does not change.
Later(old, t) ==
    /\ t.edit = old.edit /\ t.writes = old.writes /\ t.after = old.after /\ t.late = old.late
    /\ DOMAIN t.view = {} /\ t.phase \in Ending /\ Shape(t)

LEMMA LaterSafe ==
    ASSUME IInv, NEW e \in Editors, Open(e), tx[e].phase \in {"flushed"} \cup Ending,
           NEW t, Later(tx[e], t)
    PROVE  /\ SafeTx(t, row)
           /\ ~t.late => Fits(tx[e], row, legacy) /\ Tells(t, row)
<1>1. SafeTx(tx[e], row) /\ FitsTx(tx[e], row, legacy)
    BY DEF IInv
<1>2. Reads(t) /\ Touches(t) /\ Chosen(t.writes, row)
    BY <1>1 DEF SafeTx, Later, Reads, Touches, Ending
<1>3. SafeTx(t, row)
    BY <1>1, <1>2 DEF SafeTx, Later
<1>4. ASSUME ~t.late PROVE Fits(tx[e], row, legacy) /\ Tells(t, row)
  <2>1. Fits(tx[e], row, legacy)
      BY <1>1, <1>4 DEF Later, FitsTx, Ending
  <2> QED
      BY <2>1 DEF Later, Fits, Tells, Ending
<1> QED
    BY <1>3, <1>4

LEMMA ProjectReads ==
    ASSUME IInv, NEW e \in Editors, ProjectRead(e)
    PROVE  IInv'
<1>1. PICK old : old = tx[e]
    OBVIOUS
<1>2. PICK rows : rows = Reading(e)
    OBVIOUS
<1>3. /\ old.phase = "flushed" /\ Open(e) /\ SafeTx(old, row)
      /\ UNCHANGED <<database, crossed>>
    BY <1>1 DEF ProjectRead, IInv, Open
<1>4. CASE Fail(e)
    BY <1>3, <1>4, FailKeeps
<1>5. CASE ~ Fail(e)
  <2>1. PICK t : t = [old EXCEPT !.phase = "projected", !.view = <<>>,
                          !.found = {k \in Keys : legacy[k] # NoRow}, !.desired = Projection(rows)]
      OBVIOUS
  <2>2. Advance(e, t) /\ ~Divergent(rows)
      BY <1>1, <1>2, <1>5, <2>1 DEF ProjectRead
  <2>3. t = [phase |-> "projected", edit |-> old.edit, view |-> <<>>, writes |-> old.writes,
             after |-> old.after, found |-> {k \in Keys : legacy[k] # NoRow},
             desired |-> Projection(rows), legacy |-> old.legacy, on |-> old.on,
             late |-> old.late]
      BY ONLY <1>3, <2>1 DEF SafeTx, Shape
  <2>4. /\ Later(old, t) /\ t.phase = "projected" /\ t.view = <<>> /\ t.writes = old.writes
        /\ t.found = {k \in Keys : legacy[k] # NoRow} /\ t.desired = Projection(rows)
    <3>1. /\ t.phase = "projected" /\ t.edit = old.edit /\ t.view = <<>>
          /\ t.writes = old.writes /\ t.after = old.after /\ t.late = old.late
          /\ t.found = {k \in Keys : legacy[k] # NoRow} /\ t.desired = Projection(rows)
        BY ONLY <2>3
    <3>2. Shape(t)
        BY ONLY <2>3 DEF Shape
    <3> QED
        BY ONLY <3>1, <3>2 DEF Later, Ending
  <2>5. SafeTx(t, row) /\ (~t.late => Fits(old, row, legacy) /\ Tells(t, row))
      BY <1>1, <1>3, <2>4, LaterSafe
  <2>6. ASSUME ~t.late PROVE rows = Composed(Over(t.writes, row))
    <3>1. /\ \A i \in DOMAIN old.view : old.view[i] = Over(old.writes, row)[i]
          /\ \A i \in DOMAIN old.writes \ DOMAIN old.view : old.writes[i] = NoLink
        BY <1>3, <2>5, <2>6 DEF Fits, Tells
    <3>2. PICK table : table = Over(old.writes, row)
        OBVIOUS
    <3>3. Found(e) = {p \in Pairs : table[p] # NoLink}
        BY <1>1, <3>2 DEF Found
    <3>4. \A p \in Found(e) : (IF p \in DOMAIN old.view THEN old.view[p] ELSE row[p]) = table[p]
      <4> SUFFICES ASSUME NEW p \in Found(e), p \notin DOMAIN old.view PROVE row[p] = table[p]
          BY <3>1, <3>2
      <4>1. p \in Items /\ table[p] # NoLink
          BY <3>3, ItemsApart
      <4>2. p \notin DOMAIN old.writes
          BY <3>1, <3>2, <4>1, OverIs DEF IInv, RowsOK
      <4> QED
          BY <3>2, <4>1, <4>2, OverIs DEF IInv, RowsOK
    <3>5. rows = [p \in Found(e) |-> IF p \in DOMAIN old.view THEN old.view[p] ELSE row[p]]
        BY <1>1, <1>2 DEF Reading
    <3>6. rows = [p \in Found(e) |-> table[p]]
        BY ONLY <3>4, <3>5
    <3>7. rows = Composed(table)
        BY <3>3, <3>6 DEF Composed
    <3> QED
        BY <2>4, <3>2, <3>7
  <2>7. FitsTx(t, row, legacy)
      BY <2>2, <2>4, <2>5, <2>6 DEF FitsTx, Fits, Ending
  <2>8. Moves(e, t)
      BY <1>3, <2>2, <2>4 DEF Moves
  <2> QED
      BY <1>1, <1>3, <2>4, <2>5, <2>7, <2>8, SameWritesKeep
<1> QED
    BY <1>4, <1>5

LEMMA ProjectBlocks ==
    ASSUME IInv, NEW e \in Editors, ProjectBlock(e)
    PROVE  IInv'
<1>1. PICK old : old = tx[e]
    OBVIOUS
<1>2. /\ old.phase = "projected" /\ Open(e) /\ SafeTx(old, row)
      /\ UNCHANGED <<database, crossed>>
    BY <1>1 DEF ProjectBlock, IInv, Open
<1>3. PICK k \in old.found : Advance(e, [old EXCEPT !.phase = "blocked", !.on = k])
    BY <1>1 DEF ProjectBlock
<1>4. PICK t : t = [old EXCEPT !.phase = "blocked", !.on = k]
    OBVIOUS
<1>5. t = [phase |-> "blocked", edit |-> old.edit, view |-> old.view, writes |-> old.writes,
           after |-> old.after, found |-> old.found, desired |-> old.desired,
           legacy |-> old.legacy, on |-> k, late |-> old.late]
    BY ONLY <1>2, <1>4 DEF SafeTx, Shape
<1>6. /\ t.phase = "blocked" /\ t.edit = old.edit /\ t.view = old.view
      /\ t.writes = old.writes /\ t.after = old.after /\ t.late = old.late
      /\ t.found = old.found /\ t.desired = old.desired
      /\ Shape(t)
    BY ONLY <1>5 DEF Shape
<1>7. SafeTx(t, row)
  <2>1. Reads(t) /\ Touches(t)
      BY <1>2, <1>6 DEF SafeTx, Reads, Touches
  <2> QED
      BY <1>2, <1>6, <2>1 DEF SafeTx, Ending
<1>8. FitsTx(t, row, legacy)
  <2> SUFFICES ASSUME ~t.late PROVE Fits(t, row, legacy)
      BY DEF FitsTx
  <2>1. Fits(old, row, legacy)
      BY <1>1, <1>2, <1>6 DEF IInv, FitsTx
  <2> QED
      BY <1>2, <1>6, <2>1 DEF Fits, Tells, Ending
<1>9. Moves(e, t)
    BY <1>2, <1>3, <1>4, <1>6 DEF Moves
<1> QED
    BY <1>1, <1>2, <1>6, <1>7, <1>8, <1>9, SameWritesKeep

LEMMA ProjectWrites ==
    ASSUME IInv, NEW e \in Editors, ProjectWrite(e)
    PROVE  IInv'
<1>1. PICK old : old = tx[e]
    OBVIOUS
<1>2. PICK keys : keys = old.found \cup DOMAIN old.desired
    OBVIOUS
<1>3. /\ old.phase = "projected" /\ Open(e) /\ SafeTx(old, row)
      /\ UNCHANGED <<database, crossed>>
    BY <1>1 DEF ProjectWrite, IInv, Open
<1>4. CASE Fail(e)
    BY <1>3, <1>4, FailKeeps
<1>5. CASE ~ Fail(e)
  <2>1. PICK stored : stored = [k \in keys |-> IF k \in DOMAIN old.desired
                                               THEN old.desired[k] ELSE NoRow]
      OBVIOUS
  <2>2. PICK t : t = [old EXCEPT !.phase = "written", !.found = {}, !.desired = <<>>,
                                 !.legacy = stored]
      OBVIOUS
  <2>3. Advance(e, t)
      BY <1>1, <1>2, <1>5, <2>1, <2>2 DEF ProjectWrite
  <2>4. t = [phase |-> "written", edit |-> old.edit, view |-> old.view, writes |-> old.writes,
             after |-> old.after, found |-> {}, desired |-> <<>>, legacy |-> stored,
             on |-> old.on, late |-> old.late]
      BY ONLY <1>3, <2>2 DEF SafeTx, Shape
  <2>5. /\ t.phase = "written" /\ t.edit = old.edit /\ t.view = old.view
        /\ t.writes = old.writes /\ t.after = old.after /\ t.late = old.late
        /\ t.legacy = stored /\ Shape(t)
      BY ONLY <2>4 DEF Shape
  <2>6. SafeTx(t, row)
    <3>1. Reads(t) /\ Touches(t)
        BY <1>3, <2>5 DEF SafeTx, Reads, Touches
    <3> QED
        BY <1>3, <2>5, <3>1 DEF SafeTx, Ending
  <2>7. FitsTx(t, row, legacy)
    <3> SUFFICES ASSUME ~t.late PROVE Fits(t, row, legacy)
        BY DEF FitsTx
    <3>1. Fits(old, row, legacy)
        BY <1>1, <1>3, <2>5 DEF IInv, FitsTx
    <3>2. PICK table : table = Over(old.writes, row)
        OBVIOUS
    <3>3. /\ old.found = {k \in Keys : legacy[k] # NoRow}
          /\ old.desired = Projection(Composed(table))
          /\ ~Divergent(Composed(table))
        BY <1>3, <3>1, <3>2 DEF Fits
    <3>4. ASSUME NEW k \in Keys
          PROVE  Over(stored, legacy)[k] = IF k \in DOMAIN Projection(Composed(table))
                                           THEN Projection(Composed(table))[k] ELSE NoRow
      <4>1. Over(stored, legacy)[k] = IF k \in keys THEN stored[k] ELSE legacy[k]
          BY <2>1, OverIs DEF IInv
      <4>2. k \in keys => stored[k] = IF k \in DOMAIN old.desired THEN old.desired[k] ELSE NoRow
          BY <2>1
      <4>3. k \notin keys => legacy[k] = NoRow /\ k \notin DOMAIN old.desired
          BY <1>2, <3>3
      <4>4. k \in DOMAIN old.desired => k \in keys
          BY <1>2
      <4> QED
          BY <3>3, <4>1, <4>2, <4>3, <4>4
    <3>5. ProjectionOf(Over(t.writes, row), Over(t.legacy, legacy))
        BY <2>5, <3>2, <3>3, <3>4 DEF ProjectionOf
    <3> QED
        BY <1>3, <2>5, <3>1, <3>5 DEF Fits, Tells, Ending
  <2>8. Moves(e, t)
      BY <1>3, <2>3, <2>5 DEF Moves
  <2> QED
      BY <1>1, <1>3, <2>5, <2>6, <2>7, <2>8, SameWritesKeep
<1> QED
    BY <1>4, <1>5

-----------------------------------------------------------------------------
\* A transaction ends.

\* What the end of another transaction does to transaction t.
Woken(t, f) ==
    /\ f.edit = t.edit /\ f.view = t.view /\ f.writes = t.writes /\ f.after = t.after
    /\ f.desired = t.desired /\ f.legacy = t.legacy /\ Shape(f)
    /\ (f.phase = t.phase) \/ (t.phase = "blocked" /\ f.phase = "projected")
    /\ t.phase # "blocked" => f.found = t.found

LEMMA ReleasedIs ==
    ASSUME IInv, NEW e \in Editors, NEW committed \in BOOLEAN, tx' = Released(e, committed)
    PROVE  /\ DOMAIN tx' = Editors /\ tx'[e] = Idle
           /\ \A d \in Editors \ {e} : ~Open(d) => tx'[d] = tx[d]
           /\ \A d \in Editors \ {e} : Open(d) =>
                 /\ Woken(tx[d], tx'[d])
                 /\ ~committed => tx'[d].found = tx[d].found /\ (~tx'[d].late => ~tx[d].late)
                 /\ committed /\ ~tx'[d].late =>
                       /\ ~tx[d].late /\ tx[d].phase \notin Ending
                       /\ DOMAIN tx[e].writes \cap DOMAIN tx[d].view = {}
<1>1. DOMAIN tx' = Editors /\ tx'[e] = Idle
    BY DEF Released
<1>2. ASSUME NEW d \in Editors \ {e}, ~Open(d) PROVE tx'[d] = tx[d]
    BY <1>2 DEF Released
<1>3. ASSUME NEW d \in Editors \ {e}, Open(d)
      PROVE  /\ Woken(tx[d], tx'[d])
             /\ ~committed => tx'[d].found = tx[d].found /\ (~tx'[d].late => ~tx[d].late)
             /\ committed /\ ~tx'[d].late =>
                   /\ ~tx[d].late /\ tx[d].phase \notin Ending
                   /\ DOMAIN tx[e].writes \cap DOMAIN tx[d].view = {}
  <2>1. PICK t : t = tx[d]
      OBVIOUS
  <2>2. PICK woken \in BOOLEAN : woken = (t.phase = "blocked" /\ t.on \in DOMAIN tx[e].legacy)
      OBVIOUS
  <2>3. PICK missed \in BOOLEAN :
            missed = (committed /\ (\/ t.phase \in {"projected", "blocked", "written"}
                                    \/ DOMAIN tx[e].writes \cap DOMAIN t.view # {}))
      OBVIOUS
  <2>4. tx'[d] = [t EXCEPT !.phase = IF woken THEN "projected" ELSE @,
                           !.found = IF woken /\ committed THEN @ \ {t.on} ELSE @,
                           !.on = IF woken THEN NoRow ELSE @,
                           !.late = @ \/ missed]
      BY <1>3, <2>1, <2>2, <2>3 DEF Released
  <2>0. PICK late \in BOOLEAN : late = (t.late \/ missed)
      OBVIOUS
  <2>5. Shape(t)
      BY <1>3, <2>1 DEF IInv, SafeTx
  <2>6. PICK f : f = tx'[d]
      OBVIOUS
  <2>7. f = [phase |-> IF woken THEN "projected" ELSE t.phase, edit |-> t.edit,
             view |-> t.view, writes |-> t.writes, after |-> t.after,
             found |-> IF woken /\ committed THEN t.found \ {t.on} ELSE t.found,
             desired |-> t.desired, legacy |-> t.legacy,
             on |-> IF woken THEN NoRow ELSE t.on, late |-> late]
      BY ONLY <2>4, <2>5, <2>6, <2>0 DEF Shape
  <2>8. /\ f.phase = IF woken THEN "projected" ELSE t.phase
        /\ f.edit = t.edit /\ f.view = t.view /\ f.writes = t.writes /\ f.after = t.after
        /\ f.found = IF woken /\ committed THEN t.found \ {t.on} ELSE t.found
        /\ f.desired = t.desired /\ f.legacy = t.legacy /\ f.late = late
        /\ Shape(f)
      BY ONLY <2>7 DEF Shape
  <2>9. Woken(t, f)
    <3>1. woken => t.phase = "blocked"
        BY <2>2
    <3>2. /\ t.phase # "blocked" => f.found = t.found
          /\ (f.phase = t.phase) \/ (t.phase = "blocked" /\ f.phase = "projected")
        BY <2>8, <3>1
    <3>3. /\ f.edit = t.edit /\ f.view = t.view /\ f.writes = t.writes /\ f.after = t.after
          /\ f.desired = t.desired /\ f.legacy = t.legacy /\ Shape(f)
        BY ONLY <2>8
    <3>4. (f.phase = t.phase) \/ (t.phase = "blocked" /\ f.phase = "projected")
        BY ONLY <3>2
    <3>5. t.phase # "blocked" => f.found = t.found
        BY ONLY <3>2
    <3> QED
        BY ONLY <3>3, <3>4, <3>5, Zenon DEF Woken
  <2>10. ASSUME ~committed PROVE f.found = t.found /\ (~f.late => ~t.late)
    <3>1. ~late => ~t.late
        BY <2>0
    <3> QED
        BY <2>8, <2>10, <3>1
  <2>11. ASSUME committed, ~f.late
         PROVE  /\ ~t.late /\ t.phase \notin Ending
                /\ DOMAIN tx[e].writes \cap DOMAIN t.view = {}
    <3>1. ~late
        BY <2>8, <2>11
    <3>2. ~t.late /\ ~missed
        BY <2>0, <3>1
    <3> QED
        BY <2>3, <2>11, <3>2 DEF Ending
  <2> QED
      BY <2>1, <2>6, <2>9, <2>10, <2>11
<1> QED
    BY <1>1, <1>2, <1>3

LEMMA WokenSafe ==
    ASSUME NEW t, NEW f, Woken(t, f), NEW rows, SafeTx(t, rows)
    PROVE  f.phase # "idle" /\ Reads(f) /\ Touches(f)
           /\ (Chosen(t.writes, rows) => SafeTx(f, rows))
<1>1. /\ f.edit = t.edit /\ f.view = t.view /\ f.writes = t.writes /\ f.after = t.after
      /\ Shape(f)
      /\ (f.phase = t.phase) \/ (t.phase = "blocked" /\ f.phase = "projected")
      /\ t.phase # "blocked" => f.found = t.found
    BY DEF Woken
<1>2. f.phase \in {"read", "queried", "flushed", "failed"} \cup Ending
    BY <1>1 DEF SafeTx, Ending
<1>3. f.phase \in {"read", "queried"} => f.phase = t.phase /\ f.found = t.found
    BY <1>1
<1>4. Reads(f) /\ Touches(f)
    BY <1>1, <1>3 DEF SafeTx, Reads, Touches
<1> QED
    BY <1>1, <1>2, <1>4 DEF SafeTx, Ending

\* Who is still there after an end: transactions that were there before, with
\* their writes.
LEMMA ReleasedApart ==
    ASSUME IInv, NEW e \in Editors, NEW committed \in BOOLEAN, tx' = Released(e, committed)
    PROVE  \A d, f \in Editors : d # f => Apart(Writes(tx'[d]), Writes(tx'[f]))
<1>1. DOMAIN Writes(tx'[e]) = {}
    BY ReleasedIs DEF Writes, Idle
<1>2. ASSUME NEW d \in Editors \ {e} PROVE Writes(tx'[d]) = Writes(tx[d])
  <2>1. CASE ~Open(d)
      BY <2>1, ReleasedIs
  <2>2. CASE Open(d)
    <3>1. Woken(tx[d], tx'[d]) /\ SafeTx(tx[d], row)
        BY <2>2, ReleasedIs DEF IInv
    <3>2. tx'[d].phase # "idle"
        BY <3>1, WokenSafe
    <3> QED
        BY <2>2, <3>1, <3>2 DEF Writes, Open, Woken
  <2> QED
      BY <2>1, <2>2
<1> SUFFICES ASSUME NEW d \in Editors, NEW f \in Editors, d # f
             PROVE  Apart(Writes(tx'[d]), Writes(tx'[f]))
    OBVIOUS
<1>3. CASE d = e
    BY <1>1, <1>3, NothingWritten
<1>4. CASE f = e
    BY <1>1, <1>4, NothingWritten, ApartMutual
<1>5. CASE d # e /\ f # e
    BY <1>2, <1>5 DEF IInv
<1> QED
    BY <1>3, <1>4, <1>5

LEMMA GivesUp ==
    ASSUME IInv, NEW e \in Editors, tx' = Released(e, FALSE), UNCHANGED <<database, crossed>>
    PROVE  IInv'
<1>1. row' = row /\ legacy' = legacy /\ told' = told /\ crossed' = crossed
    BY DEF database
<1>0. PICK c \in BOOLEAN : c = FALSE
    OBVIOUS
<1>4. tx' = Released(e, c)
    BY <1>0
<1>5. /\ DOMAIN tx' = Editors /\ tx'[e].phase = "idle"
      /\ \A d \in Editors \ {e} : ~Open(d) => tx'[d].phase = "idle"
      /\ \A d \in Editors \ {e} : Open(d) =>
            Woken(tx[d], tx'[d]) /\ tx'[d].found = tx[d].found /\ (~tx'[d].late => ~tx[d].late)
      /\ \A d, f \in Editors : d # f => Apart(Writes(tx'[d]), Writes(tx'[f]))
  <2>1. DOMAIN tx' = Editors /\ tx'[e] = Idle
      BY <1>4, ReleasedIs
  <2>2. \A d \in Editors \ {e} : ~Open(d) => tx'[d] = tx[d]
      BY <1>4, ReleasedIs
  <2>3. \A d \in Editors \ {e} : Open(d) =>
            Woken(tx[d], tx'[d]) /\ tx'[d].found = tx[d].found /\ (~tx'[d].late => ~tx[d].late)
    <3> SUFFICES ASSUME NEW d \in Editors \ {e}, Open(d)
                 PROVE  /\ Woken(tx[d], tx'[d]) /\ tx'[d].found = tx[d].found
                        /\ ~tx'[d].late => ~tx[d].late
        OBVIOUS
    <3>1. /\ Woken(tx[d], tx'[d])
          /\ ~c => tx'[d].found = tx[d].found /\ (~tx'[d].late => ~tx[d].late)
        BY <1>4, ReleasedIs
    <3>2. ~c
        BY <1>0
    <3> QED
        BY ONLY <3>1, <3>2
  <2>4. \A d, f \in Editors : d # f => Apart(Writes(tx'[d]), Writes(tx'[f]))
      BY <1>4, ReleasedApart
  <2> QED
    <3>1. tx'[e].phase = "idle"
        BY ONLY <2>1 DEF Idle
    <3>2. \A d \in Editors \ {e} : ~Open(d) => tx'[d].phase = "idle"
        BY <2>2 DEF Open
    <3> QED
        BY ONLY <2>1, <2>3, <2>4, <3>1, <3>2
<1>2. ASSUME NEW d \in Editors, tx'[d].phase # "idle"
      PROVE  SafeTx(tx'[d], row') /\ FitsTx(tx'[d], row', legacy')
  <2>1. d # e /\ Open(d)
      BY <1>2, <1>5
  <2>2. /\ Woken(tx[d], tx'[d]) /\ tx'[d].found = tx[d].found /\ (~tx'[d].late => ~tx[d].late)
        /\ SafeTx(tx[d], row) /\ FitsTx(tx[d], row, legacy)
      BY <2>1, <1>5 DEF IInv
  <2>3. SafeTx(tx'[d], row)
      BY <2>2, WokenSafe DEF SafeTx
  <2>4. PICK t, f : t = tx[d] /\ f = tx'[d]
      OBVIOUS
  <2>5. FitsTx(f, row, legacy)
    <3> SUFFICES ASSUME ~f.late, f.phase # "failed" PROVE Fits(f, row, legacy)
        BY DEF FitsTx
    <3>1. /\ f.edit = t.edit /\ f.view = t.view /\ f.writes = t.writes /\ f.after = t.after
          /\ f.desired = t.desired /\ f.legacy = t.legacy /\ f.found = t.found
          /\ (f.phase = t.phase) \/ (t.phase = "blocked" /\ f.phase = "projected")
        BY <2>2, <2>4 DEF Woken
    <3>2. Fits(t, row, legacy)
        BY <2>2, <2>4, <3>1 DEF FitsTx
    <3>3. f.phase \in {"flushed"} \cup Ending => Tells(f, row)
        BY ONLY <3>1, <3>2 DEF Fits, Tells, Ending
    <3> QED
        BY ONLY <3>1, <3>2, <3>3 DEF Fits, Ending
  <2> QED
      BY <1>1, <2>3, <2>4, <2>5
<1>6. RowsOK(row') /\ DOMAIN legacy' = Keys
    BY <1>1 DEF IInv
<1>7. ~crossed' => ProjectionOf(row', legacy') /\ told' = row'
    BY <1>1 DEF IInv
<1> QED
    BY <1>2, <1>5, <1>6, <1>7 DEF IInv, Open

\* What is stored when one transaction has committed.
LEMMA CommittedRows ==
    ASSUME IInv, NEW e \in Editors, Open(e)
    PROVE  RowsOK(Over(tx[e].writes, row))
<1>1. PICK writes : writes = tx[e].writes
    OBVIOUS
<1>2. PICK rows : rows = Over(writes, row)
    OBVIOUS
<1>3. SafeTx(tx[e], row) /\ RowsOK(row)
    BY DEF IInv
<1>4. /\ DOMAIN rows = Items
      /\ \A i \in Items : rows[i] = IF i \in DOMAIN writes THEN writes[i] ELSE row[i]
    BY <1>2, <1>3, OverIs DEF RowsOK
<1>5. ASSUME NEW i \in Items PROVE RowOK(i, rows[i])
    BY <1>1, <1>3, <1>4 DEF SafeTx, Touches, RowsOK
<1>6. ASSUME NEW p \in Pairs, NEW q \in Siblings(p), p \in DOMAIN writes, Marked(rows, p)
      PROVE  ~Marked(rows, q)
  <2>1. Marked(writes, p)
      BY <1>4, <1>6, ItemsApart DEF Marked
  <2> QED
      BY <1>1, <1>2, <1>3, <1>6, <2>1 DEF SafeTx, Chosen
<1>7. ASSUME NEW p \in Pairs, NEW q \in Siblings(p), Marked(rows, p), Marked(rows, q)
      PROVE  FALSE
  <2>1. q \in Pairs /\ p \in Siblings(q) /\ p \in Items /\ q \in Items
      BY SiblingsMutual, ItemsApart
  <2>2. p \notin DOMAIN writes /\ q \notin DOMAIN writes
      BY <1>6, <1>7, <2>1
  <2>3. Marked(row, p) /\ Marked(row, q)
      BY <1>4, <1>7, <2>1, <2>2 DEF Marked
  <2> QED
      BY <1>3, <2>3 DEF RowsOK
<1> QED
    BY <1>1, <1>2, <1>4, <1>5, <1>7 DEF RowsOK

\* Another transaction after the commit of e.
LEMMA CommittedOthers ==
    ASSUME IInv, NEW e \in Editors, Open(e), tx' = Released(e, TRUE),
           row' = Over(tx[e].writes, row),
           NEW d \in Editors, d # e, Open(d)
    PROVE  SafeTx(tx'[d], row') /\ FitsTx(tx'[d], row', legacy')
<1>1. PICK writes : writes = tx[e].writes
    OBVIOUS
<1>2. PICK t, f : t = tx[d] /\ f = tx'[d]
    OBVIOUS
<1>3. /\ Woken(t, f) /\ SafeTx(t, row) /\ FitsTx(t, row, legacy)
      /\ ~f.late => /\ ~t.late /\ t.phase \notin Ending
                    /\ DOMAIN writes \cap DOMAIN t.view = {}
    BY <1>1, <1>2, ReleasedIs DEF IInv
<1>4. /\ \A i \in Items : row'[i] = IF i \in DOMAIN writes THEN writes[i] ELSE row[i]
      /\ DOMAIN row = Items /\ DOMAIN row' = Items
    BY <1>1, OverIs DEF IInv, RowsOK
<1>5. Apart(t.writes, writes)
  <2>1. Writes(tx[d]) = t.writes /\ Writes(tx[e]) = writes
      BY <1>1, <1>2 DEF Writes, Open
  <2> QED
      BY <2>1 DEF IInv
<1>6. Chosen(t.writes, row')
  <2> SUFFICES ASSUME NEW p \in Pairs \cap DOMAIN t.writes, Marked(t.writes, p),
                      NEW q \in Siblings(p)
               PROVE  ~Marked(Over(t.writes, row'), q)
      BY DEF Chosen
  <2>1. q \in Items
      BY SiblingsMutual, ItemsApart
  <2>2. ~Marked(Over(t.writes, row), q)
      BY <1>3 DEF SafeTx, Chosen
  <2>3. /\ Over(t.writes, row)[q] = IF q \in DOMAIN t.writes THEN t.writes[q] ELSE row[q]
        /\ Over(t.writes, row')[q] = IF q \in DOMAIN t.writes THEN t.writes[q] ELSE row'[q]
      BY <1>4, <2>1, OverIs
  <2>4. CASE q \in DOMAIN t.writes \/ q \notin DOMAIN writes
      BY <1>4, <2>1, <2>2, <2>3, <2>4 DEF Marked
  <2>5. CASE q \notin DOMAIN t.writes /\ q \in DOMAIN writes
    <3>1. ~Marked(writes, q)
        BY <1>5, <2>5 DEF Apart
    <3> QED
        BY <1>4, <2>1, <2>3, <2>5, <3>1 DEF Marked
  <2> QED
      BY <2>4, <2>5
<1>7. SafeTx(f, row')
  <2>1. Reads(f) /\ Touches(f) /\ (Chosen(t.writes, row) => SafeTx(f, row))
      BY <1>3, WokenSafe
  <2>2. SafeTx(f, row) /\ f.writes = t.writes
      BY <1>3, <2>1 DEF SafeTx, Woken
  <2> QED
      BY <1>6, <2>1, <2>2 DEF SafeTx
<1>8. ASSUME ~f.late, f.phase # "failed" PROVE Fits(f, row', legacy')
  <2>1. /\ ~t.late /\ t.phase \notin Ending /\ DOMAIN writes \cap DOMAIN t.view = {}
        /\ DOMAIN t.writes \cap DOMAIN writes = {}
      BY <1>3, <1>5, <1>8 DEF Apart
  <2>2. /\ f.edit = t.edit /\ f.view = t.view /\ f.writes = t.writes /\ f.after = t.after
        /\ f.found = t.found /\ f.phase = t.phase
      BY <1>3, <2>1 DEF Woken, Ending
  <2>3. Fits(t, row, legacy)
      BY <1>3, <1>8, <2>1, <2>2 DEF FitsTx
  <2>4. DOMAIN t.view \subseteq Items /\ DOMAIN t.writes \subseteq Items
    <3>1. DOMAIN t.view \subseteq Items /\ t.edit.item \in Items
        BY <1>3, EditIs DEF SafeTx, Reads, EditOK
    <3>2. DOMAIN t.writes \subseteq {t.edit.item} \cup Siblings(t.edit.item)
        BY <1>3 DEF SafeTx, Touches
    <3> QED
        BY <3>1, <3>2, ItemsApart DEF Siblings
  <2>5. \A i \in DOMAIN t.view \cup DOMAIN t.writes :
            /\ row'[i] = row[i]
            /\ Over(t.writes, row')[i] = Over(t.writes, row)[i]
    <3> SUFFICES ASSUME NEW i \in DOMAIN t.view \cup DOMAIN t.writes
                 PROVE  row'[i] = row[i] /\ Over(t.writes, row')[i] = Over(t.writes, row)[i]
        OBVIOUS
    <3>1. i \in Items /\ i \notin DOMAIN writes
        BY <2>1, <2>4
    <3>2. row'[i] = row[i]
        BY <1>4, <3>1
    <3> QED
        BY <1>4, <3>1, <3>2, OverIs
  <2>6. f.phase = "flushed" => Tells(f, row')
      BY <2>2, <2>3, <2>5 DEF Fits, Tells, Ending
  <2> QED
      BY <2>1, <2>2, <2>3, <2>5, <2>6 DEF Fits, Ending
<1> QED
    BY <1>2, <1>7, <1>8 DEF FitsTx

\* The audit event of a commit in time tells what it has changed.
LEMMA CommitTells ==
    ASSUME IInv, NEW e \in Editors, Commit(e), ~tx[e].late, ~crossed
    PROVE  told' = row'
<1>1. PICK t : t = tx[e]
    OBVIOUS
<1>2. PICK item : item = t.edit.item
    OBVIOUS
<1>3. /\ t.phase = "written" /\ Open(e) /\ SafeTx(t, row) /\ told = row /\ Tells(t, row)
      /\ row' = Over(t.writes, row) /\ told' = Audited(t)
    BY <1>1 DEF Commit, IInv, Open, FitsTx, Fits, Ending
<1>4. /\ \A i \in Items : row'[i] = IF i \in DOMAIN t.writes THEN t.writes[i] ELSE row[i]
      /\ DOMAIN row' = Items /\ RowsOK(row)
    BY <1>3, OverIs DEF IInv, RowsOK
<1>5. told' = [i \in Items |->
          IF i = item THEN t.after
          ELSE IF t.edit.kind = "select" /\ i \in Siblings(item) /\ row[i] # NoLink
               THEN [row[i] EXCEPT !.selected = FALSE] ELSE row[i]]
    BY ONLY <1>2, <1>3 DEF Audited
<1>6. ASSUME NEW i \in Items PROVE told'[i] = row'[i]
  <2>1. CASE i = item
    <3>1. row'[i] = t.after
        BY <1>2, <1>3, <2>1 DEF Tells
    <3> QED
        BY <1>5, <2>1, <3>1
  <2>2. CASE i # item /\ t.edit.kind = "select" /\ i \in Siblings(item) /\ row[i] # NoLink
    <3>1. told'[i] = [row[i] EXCEPT !.selected = FALSE]
        BY <1>5, <2>2
    <3>2. CASE i \in DOMAIN t.writes
        BY <1>2, <1>3, <1>4, <2>2, <3>1, <3>2 DEF Tells
    <3>3. CASE i \notin DOMAIN t.writes
      <4>1. item \in Pairs /\ i \in Pairs
          BY <1>2, <1>3, <2>2, EditIs, SiblingsMutual DEF SafeTx, EditOK
      <4>2. item \in DOMAIN t.writes /\ Marked(t.writes, item)
          BY <1>2, <1>3, <2>2 DEF Tells
      <4>3. ~Marked(Over(t.writes, row), i)
          BY <1>3, <2>2, <4>1, <4>2 DEF SafeTx, Chosen
      <4>4. row'[i] = row[i] /\ row[i] \in Link
          BY <1>4, <2>2, <3>3, <4>1, RowIs
      <4>5. row[i].selected = FALSE
          BY <1>3, <2>2, <4>3, <4>4, LinkIs DEF Marked
      <4>6. [row[i] EXCEPT !.selected = FALSE] = row[i]
          BY <4>4, <4>5 DEF Link
      <4> QED
          BY <3>1, <4>4, <4>6
    <3> QED
        BY <3>2, <3>3
  <2>3. CASE i # item /\ ~(t.edit.kind = "select" /\ i \in Siblings(item) /\ row[i] # NoLink)
    <3>1. told'[i] = row[i]
        BY <1>5, <2>3
    <3>2. i \notin DOMAIN t.writes
        BY <1>2, <1>3, <2>3 DEF SafeTx, Touches, Tells
    <3> QED
        BY <1>4, <3>1, <3>2
  <2> QED
      BY <2>1, <2>2, <2>3
<1>7. told' = [i \in Items |-> told'[i]]
    BY <1>5
<1>8. row' = [i \in Items |-> row'[i]]
    BY <1>3, <1>4 DEF Over
<1> QED
    BY <1>6, <1>7, <1>8

LEMMA Commits ==
    ASSUME IInv, NEW e \in Editors, Commit(e)
    PROVE  IInv'
<1>1. /\ tx[e].phase = "written" /\ Open(e) /\ tx' = Released(e, TRUE)
      /\ row' = Over(tx[e].writes, row) /\ legacy' = Over(tx[e].legacy, legacy)
      /\ crossed' = (crossed \/ tx[e].late)
    BY DEF Commit, Open
<1>2. RowsOK(row') /\ DOMAIN legacy' = Keys
    BY <1>1, CommittedRows, OverIs DEF IInv
<1>0. PICK c \in BOOLEAN : c = TRUE
    OBVIOUS
<1>6. tx' = Released(e, c)
    BY <1>0, <1>1
<1>3. /\ DOMAIN tx' = Editors /\ tx'[e].phase = "idle"
      /\ \A d \in Editors \ {e} : ~Open(d) => tx'[d].phase = "idle"
      /\ \A d, f \in Editors : d # f => Apart(Writes(tx'[d]), Writes(tx'[f]))
    BY <1>6, ReleasedIs, ReleasedApart DEF Idle, Open
<1>4. ASSUME NEW d \in Editors, tx'[d].phase # "idle"
      PROVE  SafeTx(tx'[d], row') /\ FitsTx(tx'[d], row', legacy')
  <2>1. d # e /\ Open(d)
      BY <1>3, <1>4
  <2> QED
      BY <1>1, <2>1, CommittedOthers
<1>5. ASSUME ~crossed' PROVE ProjectionOf(row', legacy') /\ told' = row'
  <2>1. ~crossed /\ ~tx[e].late
      BY <1>1, <1>5
  <2>2. ProjectionOf(row', legacy')
      BY <1>1, <2>1 DEF IInv, FitsTx, Fits
  <2> QED
      BY <2>1, <2>2, CommitTells
<1> QED
    BY <1>2, <1>3, <1>4, <1>5 DEF IInv, Open

-----------------------------------------------------------------------------
\* The rows that the migration leaves, and the specification.

LEMMA Starts == Init => IInv
<1> SUFFICES ASSUME Init PROVE IInv
    OBVIOUS
<1>1. PICK links \in Backfilled :
          row = [i \in Items |-> IF i \in Pairs THEN links[i] ELSE [resource |-> NoResource]]
    BY DEF Init
<1>2. /\ tx = [e \in Editors |-> Idle] /\ told = row
      /\ legacy = [k \in Keys |-> IF k \in DOMAIN Projection(Committed)
                                  THEN Projection(Committed)[k] ELSE NoRow]
    BY DEF Init
<1>3. \A e \in Editors : tx[e].phase = "idle"
    BY <1>2 DEF Idle
<1>4. /\ DOMAIN row = Items
      /\ \A p \in Pairs : row[p] = links[p]
      /\ \A i \in Own : row[i] = [resource |-> NoResource]
    BY <1>1, ItemsApart
<1>5. /\ links \in [Pairs -> Link \cup {NoLink}]
      /\ \A p \in Pairs : links[p] # NoLink =>
            Provided(p) /\ (links[p].selected => links[p].enabled)
      /\ \A p \in Pairs : \A q \in Siblings(p) :
            ~(links[p] # NoLink /\ links[p].selected /\ links[q] # NoLink /\ links[q].selected)
      /\ ~Divergent(Composed(links))
    BY BackfillAssumption
<1>6. RowsOK(row)
  <2>1. ASSUME NEW p \in Pairs PROVE LinkOK(p, row[p])
      BY <1>4, <1>5 DEF LinkOK
  <2>2. ASSUME NEW i \in Own PROVE ResourceOK(i[1], row[i])
      BY <1>4 DEF ResourceOK, Binding
  <2>3. \A i \in Items : RowOK(i, row[i])
      BY <2>1, <2>2 DEF RowOK
  <2>4. \A p \in Pairs : \A q \in Siblings(p) : ~(Marked(row, p) /\ Marked(row, q))
      BY <1>4, <1>5, SiblingsMutual DEF Marked
  <2> QED
      BY <1>4, <2>3, <2>4 DEF RowsOK
<1>7. Composed(row) = Composed(links)
  <2>1. {q \in Pairs : row[q] # NoLink} = {q \in Pairs : links[q] # NoLink}
      BY <1>4
  <2> QED
      BY <1>4, <2>1 DEF Composed
<1>8. ProjectionOf(row, legacy)
  <2>1. \A k \in Keys : legacy[k] = IF k \in DOMAIN Projection(Composed(row))
                                    THEN Projection(Composed(row))[k] ELSE NoRow
      BY <1>2 DEF Committed
  <2> QED
      BY <1>5, <1>7, <2>1 DEF ProjectionOf
<1>9. \A e, d \in Editors : e # d => Apart(Writes(tx[e]), Writes(tx[d]))
  <2>1. \A e \in Editors : DOMAIN Writes(tx[e]) = {}
      BY <1>3 DEF Writes
  <2> QED
      BY <2>1, NothingWritten
<1> QED
    BY <1>2, <1>3, <1>6, <1>8, <1>9 DEF IInv, Open

LEMMA Stays ==
    ASSUME IInv, UNCHANGED <<database, tx, crossed>>
    PROVE  IInv'
BY DEF IInv, database, Open

\* A step test writes neither links nor audit events.
LEMMA TestMoves ==
    ASSUME NEW t \in Testers, TestLink(t) \/ TestStep(t) \/ TestCrash(t)
    PROVE  UNCHANGED <<database, tx, crossed>>
<1>1. CASE TestLink(t) \/ TestCrash(t)
    BY <1>1 DEF TestLink, TestCrash, Tested
<1>2. CASE TestStep(t)
    BY <1>2 DEF TestStep, TestBinding, TestRefused, TestRecord, TestCommit, Tested
<1> QED
    BY <1>1, <1>2

LEMMA Steps == IInv /\ [Next]_vars => IInv'
<1> SUFFICES ASSUME IInv, [Next]_vars PROVE IInv'
    OBVIOUS
<1>1. ASSUME NEW e \in Editors, Begin(e) PROVE IInv'
    BY <1>1, Begins
<1>2. ASSUME NEW e \in Editors, Query(e) PROVE IInv'
    BY <1>2, Queries
<1>3. ASSUME NEW e \in Editors, Flush(e) PROVE IInv'
    BY <1>3, FlushAdds, FlushRemoves, FlushUpdates, FlushSelects DEF Flush
<1>4. ASSUME NEW e \in Editors, ProjectRead(e) PROVE IInv'
    BY <1>4, ProjectReads
<1>5. ASSUME NEW e \in Editors, ProjectBlock(e) PROVE IInv'
    BY <1>5, ProjectBlocks
<1>6. ASSUME NEW e \in Editors, ProjectWrite(e) PROVE IInv'
    BY <1>6, ProjectWrites
<1>7. ASSUME NEW e \in Editors, Commit(e) PROVE IInv'
    BY <1>7, Commits
<1>8. ASSUME NEW e \in Editors, Rollback(e) \/ Abort(e) PROVE IInv'
  <2>1. tx' = Released(e, FALSE) /\ UNCHANGED <<database, crossed>>
      BY ONLY <1>8, Zenon DEF Rollback, Abort
  <2> QED
      BY <2>1, GivesUp, Zenon
<1>9. ASSUME Activate \/ Rest \/ UNCHANGED vars PROVE IInv'
  <2>1. UNCHANGED <<database, tx, crossed>>
      BY <1>9 DEF Activate, Rest, vars
  <2> QED
      BY <2>1, Stays
<1>10. ASSUME NEW t \in Testers, TestLink(t) \/ TestStep(t) \/ TestCrash(t) PROVE IInv'
  <2>1. UNCHANGED <<database, tx, crossed>>
      BY ONLY <1>10, TestMoves
  <2> QED
      BY <2>1, Stays
<1> QED
    BY <1>1, <1>2, <1>3, <1>4, <1>5, <1>6, <1>7, <1>8, <1>9, <1>10 DEF Next, Step

\* Whatever the editors do at once: the rows keep the constraints, no two
\* transactions hold a row or select a link of the same node, and a transaction
\* that no commit has overtaken has read what is stored, tells what it writes
\* and projects what it leaves.
THEOREM Invariance == Spec => []IInv
<1>1. Init => IInv
    BY Starts
<1>2. IInv /\ [Next]_vars => IInv'
    BY Steps
<1> QED
    BY <1>1, <1>2, PTL DEF Spec

-----------------------------------------------------------------------------
\* What validation meets.

LEMMA OneSelected ==
    ASSUME IInv, NEW n \in Nodes
    PROVE  ~(Cardinality(Selected(n)) > 1)
<1>1. CASE Selected(n) = {}
    BY <1>1, FS_EmptySet
<1>2. CASE Selected(n) # {}
  <2>1. PICK p : p \in Selected(n)
      BY <1>2
  <2>2. ASSUME NEW q \in Selected(n) PROVE q = p
    <3>1. /\ p \in Pairs /\ q \in Pairs /\ p[2] = n /\ q[2] = n
          /\ Marked(row, p) /\ Marked(row, q)
        BY <2>1 DEF Selected, Links, Marked
    <3>2. q # p => q \in Siblings(p)
        BY <3>1 DEF Siblings
    <3> QED
        BY <3>1, <3>2 DEF IInv, RowsOK
  <2>3. \A q : q \in Selected(n) <=> q = p
      BY <2>1, <2>2
  <2>4. Selected(n) = {p}
      BY ONLY <2>3
  <2>5. Cardinality({p}) = 1
      BY FS_Singleton
  <2> QED
      BY <2>4, <2>5
<1> QED
    BY <1>1, <1>2

LEMMA StructureKept == IInv => StaysValid
<1> SUFFICES ASSUME IInv PROVE StaysValid
    OBVIOUS
<1>1. RowsOK(row)
    BY DEF IInv
<1>2. \A p \in Links : Provided(p) /\ (row[p].selected => row[p].enabled)
    BY <1>1, RowIs, ItemsApart DEF Links
<1>3. ASSUME NEW b \in Bindings PROVE Resource(b) \in Accepts[b] \cup {NoResource}
  <2>1. PICK i : i = <<b, NoNode>>
      OBVIOUS
  <2>2. i \in Own /\ i \in Items /\ i[1] = b
      BY <2>1 DEF Own, Items
  <2> QED
      BY <1>1, <2>1, <2>2, RowIs DEF Resource
<1>4. \A n \in Nodes : ~(Cardinality(Selected(n)) > 1)
    BY OneSelected
<1>5. ASSUME ~crossed PROVE IsCoherent
    BY <1>5 DEF IInv, ProjectionOf, IsCoherent, Committed
<1>6. StructureErrors \subseteq {"node_disabled", "projection"}
    BY <1>2, <1>3, <1>4 DEF StructureErrors
<1>7. ~crossed => "projection" \notin StructureErrors
    BY <1>5 DEF StructureErrors
<1>8. StructureErrors \subseteq {"node_disabled"} \cup IF crossed THEN {"projection"} ELSE {}
    BY <1>6, <1>7
<1> QED
    BY <1>8 DEF StaysValid

\* Validation finds the structure of a committed composition valid, but for
\* nodes of the template that are disabled and for a projection that a commit
\* crossed: StaysValid.
THEOREM StructureValid == Spec => []StaysValid
<1>1. IInv => StaysValid
    BY StructureKept
<1> QED
    BY <1>1, Invariance, PTL

\* Replaying the audit events gives the committed composition, unless a commit
\* crossed another one: AuditExplains.
THEOREM TrailExplains == Spec => []AuditExplains
<1>1. IInv => AuditExplains
    BY DEF IInv, AuditExplains
<1> QED
    BY <1>1, Invariance, PTL

-----------------------------------------------------------------------------
\* Step tests.

StepOK(s) ==
    /\ s.link \in Pairs /\ s.link[2] \in EnabledNodes
    /\ Provided(s.link) /\ Key(s.link)[2] \in Testable
    /\ s.resource \in (Accepts[s.link[1]] \cup {NoResource}) \ UnavailableResources

\* The link is there, and nobody is removing it.
Held(p) == row[p] # NoLink /\ ~Removing(p)

TestOK(j) ==
    \/ j = Idle \/ j = Ended
    \/ j = [phase |-> "selected", link |-> j.link]
       /\ j.link \in Pairs /\ j.link[2] \in EnabledNodes
    \/ /\ j = [phase |-> j.phase, link |-> j.link, resource |-> j.resource]
       /\ j.phase \in {"bound", "recorded"} /\ StepOK(j)
       /\ j.phase = "recorded" => Held(j.link)

\* What a step test has read still holds of the link it records, and a recorded
\* link is locked against removal before and after the commit of the step.
TInv ==
    /\ DOMAIN test = Testers /\ \A t \in Testers : TestOK(test[t])
    /\ \A s \in steps : StepOK(s) /\ Held(s.link)

\* A link that is there and that nobody removes stays.
LEMMA LinksStay ==
    ASSUME IInv, [Next]_vars, NEW p \in Pairs, Held(p)
    PROVE  row'[p] # NoLink
<1>1. CASE \E e \in Editors : Commit(e)
  <2>1. PICK e \in Editors : Commit(e)
      BY <1>1
  <2>2. row' = Over(tx[e].writes, row) /\ Open(e) /\ p \in DOMAIN row
      BY <2>1, ItemsApart DEF Commit, Open, IInv, RowsOK
  <2>3. row'[p] = IF p \in DOMAIN tx[e].writes THEN tx[e].writes[p] ELSE row[p]
      BY <2>2, OverIs
  <2> QED
      BY <2>2, <2>3 DEF Held, Removing
<1>2. CASE ~ \E e \in Editors : Commit(e)
  <2>1. UNCHANGED row
    <3>1. ASSUME NEW e \in Editors, Begin(e) \/ ProjectBlock(e) \/ Abort(e) PROVE UNCHANGED row
        BY <3>1 DEF Begin, ProjectBlock, Abort, database
    <3>2. ASSUME NEW e \in Editors, Query(e) \/ ProjectRead(e) \/ ProjectWrite(e) \/ Rollback(e)
          PROVE  UNCHANGED row
        BY <3>2 DEF Query, ProjectRead, ProjectWrite, Rollback, database
    <3>3. ASSUME NEW e \in Editors, Flush(e) PROVE UNCHANGED row
        BY <3>3 DEF Flush, FlushAdd, FlushRemove, FlushUpdate, FlushSelect, database
    <3>4. ASSUME NEW t \in Testers, TestLink(t) \/ TestStep(t) \/ TestCrash(t)
          PROVE  UNCHANGED row
        BY <3>4, TestMoves DEF database
    <3>5. ASSUME Activate \/ Rest \/ UNCHANGED vars PROVE UNCHANGED row
        BY <3>5 DEF Activate, Rest, vars, database
    <3> QED
        BY <1>2, <3>1, <3>2, <3>3, <3>4, <3>5 DEF Next, Step
  <2> QED
      BY <2>1 DEF Held
<1> QED
    BY <1>1, <1>2

\* Who moves one transaction without writing a removal begins none.
LEMMA MoveRemoves ==
    ASSUME IInv, IInv', NEW e \in Editors, NEW t, Advance(e, t),
           NEW p \in Pairs, ~Removing(p),
           t.phase # "idle" => \/ t.edit.kind # "remove"
                               \/ Open(e) /\ t.writes = tx[e].writes
                               \/ p \notin DOMAIN t.writes
    PROVE  ~Removing(p)'
<1> SUFFICES ASSUME NEW d \in Editors, tx'[d].phase # "idle",
                    p \in DOMAIN tx'[d].writes, tx'[d].writes[p] = NoLink
             PROVE  FALSE
    BY DEF Removing, Open
<1>1. tx'[e] = t /\ \A f \in Editors \ {e} : tx'[f] = tx[f]
    BY DEF Advance, IInv
<1>2. CASE d # e
    BY <1>1, <1>2 DEF Removing, Open
<1>3. CASE d = e
  <2>1. SafeTx(t, row')
      BY <1>1, <1>3 DEF IInv, Open
  <2>2. CASE t.edit.kind # "remove"
      BY <1>1, <1>3, <2>1, <2>2 DEF SafeTx, Touches
  <2>3. CASE Open(e) /\ t.writes = tx[e].writes
      BY <1>1, <1>3, <2>3 DEF Removing
  <2> QED
      BY <1>1, <1>3, <2>2, <2>3
<1> QED
    BY <1>2, <1>3

\* A transaction that fails keeps what it has written.
LEMMA FailRemoves ==
    ASSUME IInv, IInv', NEW e \in Editors, Open(e), Fail(e), NEW p \in Pairs, ~Removing(p)
    PROVE  ~Removing(p)'
<1>1. PICK t : t = [tx[e] EXCEPT !.phase = "failed", !.view = <<>>, !.after = NoLink,
                                 !.found = {}, !.desired = <<>>, !.late = FALSE]
    OBVIOUS
<1>2. Advance(e, t) /\ t.writes = tx[e].writes
    BY <1>1 DEF Fail, IInv, SafeTx, Shape
<1> QED
    BY <1>2, MoveRemoves

LEMMA EndRemoves ==
    ASSUME IInv, NEW e \in Editors, NEW c \in BOOLEAN, tx' = Released(e, c),
           NEW p \in Pairs, ~Removing(p)
    PROVE  ~Removing(p)'
<1> SUFFICES ASSUME NEW d \in Editors, tx'[d].phase # "idle",
                    p \in DOMAIN tx'[d].writes, tx'[d].writes[p] = NoLink
             PROVE  FALSE
    BY DEF Removing, Open
<1>1. d # e /\ Open(d)
    BY ReleasedIs DEF Idle, Open
<1>2. tx'[d].writes = tx[d].writes
    BY <1>1, ReleasedIs DEF Woken
<1> QED
    BY <1>1, <1>2 DEF Removing

\* The link of a step is not removed: a committed one refuses the removal, and
\* one that is not committed yet makes it wait.
LEMMA LocksHold ==
    ASSUME IInv, IInv', [Next]_vars, NEW p \in Pairs, Held(p), Referenced(p) \/ Recording(p)
    PROVE  ~Removing(p)'
<1>0. row[p] # NoLink /\ ~Removing(p)
    BY DEF Held
<1>1. ASSUME NEW e \in Editors, Begin(e) PROVE ~Removing(p)'
  <2>1. PICK t : Advance(e, t) /\ t.writes = <<>>
      BY <1>1 DEF Begin
  <2> QED
      BY <1>0, <2>1, MoveRemoves
<1>2. ASSUME NEW e \in Editors, Query(e) \/ ProjectRead(e) \/ ProjectBlock(e) \/ ProjectWrite(e)
      PROVE  ~Removing(p)'
  <2>1. Open(e) /\ Shape(tx[e])
      BY <1>2 DEF Query, ProjectRead, ProjectBlock, ProjectWrite, Open, IInv, SafeTx
  <2>2. Fail(e) \/ \E t : Advance(e, t) /\ t.writes = tx[e].writes
    <3>1. CASE Query(e)
      <4>1. PICK candidates, view :
                Advance(e, [tx[e] EXCEPT !.phase = "queried", !.found = candidates, !.view = view])
          BY <3>1 DEF Query
      <4>2. PICK t : t = [tx[e] EXCEPT !.phase = "queried", !.found = candidates, !.view = view]
          OBVIOUS
      <4>3. Advance(e, t)
          BY <4>1, <4>2
      <4>4. t.writes = tx[e].writes
          BY <2>1, <4>2 DEF Shape
      <4> QED
          BY <4>3, <4>4
    <3>2. CASE ProjectRead(e) /\ ~Fail(e)
      <4>1. PICK found, desired :
                Advance(e, [tx[e] EXCEPT !.phase = "projected", !.view = <<>>, !.found = found,
                                         !.desired = desired])
          BY <3>2 DEF ProjectRead
      <4>2. PICK t : t = [tx[e] EXCEPT !.phase = "projected", !.view = <<>>, !.found = found,
                                       !.desired = desired]
          OBVIOUS
      <4>3. Advance(e, t)
          BY <4>1, <4>2
      <4>4. t.writes = tx[e].writes
          BY <2>1, <4>2 DEF Shape
      <4> QED
          BY <4>3, <4>4
    <3>3. CASE ProjectBlock(e)
      <4>1. PICK k : Advance(e, [tx[e] EXCEPT !.phase = "blocked", !.on = k])
          BY <3>3 DEF ProjectBlock
      <4>2. PICK t : t = [tx[e] EXCEPT !.phase = "blocked", !.on = k]
          OBVIOUS
      <4>3. Advance(e, t)
          BY <4>1, <4>2
      <4>4. t.writes = tx[e].writes
          BY <2>1, <4>2 DEF Shape
      <4> QED
          BY <4>3, <4>4
    <3>4. CASE ProjectWrite(e) /\ ~Fail(e)
      <4>1. PICK table :
                Advance(e, [tx[e] EXCEPT !.phase = "written", !.found = {}, !.desired = <<>>,
                                         !.legacy = table])
          BY <3>4 DEF ProjectWrite
      <4>2. PICK t : t = [tx[e] EXCEPT !.phase = "written", !.found = {}, !.desired = <<>>,
                                       !.legacy = table]
          OBVIOUS
      <4>3. Advance(e, t)
          BY <4>1, <4>2
      <4>4. t.writes = tx[e].writes
          BY <2>1, <4>2 DEF Shape
      <4> QED
          BY <4>3, <4>4
    <3> QED
        BY <1>2, <3>1, <3>2, <3>3, <3>4
  <2> QED
      BY <1>0, <2>1, <2>2, MoveRemoves, FailRemoves
<1>3. ASSUME NEW e \in Editors, FlushAdd(e) \/ FlushUpdate(e) \/ FlushSelect(e)
      PROVE  ~Removing(p)'
  <2>1. Open(e) /\ Shape(tx[e]) /\ tx[e].edit.kind # "remove"
      BY <1>3 DEF FlushAdd, FlushUpdate, FlushSelect, Open, IInv, SafeTx
  <2>2. Fail(e) \/ \E t : Advance(e, t) /\ t.edit = tx[e].edit
    <3>1. ASSUME ~Fail(e)
          PROVE  \E after, view, writes : Advance(e, FlushOf(tx[e], after, view, writes))
        BY <1>3, <3>1 DEF FlushAdd, FlushUpdate, FlushSelect, FlushOf
    <3>2. ASSUME ~Fail(e) PROVE \E t : Advance(e, t) /\ t.edit = tx[e].edit
      <4>1. PICK after, view, writes : Advance(e, FlushOf(tx[e], after, view, writes))
          BY <3>1, <3>2
      <4>2. PICK t : t = FlushOf(tx[e], after, view, writes)
          OBVIOUS
      <4> QED
          BY <2>1, <4>1, <4>2, Flushed
    <3> QED
        BY <3>2
  <2> QED
      BY <1>0, <2>1, <2>2, MoveRemoves, FailRemoves
<1>4. ASSUME NEW e \in Editors, FlushRemove(e) PROVE ~Removing(p)'
  <2>1. PICK q : q = tx[e].edit.item
      OBVIOUS
  <2>2. Open(e) /\ Shape(tx[e])
      BY <1>4 DEF FlushRemove, Open, IInv, SafeTx
  <2>3. CASE q = p
    <3>1. Fail(e)
        BY <1>0, <1>4, <2>1, <2>3 DEF FlushRemove
    <3> QED
        BY <1>0, <2>2, <3>1, FailRemoves
  <2>4. CASE q # p
    <3>1. Fail(e) \/ \E t : Advance(e, t) /\ p \notin DOMAIN t.writes
      <4>1. PICK writes : writes = IF row[q] = NoLink THEN <<>> ELSE [i \in {q} |-> NoLink]
          OBVIOUS
      <4>2. PICK t : t = [tx[e] EXCEPT !.phase = "flushed", !.view = <<>>, !.writes = writes]
          OBVIOUS
      <4>3. Fail(e) \/ Advance(e, t)
          BY <1>4, <2>1, <4>1, <4>2 DEF FlushRemove
      <4>4. t.writes = writes /\ p \notin DOMAIN writes
          BY <2>2, <2>4, <4>1, <4>2 DEF Shape
      <4> QED
          BY <4>3, <4>4
    <3> QED
        BY <1>0, <2>2, <3>1, MoveRemoves, FailRemoves
  <2> QED
      BY <2>3, <2>4
<1>5. ASSUME NEW e \in Editors, Commit(e) \/ Rollback(e) \/ Abort(e) PROVE ~Removing(p)'
  <2>1. PICK c \in BOOLEAN : tx' = Released(e, c)
      BY <1>5 DEF Commit, Rollback, Abort
  <2> QED
      BY <1>0, <2>1, EndRemoves
<1>6. ASSUME tx' = tx PROVE ~Removing(p)'
    BY <1>0, <1>6 DEF Removing, Open
<1>7. ASSUME NEW t \in Testers, TestLink(t) \/ TestStep(t) \/ TestCrash(t) PROVE tx' = tx
    BY <1>7, TestMoves
<1>8. ASSUME Activate \/ Rest \/ UNCHANGED vars PROVE tx' = tx
    BY <1>8 DEF Activate, Rest, vars
<1> QED
    BY <1>1, <1>2, <1>3, <1>4, <1>5, <1>6, <1>7, <1>8 DEF Next, Step, Flush

\* What a step test meets from one statement to the next.
LEMMA TestMeets ==
    ASSUME IInv, TInv, NEW t \in Testers, TestLink(t) \/ TestStep(t) \/ TestCrash(t)
    PROVE  /\ DOMAIN test' = Testers
           /\ \A u \in Testers \ {t} : test'[u] = test[u]
           /\ TestOK(test'[t])
           /\ \A s \in steps' \ steps : StepOK(s) /\ Held(s.link) /\ Recording(s.link)
<1>1. CASE TestLink(t)
  <2>1. PICK p \in Pairs : /\ p[2] \in EnabledNodes
                           /\ Tested(t, [phase |-> "selected", link |-> p])
      BY <1>1 DEF TestLink, Selected, Links
  <2> QED
      BY <2>1 DEF Tested, TInv, TestOK
<1>2. CASE TestBinding(t)
  <2>1. PICK p : p = test[t].link
      OBVIOUS
  <2>2. PICK j : j = [phase |-> "bound", link |-> p, resource |-> Resource(p[1])]
      OBVIOUS
  <2>3. /\ test[t].phase = "selected" /\ Tested(t, j)
        /\ Provided(p) /\ CapabilityOf[p[2]] \in Testable
        /\ Resource(p[1]) \notin UnavailableResources
      BY <1>2, <2>1, <2>2 DEF TestBinding
  <2>4. p \in Pairs /\ p[2] \in EnabledNodes
      BY <2>1, <2>3 DEF TInv, TestOK, Idle, Ended
  <2>5. Resource(p[1]) \in Accepts[p[1]] \cup {NoResource}
    <3>1. PICK i : i = <<p[1], NoNode>>
        OBVIOUS
    <3>2. i \in Own /\ i \in Items /\ i[1] = p[1]
        BY <2>4, <3>1, ItemsApart DEF Own, Items
    <3> QED
        BY <3>1, <3>2, RowIs DEF Resource, IInv
  <2>6. StepOK(j)
      BY <2>2, <2>3, <2>4, <2>5 DEF StepOK, Key
  <2>7. TestOK(j)
      BY <2>2, <2>6 DEF TestOK
  <2> QED
      BY <2>3, <2>7 DEF Tested, TInv
<1>3. CASE TestRefused(t) \/ TestCrash(t)
    BY <1>3 DEF TestRefused, TestCrash, Tested, TInv, TestOK
<1>4. CASE TestRecord(t)
  <2>1. PICK p : p = test[t].link
      OBVIOUS
  <2>2. /\ test[t].phase = "bound" /\ ~Removing(p)
        /\ Tested(t, IF row[p] = NoLink THEN Ended ELSE [test[t] EXCEPT !.phase = "recorded"])
      BY <1>4, <2>1 DEF TestRecord
  <2>3. test[t] = [phase |-> "bound", link |-> p, resource |-> test[t].resource]
        /\ StepOK(test[t])
      BY <2>1, <2>2 DEF TInv, TestOK, Idle, Ended
  <2>4. CASE row[p] = NoLink
      BY <2>2, <2>4 DEF Tested, TInv, TestOK
  <2>5. CASE row[p] # NoLink
    <3>1. PICK j : j = [test[t] EXCEPT !.phase = "recorded"]
        OBVIOUS
    <3>2. j = [phase |-> "recorded", link |-> p, resource |-> test[t].resource]
        BY <2>3, <3>1
    <3>3. StepOK(j) /\ Held(j.link)
        BY <2>1, <2>2, <2>3, <2>5, <3>2 DEF StepOK, Held
    <3>4. TestOK(j)
        BY <3>2, <3>3 DEF TestOK
    <3> QED
        BY <2>2, <2>5, <3>1, <3>4 DEF Tested, TInv
  <2> QED
      BY <2>4, <2>5
<1>5. CASE TestCommit(t)
  <2>1. /\ test[t].phase = "recorded" /\ test' = [test EXCEPT ![t] = Ended]
        /\ steps' = steps \cup {[link |-> test[t].link, resource |-> test[t].resource]}
      BY <1>5 DEF TestCommit
  <2>2. StepOK(test[t]) /\ Held(test[t].link) /\ Recording(test[t].link)
      BY <2>1 DEF TInv, TestOK, Idle, Ended, Recording
  <2>3. \A s \in steps' \ steps : StepOK(s) /\ Held(s.link) /\ Recording(s.link)
      BY <2>1, <2>2 DEF StepOK
  <2> QED
      BY <2>1, <2>3 DEF TInv, TestOK
<1> QED
    BY <1>1, <1>2, <1>3, <1>4, <1>5 DEF TestStep

LEMMA TestsKept == IInv /\ IInv' /\ TInv /\ [Next]_vars => TInv'
<1> SUFFICES ASSUME IInv, IInv', TInv, [Next]_vars PROVE TInv'
    OBVIOUS
<1>1. ASSUME NEW p \in Pairs, Held(p), Referenced(p) \/ Recording(p) PROVE Held(p)'
    BY <1>1, LinksStay, LocksHold DEF Held
<1>2. ASSUME NEW s \in steps PROVE StepOK(s) /\ Held(s.link)'
    BY <1>1, <1>2 DEF TInv, Referenced, StepOK
<1>3. ASSUME NEW j, TestOK(j), j.phase = "recorded" => Recording(j.link) PROVE TestOK(j)'
    BY <1>1, <1>3 DEF TestOK, StepOK
<1>4. ASSUME NEW t \in Testers, TestLink(t) \/ TestStep(t) \/ TestCrash(t) PROVE TInv'
  <2>1. /\ DOMAIN test' = Testers
        /\ \A u \in Testers \ {t} : test'[u] = test[u]
        /\ TestOK(test'[t])
        /\ \A s \in steps' \ steps : StepOK(s) /\ Held(s.link) /\ Recording(s.link)
      BY <1>4, TestMeets
  <2>2. UNCHANGED <<row, tx>>
      BY <1>4, TestMoves DEF database
  <2>3. \A p : Held(p)' <=> Held(p)
      BY <2>2 DEF Held, Removing, Open
  <2>4. \A j : TestOK(j)' <=> TestOK(j)
      BY <2>3 DEF TestOK
  <2>5. \A u \in Testers : TestOK(test'[u])
      BY <2>1 DEF TInv
  <2>6. \A s \in steps' : StepOK(s) /\ Held(s.link)
      BY <2>1 DEF TInv
  <2> QED
      BY <2>1, <2>3, <2>4, <2>5, <2>6 DEF TInv
<1>5. ASSUME UNCHANGED testing PROVE TInv'
  <2>1. test' = test /\ steps' = steps
      BY <1>5 DEF testing
  <2>2. ASSUME NEW t \in Testers PROVE TestOK(test[t])'
    <3>1. TestOK(test[t]) /\ (test[t].phase = "recorded" => Recording(test[t].link))
        BY DEF TInv, Recording
    <3>2. PICK j : j = test[t]
        OBVIOUS
    <3>3. TestOK(j)'
        BY <1>3, <3>1, <3>2
    <3> QED
        BY <2>1, <3>2, <3>3
  <2> QED
      BY <1>2, <2>1, <2>2 DEF TInv
<1>6. ASSUME NEW e \in Editors, Begin(e) \/ ProjectBlock(e) \/ Abort(e) \/ Step(e)
      PROVE  UNCHANGED testing
  <2>1. CASE Begin(e) \/ ProjectBlock(e) \/ Abort(e)
      BY <2>1 DEF Begin, ProjectBlock, Abort
  <2>2. CASE Query(e) \/ ProjectRead(e) \/ ProjectWrite(e) \/ Commit(e) \/ Rollback(e)
      BY <2>2 DEF Query, ProjectRead, ProjectWrite, Commit, Rollback
  <2>3. CASE Flush(e)
      BY <2>3 DEF Flush, FlushAdd, FlushRemove, FlushUpdate, FlushSelect
  <2> QED
      BY <1>6, <2>1, <2>2, <2>3 DEF Step
<1>7. ASSUME Activate \/ Rest \/ UNCHANGED vars PROVE UNCHANGED testing
    BY <1>7 DEF Activate, Rest, vars
<1> QED
    BY <1>4, <1>5, <1>6, <1>7 DEF Next

\* Every recorded step can be traced to a link that is still there, on a node
\* that could be tested, with a resource that its component takes, whatever the
\* editors changed between the statements of its test: StepsTraceable.
THEOREM TraceableSteps == Spec => []StepsTraceable
<1>1. Init => IInv /\ TInv
    BY Starts DEF Init, TInv, TestOK
<1>2. IInv /\ TInv /\ [Next]_vars => IInv' /\ TInv'
    BY Steps, TestsKept
<1>3. TInv => StepsTraceable
    BY DEF TInv, StepOK, Held, StepsTraceable
<1> QED
    BY <1>1, <1>2, <1>3, PTL DEF Spec

=============================================================================
