--------------------------- MODULE DoclingCorpora ---------------------------
(***************************************************************************)
(* What the retrieval experiments make of a Docling document               *)
(* (documents/docling_adapter.py, experiments/docling_retrieval.py): the   *)
(* blocks in reading order, and from them four corpora of retrieval units: *)
(* one per block (V1), merged on a page (V2), the children of a native     *)
(* group together (V3), and V3 with small local groups besides (V4).       *)
(*                                                                         *)
(* A document is a sequence of items, an item is named by its place in it. *)
(* A text is its length; it has no blanks, so that split_long_text cuts it *)
(* at the limit, and the titles of two sections differ.                    *)
(***************************************************************************)
EXTENDS Integers, Sequences, FiniteSets, SequencesExt

CONSTANTS
    MaxChars,                       \* DEFAULT_MAX_CHARS
    TargetChars, StructuralMaxChars,
    MaxCompositeChars, MaxIntroChars, MaxGroupBlocks, MinSiblings, MaxSiblings

\* With a limit of 2 a section of 2 characters leaves no room for the text, and
\* split_long_text never ends; the callers use 1000 and 700.
ASSUME LimitsAssumption ==
    /\ MaxChars \in Nat /\ MaxChars > 2
    /\ StructuralMaxChars \in Nat /\ StructuralMaxChars > 2
    /\ TargetChars \in 1 .. StructuralMaxChars
    /\ MaxCompositeChars > 0 /\ MaxIntroChars > 0 /\ MaxGroupBlocks >= 2
    /\ MinSiblings >= 2 /\ MaxSiblings >= MinSiblings

\* References that name no item: "#/body", "#/furniture", and none.
Body == 0
Furniture == -1
NoRef == -2
NoPage == 0

-----------------------------------------------------------------------------
\* document_content_from_docling.

Collection(label) ==
    CASE label \in {"list", "key_value_area", "group"} -> 2
      [] label = "table" -> 3
      [] label = "picture" -> 4
      [] OTHER -> 1
\* The items in the order of the collections of the file.
Registry(doc) ==
    SetToSortSeq(DOMAIN doc, LAMBDA i, j :
        \/ Collection(doc[i].label) < Collection(doc[j].label)
        \/ Collection(doc[i].label) = Collection(doc[j].label) /\ i < j)
Children(doc, ref) == SetToSortSeq({i \in DOMAIN doc : doc[i].parent = ref}, <)

\* Depth first, with the layer each item inherits.
Visit(doc, root, inherited) ==
    LET visit[i \in DOMAIN doc, above \in {"body", "furniture"}] ==
            LET layer == IF doc[i].layer = "none" THEN above ELSE doc[i].layer
            IN  FoldLeft(LAMBDA s, c : s \o visit[c, layer],
                         <<[ref |-> i, layer |-> layer]>>, Children(doc, i))
    IN  FoldLeft(LAMBDA s, c : s \o visit[c, inherited], <<>>, Children(doc, root))
\* The items that the body does not reach come last.
DocumentOrder(doc) ==
    LET visited == Visit(doc, Body, "body") \o Visit(doc, Furniture, "furniture")
        seen == {visited[k].ref : k \in DOMAIN visited}
        rest == SelectSeq(Registry(doc), LAMBDA i : i \notin seen)
    IN  visited \o [k \in DOMAIN rest |-> [ref |-> rest[k], layer |-> doc[rest[k]].layer]]

\* An item without a page is on the page of its first child that has one.
PageNumber(doc) ==
    LET page[i \in DOMAIN doc] ==
            IF doc[i].page # NoPage THEN doc[i].page
            ELSE FoldLeft(LAMBDA p, c : IF p # NoPage THEN p ELSE page[c], NoPage, Children(doc, i))
    IN  page

ExcludedTypes == {"page_header", "page_footer"}
\* load_docling_source_blocks: the block of the k-th item in reading order.
SourceBlock(doc, order, page, k) ==
    LET i == order[k].ref
    IN  [id |-> i, page |-> page[i], type |-> doc[i].label, size |-> doc[i].size,
         layer |-> order[k].layer, order |-> k,
         indexable |-> doc[i].label \notin ExcludedTypes /\ order[k].layer # "furniture",
         parent |-> doc[i].parent, children |-> Children(doc, i)]
\* The blocks; an item without a page is none.
Blocks(doc) ==
    LET order == DocumentOrder(doc)
        page == PageNumber(doc)
    IN  SelectSeq([k \in DOMAIN order |-> SourceBlock(doc, order, page, k)],
                  LAMBDA b : b.page # NoPage)

-----------------------------------------------------------------------------
\* What the four builders share.

Usable(b) ==
    /\ b.indexable
    /\ b.type \notin ExcludedTypes
    /\ b.layer # "furniture"
    /\ b.size > 0
IsHeader(b) == b.type = "section_header"

NoSection == [title |-> 0, size |-> 0]
Section(b) == [title |-> b.id, size |-> b.size]
PrefixOf(section) == IF section = NoSection THEN 0 ELSE section.size + 1

\* The length of the section's title before a text: the title is cut if it
\* leaves no room.
Prefix(section, max) ==
    IF max - PrefixOf(section) > 0 THEN PrefixOf(section)
    ELSE IF max \div 2 = 0 THEN 0 ELSE max \div 2 + 1

\* split_long_text: the lengths of the parts.
SplitLongText(size, max) ==
    [k \in 1 .. (size + max - 1) \div max |-> IF k * max <= size THEN max ELSE size - (k - 1) * max]

Ids(sources) == [k \in DOMAIN sources |-> sources[k].id]
TotalSize(sources) == FoldLeft(LAMBDA n, b : n + b.size, 0, sources)
\* Texts joined with one character between them.
Joined(sources) == TotalSize(sources) + Len(sources) - 1

Unit(type, page, section, sources, size) ==
    [type |-> type, page |-> page, section |-> section, sources |-> Ids(sources),
     size |-> size, composite |-> FALSE]
\* One unit for each part of a text, every one with the section's title.
Fragments(type, page, section, sources, size, max) ==
    LET prefix == Prefix(section, max)
        parts == SplitLongText(size, max - prefix)
    IN  [k \in DOMAIN parts |-> Unit(type, page, section, sources, prefix + parts[k])]

-----------------------------------------------------------------------------
\* build_docling_corpus.
V1(blocks) ==
    LET step(c, b) ==
            IF ~ Usable(b) THEN [c EXCEPT !.excluded = @ + 1]
            ELSE IF IsHeader(b)
            THEN LET parts == SplitLongText(b.size, MaxChars)
                 IN  [c EXCEPT !.section = Section(b), !.units = @ \o
                          [k \in DOMAIN parts |->
                              Unit(b.type, b.page, Section(b), <<b>>, parts[k])]]
            ELSE [c EXCEPT !.units = @ \o
                      Fragments(b.type, b.page, c.section, <<b>>, b.size, MaxChars)]
    IN  FoldLeft(step, [units |-> <<>>, excluded |-> 0, section |-> NoSection], blocks)

\* build_structural_docling_corpus.
MergeableTypes == {"text", "list_item", "key_value_area"}
UnitText(section, sources) == PrefixOf(section) + Joined(sources)
Flush(c) ==
    IF c.pending = <<>> THEN c
    ELSE [c EXCEPT !.pending = <<>>, !.units = Append(@,
              Unit("merged", Head(c.pending).page, c.section, c.pending,
                   UnitText(c.section, c.pending)))]
AddIsolated(c, b) ==
    [c EXCEPT !.units = @ \o
        Fragments("merged", b.page, c.section, <<b>>, b.size, StructuralMaxChars)]
FlushIfFullUnpaged(c, b) ==     \* mutant: the pages are not looked at
    IF c.pending # <<>> /\ UnitText(c.section, Append(c.pending, b)) > StructuralMaxChars
    THEN Flush(c) ELSE c
FlushIfFull(c, b) ==
    IF c.pending # <<>> /\ \/ Head(c.pending).page # b.page
                           \/ UnitText(c.section, Append(c.pending, b)) > StructuralMaxChars
    THEN Flush(c) ELSE c
V2(blocks) ==
    LET merge(c, b) ==
            IF UnitText(c.section, <<b>>) > StructuralMaxChars THEN AddIsolated(c, b)
            ELSE LET d == [c EXCEPT !.pending = Append(@, b)]
                 IN  IF UnitText(d.section, d.pending) >= TargetChars THEN Flush(d) ELSE d
        step(c, b) ==
            IF ~ Usable(b) THEN [Flush(c) EXCEPT !.excluded = @ + 1]
            ELSE IF IsHeader(b) THEN [Flush(c) EXCEPT !.section = Section(b)]
            ELSE IF b.type \notin MergeableTypes THEN AddIsolated(Flush(c), b)
            ELSE merge(FlushIfFull(c, b), b)
    IN  Flush(FoldLeft(step, [units |-> <<>>, excluded |-> 0, section |-> NoSection,
                              pending |-> <<>>], blocks))

\* build_native_docling_corpus.
StructuralTypes == {"key_value_area", "list", "picture"}
ByRef(blocks, ref) == SelectSeq(blocks, LAMBDA b : b.id = ref)
ByParent(blocks, ref) == SelectSeq(blocks, LAMBDA b : b.parent = ref)
\* The children the group names, else the blocks that name the group.
GroupBlocks(blocks, group) ==
    LET named == FlattenSeq([k \in DOMAIN group.children |-> ByRef(blocks, group.children[k])])
    IN  IF named # <<>> THEN named ELSE ByParent(blocks, group.id)
OrderedChildren(blocks, group) == SelectSeq(GroupBlocks(blocks, group), Usable)
IsGroup(b) == b.type \in StructuralTypes
Consumed(blocks) ==
    UNION {ToSet(Ids(OrderedChildren(blocks, blocks[k]))) : k \in {j \in DOMAIN blocks : IsGroup(blocks[j])}}
V3(blocks) ==
    LET consumed == Consumed(blocks)
        exclude(c, b) == [c EXCEPT !.excluded = @ \cup {b.id}]
        step(c, b) ==
            LET sources == OrderedChildren(blocks, b)
            IN  IF b.id \in consumed THEN c
                ELSE IF ~ Usable(b) /\ ~ IsGroup(b) THEN exclude(c, b)
                ELSE IF IsHeader(b)
                THEN [c EXCEPT !.section = Section(b),
                               !.units = Append(@, Unit(b.type, b.page, Section(b), <<b>>, b.size))]
                ELSE IF ~ IsGroup(b)
                THEN [c EXCEPT !.units = @ \o
                          Fragments(b.type, b.page, c.section, <<b>>, b.size, MaxChars)]
                ELSE IF sources = <<>> THEN exclude(c, b)
                ELSE [c EXCEPT !.units = @ \o
                          Fragments(b.type, b.page, c.section, sources, Joined(sources), MaxChars)]
        built == FoldLeft(step, [units |-> <<>>, excluded |-> {}, section |-> NoSection], blocks)
    IN  [units |-> built.units, excluded |-> Cardinality(built.excluded \cup consumed)]

\* build_local_semantic_docling_corpus: by page, then in reading order.
Before(b, c) == \/ b.page < c.page
                \/ b.page = c.page /\ b.order < c.order
InOrder(blocks) == SortSeq(blocks, Before)
\* The section of each block, which starts anew on every page.
Sections(ordered) ==
    LET step(c, b) ==
            LET above == IF b.page = c.page THEN c.section ELSE NoSection
                now == IF IsHeader(b) /\ Usable(b) THEN Section(b) ELSE above
            IN  [page |-> b.page, section |-> now, of |-> Append(c.of, <<b.id, now>>)]
    IN  FoldLeft(step, [page |-> NoPage, section |-> NoSection, of |-> <<>>], ordered).of
SectionOf(sections, b) == sections[SelectInSeq(sections, LAMBDA s : s[1] = b.id)][2]
CompositeText(sources, section) == PrefixOf(section) + Joined(sources)
\* add_composite.
AddComposite(c, type, sources, section) ==
    IF Ids(sources) \in c.taken \/ CompositeText(sources, section) > MaxCompositeChars THEN c
    ELSE [c EXCEPT !.taken = @ \cup {Ids(sources)},
                   !.units = Append(@, [Unit(type, Head(sources).page, section, sources,
                                             CompositeText(sources, section))
                                        EXCEPT !.composite = TRUE])]

\* Case A: a list or a key-value area with the text before it.
GroupComposite(c, ordered, sections, group) ==
    LET children == InOrder(OrderedChildren(ordered, group))
        content == SelectSeq(ordered, LAMBDA b : Usable(b) /\ ~ IsHeader(b))
        first == SelectInSeq(content, LAMBDA b : children # <<>> /\ b.id = children[1].id)
        intro == content[first - 1]
        section == SectionOf(sections, children[1])
    IN  IF /\ group.type \in {"list", "key_value_area"}
           /\ children # <<>>
           /\ \A k \in DOMAIN children : children[k].page = children[1].page
           /\ Len(children) + 1 <= MaxGroupBlocks
           /\ first > 1
           /\ intro.type = "text" /\ intro.page = children[1].page
           /\ SectionOf(sections, intro) = section
           /\ intro.id \notin ToSet(Ids(children))
           /\ intro.size <= MaxIntroChars
        THEN AddComposite(c, "semantic_group", <<intro>> \o children, section)
        ELSE c

\* Case B: the longest suffix of a run of sibling texts that fits.
FlushSiblings(c, sections) ==
    LET run == c.run
        Suffix(start) == SubSeq(run, start, Len(run))
        Fits(start) ==
            /\ Suffix(start)[1].size <= MaxIntroChars
            /\ CompositeText(Suffix(start), SectionOf(sections, Suffix(start)[1])) <= MaxCompositeChars
        starts == {s \in 1 .. Len(run) : Len(run) - s + 1 \in MinSiblings .. MaxSiblings /\ Fits(s)}
        best == CHOOSE s \in starts : \A t \in starts : s <= t
    IN  [IF starts = {} THEN c
         ELSE AddComposite(c, "siblings", Suffix(best), SectionOf(sections, Suffix(best)[1]))
         EXCEPT !.run = <<>>]
Siblings(c, sections, b) ==
    /\ b.page = Head(c.run).page
    /\ SectionOf(sections, b) = SectionOf(sections, Head(c.run))
    /\ b.parent = Head(c.run).parent
V4(blocks) ==
    LET ordered == InOrder(blocks)
        sections == Sections(ordered)
        pictures == {b.id : b \in {c \in ToSet(ordered) : c.type = "picture"}}
        plain(b) == Usable(b) /\ b.type = "text" /\ b.parent \notin pictures
        native == V3(blocks)
        atomic == [units |-> native.units, taken |-> {}, run |-> <<>>]
        groups == FoldLeft(LAMBDA c, b : GroupComposite(c, ordered, sections, b), atomic, ordered)
        step(c, b) ==
            IF ~ plain(b) THEN FlushSiblings(c, sections)
            ELSE LET d == IF c.run # <<>> /\ ~ Siblings(c, sections, b)
                          THEN FlushSiblings(c, sections) ELSE c
                 IN  [d EXCEPT !.run = Append(@, b)]
    IN  [units |-> FlushSiblings(FoldLeft(step, groups, ordered), sections).units,
         excluded |-> native.excluded]

-----------------------------------------------------------------------------
\* What the corpora hold, said without going through the builders.

\* The header whose section a block is in, among the blocks before it.
ReferenceSection(blocks, k, onPage) ==
    LET headers == {j \in 1 .. k : /\ IsHeader(blocks[j]) /\ Usable(blocks[j])
                                   /\ ~ onPage \/ blocks[j].page = blocks[k].page}
    IN  IF headers = {} THEN NoSection
        ELSE Section(blocks[CHOOSE j \in headers : \A h \in headers : h <= j])
Place(blocks, id) == SelectInSeq(blocks, LAMBDA b : b.id = id)
Logical(units) == {[sources |-> units[k].sources, section |-> units[k].section] : k \in DOMAIN units}

\* V1: each block that is not left out has its units, in its section, and every
\* text fits the limit.
V1Whole(blocks) ==
    LET units == V1(blocks).units
    IN  /\ Logical(units) =
               {[sources |-> <<blocks[k].id>>, section |-> ReferenceSection(blocks, k, FALSE)]
                : k \in {j \in DOMAIN blocks : Usable(blocks[j])}}
        /\ \A u \in ToSet(units) : u.size <= MaxChars

\* V2: the texts come in their order, none twice, and a unit holds texts of one
\* page and one section, within its limit.
V2Whole(blocks) ==
    LET units == V2(blocks).units
        once == SelectSeq([k \in DOMAIN units |->
                    IF k > 1 /\ units[k].sources = units[k - 1].sources THEN <<>> ELSE units[k].sources],
                    LAMBDA s : s # <<>>)
    IN  /\ FlattenSeq(once) = Ids(SelectSeq(blocks, LAMBDA b : Usable(b) /\ ~ IsHeader(b)))
        /\ \A u \in ToSet(units) :
              /\ u.size <= StructuralMaxChars
              /\ \A id \in ToSet(u.sources) :
                    LET k == Place(blocks, id)
                    IN  /\ blocks[k].page = u.page
                        /\ ReferenceSection(blocks, k, FALSE) = u.section

\* V3: no text is lost and none is in two logical units; what is counted as left
\* out is the rest, and the texts that a group stands for.
V3Whole(blocks) ==
    LET built == V3(blocks)
        logical == {u.sources : u \in ToSet(built.units)}
        usable == {b.id : b \in {c \in ToSet(blocks) : Usable(c)}}
        grouped == UNION {ToSet(s) : s \in {t \in logical : \E b \in ToSet(blocks) :
                              IsGroup(b) /\ t = Ids(OrderedChildren(blocks, b))}}
        empty == {b \in ToSet(blocks) : ~ Usable(b) /\ ~ (IsGroup(b) /\ OrderedChildren(blocks, b) # <<>>)}
    IN  /\ UNION {ToSet(s) : s \in logical} = usable
        /\ \A s, t \in logical : s # t => ToSet(s) \cap ToSet(t) = {}
        /\ built.excluded = Cardinality(grouped) + Cardinality(empty)

\* V4: the units of V3, and composites of several texts of one page, each of
\* other texts, within the limits; one of siblings is an unbroken run of one
\* section and parent, one of a group starts in the group's section.
V4Local(blocks) ==
    LET units == V4(blocks).units
        ordered == InOrder(blocks)
        composites == SelectSeq(units, LAMBDA u : u.composite)
        at(u, k) == Place(ordered, u.sources[k])
    IN  /\ SelectSeq(units, LAMBDA u : ~ u.composite) = V3(blocks).units
        /\ \A j, k \in DOMAIN composites :
              composites[j].sources = composites[k].sources => j = k
        /\ \A u \in ToSet(composites) :
              /\ u.size <= MaxCompositeChars
              /\ Len(u.sources) \in 2 .. (IF u.type = "siblings" THEN MaxSiblings ELSE MaxGroupBlocks)
              /\ IsInjective(u.sources)
              /\ ordered[at(u, 1)].size <= MaxIntroChars
              /\ \A k \in DOMAIN u.sources : ordered[at(u, k)].page = u.page
              /\ \A k \in IF u.type = "siblings" THEN DOMAIN u.sources ELSE {1, 2} :
                    ReferenceSection(ordered, at(u, k), TRUE) = u.section
              /\ u.type = "siblings" => \A k \in 2 .. Len(u.sources) :
                    /\ at(u, k) = at(u, k - 1) + 1
                    /\ ordered[at(u, k)].parent = ordered[at(u, 1)].parent
=============================================================================
