--------------------------- MODULE MCQaBenchmark ---------------------------
\* Every document of up to MaxItems items of these kinds, on two pages.
EXTENDS QaBenchmark

CONSTANT MaxItems

Kind(label, size, page, layer) == [label |-> label, size |-> size, page |-> page, layer |-> layer]
\* Texts that merge, and one that must be cut; a group has no text.
Kinds == {Kind("text", 1, 1, "none"), Kind("text", 1, 2, "none"), Kind("text", 7, 1, "none"),
          Kind("section_header", 2, 1, "none"), Kind("list", 0, NoPage, "none"),
          Kind("picture", 0, NoPage, "none")}
\* Besides, in shorter documents.
RareKinds == Kinds \cup
    {Kind("text", 4, 1, "none"), Kind("text", 1, 1, "furniture"), Kind("text", 0, 1, "none"),
     Kind("page_header", 1, 1, "none"), Kind("key_value_area", 0, NoPage, "none"),
     Kind("list_item", 2, NoPage, "none"), Kind("table", 2, 1, "none"), Kind("text", 1, 1, "body")}
Containers == {"list", "picture", "key_value_area", "list_item"}
Grown(docs, kinds, roots) ==
    UNION {{Append(d, [label |-> k.label, size |-> k.size, page |-> k.page, layer |-> k.layer,
                       parent |-> p]) :
               k \in kinds, p \in roots \cup {i \in DOMAIN d : d[i].label \in Containers}} : d \in docs}
\* Documents of up to n items.
Up(n, kinds, roots) ==
    FoldLeft(LAMBDA docs, k : docs \cup Grown({d \in docs : Len(d) = k - 1}, kinds, roots),
             {<<>>}, [k \in 1 .. n |-> k])

Item(label, size, page, parent) ==
    [label |-> label, size |-> size, page |-> page, layer |-> "none", parent |-> parent]
MCAsked == {<<Item("text", 1, 1, Body), Item("text", 1, 1, Body), Item("text", 1, 2, Body),
              Item("list", 0, NoPage, Body), Item("list_item", 2, 3, 4)>>,
            <<>>}
AllDocuments ==
    Up(MaxItems, Kinds, {Body}) \cup Up(MaxItems - 2, RareKinds, {Body, Furniture, NoRef}) \cup MCAsked
\* TLC evaluates AllDocuments once, but a definition that replaces a constant at
\* each use.
MCDocuments == AllDocuments

MCQuestions == <<[answerable |-> TRUE, expected |-> {2}], [answerable |-> FALSE, expected |-> {}],
                 [answerable |-> TRUE, expected |-> {1, 3}]>>
MCChunks == <<{1}, {1, 2}, {3}>>
MCNearness == {[p \in 1 .. 3 |-> p], [p \in 1 .. 3 |-> IF p = 2 THEN 1 ELSE 2]}
=============================================================================
