------------------------ MODULE MCDocumentPipeline ------------------------
\* Two versions: the blocks 1, 2 and 3 (blank) are of v1, 4 is of v2.
EXTENDS DocumentPipeline

CONSTANTS v1, v2, x, y, person, place

MCPerceptions == [v \in Versions |-> IF v = v1 THEN {{2, 3}, {}} ELSE {}]

Report(at, type, raw, value) == [at |-> at, type |-> type, raw |-> raw, value |-> value]
\* Block 1: two terms report the same text with different values, and the first
\* value comes again, under another text; block 2 repeats it.
MCDetections ==
    [b \in 1 .. 4 |->
        CASE b = 1 -> <<Report(1, person, x, x), Report(1, person, x, y), Report(2, person, y, x)>>
          [] b = 2 -> <<Report(1, person, x, x)>>
          [] b = 3 -> <<>>
          [] b = 4 -> <<Report(1, person, x, x)>>]

Manifest(extraction, discovery, resolution) == <<extraction, "wired", discovery, resolution>>
MCManifests == {Manifest("wired", "wired", "wired"), Manifest("wired", "absent", "wired")}

\* What indexing has stored of v1; an earlier execution of the Lab, up to its
\* resolution; and candidates without a declared value that another detector
\* has found in v2.
Context2(environment, group, source, manifest) ==
    [environment |-> environment, group |-> group, step |-> None,
     configuration |-> [source |-> source, manifest |-> manifest],
     hash |-> [source |-> source, manifest |-> manifest]]
Production(source) == Context2("production", None, source, None)
l0 == CHOOSE l \in Labs : TRUE
OfLab(source) == Context2("experiment", <<l0, 0>>, source, Manifest("wired", "wired", "wired"))
Earlier ==
    [p |-> Perceived(v1, {2}, OfLab(None)),
     n |-> Normalized(Perceived(v1, {2}, OfLab(None)), OfLab(1)),
     d |-> Discovered(3, Normalized(Perceived(v1, {2}, OfLab(None)), OfLab(1)), OfLab(2))]
AllStored ==
    <<Earlier.p, Earlier.n, Earlier.d, Resolved(Earlier.d.rows, OfLab(3)),
      Perceived(v1, {1, 3}, Production(None)),
      Normalized(Perceived(v1, {1, 3}, Production(None)), Production(5)),
      Run(Types[3], v2, Production(None), "completed",
          {[run |-> 7, unit |-> 4, at |-> i, type |-> person, raw |-> x, value |-> None,
            version |-> v2] : i \in {1, 2}},
          [units |-> 1, candidates |-> 2, skipped |-> 0])>>
\* TLC evaluates AllStored once, but a definition that replaces a constant at
\* each use.
MCStored == AllStored
=============================================================================
