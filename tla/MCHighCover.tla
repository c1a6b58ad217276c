---------------------------- MODULE MCHighCover -----------------------------
\* Instances of HighCover.
EXTENDS HighCover

\* 2 is the upper half of 1 and 4 the low byte of 3; 2, 3, 6 and the unique 5
\* are of one size, so all but 6 may merge.
MCSize == <<4, 2, 2, 1, 2, 2>>
OneSize == [v \in Vn |-> 1]

\* At first the varnode 2 alone is alive.  Either 1 to 4 are values of their
\* own and 1 and 2 lie in aliased storage, or 2 and 3 are copies of 6.
Distinct == [v \in Vn |-> v]
Alive(vs) == [v \in Vn |-> IF v \in vs THEN Point ELSE {}]
Copies(vs, r) == [v \in Vn |-> IF v \in vs THEN r ELSE v]
MCStart ==
    {[made |-> 1..4, cover |-> Alive({2}), value |-> Distinct,
      tied |-> {1, 2}, layout |-> {<<2, 2, 1>>, <<4, 0, 3>>}],
     [made |-> {2, 3, 4, 6}, cover |-> Alive({2}), value |-> Copies({2, 3}, 6),
      tied |-> {}, layout |-> {<<4, 0, 3>>}]}
MCPartOf == {<<2, 2, 1>>, <<4, 0, 6>>}

\* The copies 3 and 4 of 2 are dead when the highs are made, and 1 is not.
DominantStart ==
    {[made |-> 1..4, cover |-> Alive({1, 2}), value |-> Copies({3, 4}, 2),
      tied |-> {}, layout |-> {}]}

\* A cache marked out of date is rebuilt before it is read: what it holds
\* until then tells no two states apart, and nor do the tests of a high so
\* marked once no dominant COPY can come.  The covers stored in the varnodes
\* do not either: whoever reads one rebuilds it.  Nor does that of a varnode
\* that is neither in a group nor ever tested.
Kept(f, live) == [x \in Vn |-> IF x \in live THEN f[x] ELSE {}]
Grouped == {p \in Vn : s.group[p] # 0 /\ s.piece[s.phigh[p]] = p}
MCView ==
    LET alive == Highs
        clean == {h \in alive : ~IsCoverDirty(s, h)}
        Read(pairs) == IF s.edits < MaxEdits THEN pairs ELSE pairs \cap SUBSET clean
    IN  <<Kept(s.cover, Vn \ Unmerged), s.value, s.layout, s.unmade, s.high, s.piece,
          Kept(s.hcover, {h \in alive : "cover" \notin s.dirty[h]}),
          Kept(s.dirty, alive),
          [p \in Grouped |-> <<s.phigh[p], s.group[p], s.off[p], s.span[s.group[p]]>>],
          Kept(s.inter, {p \in Grouped : "intersect" \notin s.dirty[s.phigh[p]]}),
          Kept(s.pcover, {p \in Grouped : s.phigh[p] \in clean}),
          Read(s.yes), Read(s.no), s.edits, s.deaf, s.suspect>>
=============================================================================
