----------------------------- MODULE HighCover -------------------------------
(***************************************************************************)
(* The covers of high-level variables and the cached tests of whether two  *)
(* of them are alive at once (src/variable.rs, src/merge.rs).  A high is a *)
(* set of varnodes.  Three caches stand between the data flow and a merge: *)
(* the cover stored in each varnode, the union of them stored in the high, *)
(* and, for a high that is a piece of a group of overlapping ones, the     *)
(* union over the pieces it overlaps; on top of them sits the table of     *)
(* pair tests.  Each has a dirty bit that some other object must set.      *)
(*                                                                         *)
(* A high and the piece it owns are named by the varnode the high was made *)
(* for.  A cover is a set of points.  The edits are operators from state   *)
(* to state, because the code builds one out of another; an action is one  *)
(* call.                                                                   *)
(***************************************************************************)
EXTENDS Integers, FiniteSets, SequencesExt

CONSTANTS
    Vn,       \* varnodes, positive numbers
    Unique,   \* those of Vn that only trims and dominant COPYs make
    Size,     \* [Vn -> Nat]: bytes
    MaxOff,   \* bound: largest offset inside a group
    Point,    \* program points
    Start,    \* the varnodes there are when the highs are made: their covers,
              \* the root of the chain of COPYs that each is the end of, those
              \* that are address tied (aliased stack storage), and layout's
              \* <<v, n, w>>: the storage of v starts n bytes into that of w
    PartOf,   \* <<a, n, b>>: a is computed as the bytes of b from n on
    Unmerged, \* those that merge_test_basic refuses: a stack pointer, say
    Calls,    \* the points whose calls and stores may change that storage
    MaxEdits  \* bound: edits of the data flow

ASSUME CoverAssumption ==
    /\ Vn \subseteq Nat \ {0} /\ IsFiniteSet(Vn) /\ Unique \subseteq Vn
    /\ Size \in [Vn -> Nat \ {0}] /\ MaxOff \in Nat
    /\ Start \subseteq [made: SUBSET (Vn \ Unique), cover: [Vn -> SUBSET Point],
                       value: [Vn -> Vn], tied: SUBSET (Vn \ Unique),
                       layout: SUBSET (Vn \X (0..MaxOff) \X Vn)]
    /\ PartOf \subseteq Vn \X Nat \X Vn
    /\ Unmerged \subseteq Vn \ Unique /\ Calls \subseteq Point
    /\ MaxEdits \in Nat

VARIABLE s

Dirt == {"cover", "extend", "intersect"}  \* the highflags about covers
Cover == SUBSET Point
Fill(x) == [v \in Vn |-> x]

\* ActionAssignHigh: every varnode has a high of its own.
Init ==
    \E i \in Start :
           s = [cover  |-> i.cover,       \* what a rebuild would compute
                value  |-> i.value,
                tied   |-> i.tied,
                layout |-> i.layout,
                stored |-> Fill({}),      \* Varnode.cover
                stale  |-> Vn,            \* Varnode COVERDIRTY
                unmade |-> Unique,
                high   |-> [v \in Vn |-> IF v \in i.made THEN v ELSE 0],
                inst   |-> [v \in Vn |-> {v} \cap i.made],
                hcover |-> Fill({}),      \* HighVariable.cover
                dirty  |-> Fill({"cover"}),
                piece  |-> Fill(0),       \* HighVariable.piece
                phigh  |-> Fill(0),       \* VariablePiece: high,
                group  |-> Fill(0),       \* group, named by its first piece,
                off    |-> Fill(0),       \* group_offset,
                inter  |-> Fill({}),      \* intersection,
                pcover |-> Fill({}),      \* cover
                span   |-> Fill(0),       \* VariableGroup.size
                yes    |-> {},            \* pairs of highs found to intersect
                no     |-> {},            \* and found not to
                edits  |-> 0,
                \* history: the highs that were not told of a change,
                deaf    |-> {},
                \* and those whose tests may be older than their covers
                suspect |-> {}]

Highs == {h \in Vn : s.inst[h] # {}}
Pieces(t, g) == {p \in Vn : t.group[p] = g}

-----------------------------------------------------------------------------
(* Dirty bits.                                                             *)

Soil(t, hs, bits) ==
    [t EXCEPT !.dirty = [h \in Vn |-> IF h \in hs THEN @[h] \cup bits ELSE @[h]]]

MarkIntersectionDirty(t, p) ==
    Soil(t, {t.phigh[q] : q \in Pieces(t, t.group[p])}, {"intersect", "extend"})

IsCoverDirty(t, h) == t.dirty[h] \cap {"cover", "extend"} # {}

Overlap(t, p, q) ==
    t.off[p] < t.off[q] + Size[q] /\ t.off[q] < t.off[p] + Size[p]

Overlapped(t, p) == {q \in Pieces(t, t.group[p]) \ {p} : Overlap(t, p, q)}

\* History: p has changed; the highs it overlaps that do not have one of bits
\* will not hear of it.
Unheard(t, p, bits) ==
    LET missed == {h \in {t.phigh[q] : q \in Overlapped(t, p)} : t.dirty[h] \cap bits = {}}
    IN  [t EXCEPT !.deaf = @ \cup missed, !.suspect = @ \cup missed]

\* Nobody is told while p's own list of intersections is out of date.
MarkExtendCoverDirty(t, p) ==
    LET told == Soil(t, {t.phigh[q] : q \in t.inter[p] \cup {p}}, {"extend"})
    IN  IF "intersect" \in t.dirty[t.phigh[p]] THEN Unheard(t, p, {"cover", "extend"})
        ELSE IF t.phigh[p] \in t.deaf THEN Unheard(told, p, {"cover", "extend"})
        ELSE told

\* Mutant: the pieces h overlaps are not told.
CoverDirtyAlone(t, h) == Soil(t, {h}, {"cover"})

\* propagate_flag_change_to_high: a member's cover is out of date.
CoverDirty(t, h) ==
    LET told == Soil(t, {h}, {"cover"})
    IN  IF t.piece[h] = 0 THEN told ELSE MarkExtendCoverDirty(told, t.piece[h])

\* Varnode::set_flags(COVERDIRTY) after an edit of the data flow that leaves
\* v with cover c.
SetCoverDirty(t, v, c) ==
    LET edited == [t EXCEPT !.cover[v] = c, !.stale = @ \cup {v}]
    IN  IF t.high[v] = 0 THEN edited ELSE CoverDirty(edited, t.high[v])

-----------------------------------------------------------------------------
(* Rebuilding.                                                             *)

\* Varnode::update_cover_locked, for the varnodes vs.
UpdateCovers(t, vs) ==
    LET old == t.stale \cap vs
    IN  IF old = {} THEN t
        ELSE [t EXCEPT !.stored = [v \in Vn |-> IF v \in old THEN t.cover[v] ELSE @[v]],
                       !.stale = @ \ old]

UpdateMembers(t, hs) == UpdateCovers(t, UNION {t.inst[h] : h \in hs})

UpdateInternalCover(t, hs) ==
    LET old == {h \in hs : "cover" \in t.dirty[h]}
        Union(h) == UNION {t.stored[v] : v \in t.inst[h]}
    IN  IF old = {} THEN t
        ELSE [t EXCEPT !.hcover = [h \in Vn |-> IF h \in old THEN Union(h) ELSE @[h]],
                       !.dirty = [h \in Vn |-> IF h \in old THEN @[h] \ {"cover"} ELSE @[h]]]

UpdateIntersections(t, p) ==
    IF "intersect" \notin t.dirty[t.phigh[p]] THEN t
    ELSE [t EXCEPT
        !.inter[p] = Overlapped(t, p),
        !.dirty[t.phigh[p]] = @ \ {"intersect"}]

\* The highs of the pieces that p overlaps.
Neighbours(t, p) == {t.phigh[q] : q \in t.inter[p]}

UpdatePieceCover(t, p) ==
    LET h == t.phigh[p]
        hs == {h} \cup Neighbours(t, p)
        fresh == UpdateInternalCover(t, hs)
    IN  IF ~IsCoverDirty(t, h) THEN t
        ELSE [fresh EXCEPT !.pcover[p] = UNION {fresh.hcover[x] : x \in hs},
                           !.dirty[h] = @ \ {"extend"},
                           !.deaf = IF t.inter[p] = Overlapped(t, p) THEN @ \ {h} ELSE @]

UpdateHighCover(t, h) ==
    LET p == t.piece[h]
        own == UpdateMembers(t, {h})
        known == UpdateIntersections(own, p)
    IN  IF p = 0 THEN UpdateInternalCover(own, {h})
        ELSE UpdatePieceCover(UpdateMembers(known, Neighbours(known, p)), p)

GetCover(t, h) == IF t.piece[h] = 0 THEN t.hcover[h] ELSE t.pcover[t.piece[h]]

-----------------------------------------------------------------------------
(* The table of pair tests.                                                *)

With(h, pairs) == {e \in pairs : h \in e}
Others(h, pairs) == UNION With(h, pairs) \ {h}
PurgeHigh(t, h) == [t EXCEPT !.yes = @ \ With(h, @), !.no = @ \ With(h, @)]

\* Mutant: the cover is rebuilt and the tests made with the old one kept.
UpdateWithoutPurge(t, h) == IF IsCoverDirty(t, h) THEN UpdateHighCover(t, h) ELSE t

UpdateHigh(t, h) ==
    LET u == UpdateHighCover(t, h)
    IN  IF ~IsCoverDirty(t, h) THEN t
        ELSE PurgeHigh([u EXCEPT !.suspect = (@ \ {h}) \cup (u.deaf \cap {h})], h)

\* copy_shadow and partial_copy_shadow: v and w, with v starting o bytes into
\* w, hold the same value, or one holds a part of the other's.
CopyShadow(t, v, w, o) ==
    IF Size[v] = Size[w] THEN t.value[v] = t.value[w]
    ELSE PartOf \cap {<<t.value[v], o, t.value[w]>>, <<t.value[w], -o, t.value[v]>>} # {}

\* h and the highs of the pieces qs, each with its offset from h.
Around(t, h, qs) ==
    {<<h, 0>>} \cup {<<t.phigh[q], t.off[q] - t.off[t.piece[h]]>> : q \in qs}

\* A member from each side, in storage that overlaps when the two sides are
\* put on top of each other, both alive at one of the points ps, and neither
\* a copy of the other.
Clash(t, as, bs, ps) ==
    \E x \in as, y \in bs :
        /\ x[2] < y[2] + Size[y[1]] /\ y[2] < x[2] + Size[x[1]]
        /\ \E v \in t.inst[x[1]], w \in t.inst[y[1]] :
              /\ v # w /\ t.cover[v] \cap t.cover[w] \cap ps # {}
              /\ ~CopyShadow(t, v, w, x[2] - y[2])

IsAddrTied(t, h) == t.inst[h] \cap t.tied # {}

\* test_untied_call_intersection, of a and b with covers ca and cb: the one
\* that is not address tied is alive across a call.
UntiedCall(t, a, b, ca, cb) ==
    \/ IsAddrTied(t, a) /\ ~IsAddrTied(t, b) /\ cb \cap Calls # {}
    \/ IsAddrTied(t, b) /\ ~IsAddrTied(t, a) /\ ca \cap Calls # {}

Listed(t, h) == IF t.piece[h] = 0 THEN {} ELSE t.inter[t.piece[h]]

Intersect(t, a, b) ==
    \/ Clash(t, Around(t, a, Listed(t, a)), Around(t, b, Listed(t, b)),
             GetCover(t, a) \cap GetCover(t, b))
    \/ UntiedCall(t, a, b, GetCover(t, a), GetCover(t, b))

\* HighIntersectTest::intersection; afterwards {a, b} is in yes or in no.  A
\* test made anew reads the members' covers, and so rebuilds them.
Intersection(t, a, b) ==
    LET ua == UpdateHigh(t, a)
        ub == UpdateHigh(ua, b)
        clean == ~IsCoverDirty(t, a) /\ ~IsCoverDirty(ua, b)
        others == {ub.phigh[q] : q \in Listed(ub, a) \cup Listed(ub, b)}
        u == UpdateMembers(ub, {a, b} \cup others)
    IN  IF clean /\ {a, b} \in t.yes \cup t.no THEN ub
        ELSE IF Intersect(u, a, b)
             THEN [u EXCEPT !.yes = @ \cup {{a, b}}, !.no = @ \ {{a, b}}]
             ELSE [u EXCEPT !.no = @ \cup {{a, b}}, !.yes = @ \ {{a, b}}]

\* h1 is about to absorb h2: it intersects what either of them did; what it
\* did not is kept only if h2 was tested too.
MoveIntersectTests(t, h1, h2) ==
    LET ys == Others(h2, t.yes) \ {h1}
        ns == Others(h2, t.no) \ {h1}
        dropped == PurgeHigh(t, h2)
    IN  [dropped EXCEPT !.no = {e \in @ : h1 \in e => e \subseteq ns \cup {h1}},
                        !.yes = @ \cup {{h1, x} : x \in ys}]

-----------------------------------------------------------------------------
(* Groups.                                                                 *)

AdjustOffsets(t, g, n) ==
    [t EXCEPT !.off = [p \in Vn |-> IF p \in Pieces(t, g) THEN @[p] + n ELSE @[p]],
              !.span[g] = @ + n]

AddPiece(t, p, g) ==
    LET end == t.off[p] + Size[p]
    IN  [t EXCEPT !.group[p] = g, !.span[g] = IF end > @ THEN end ELSE @]

AttachGroupPiece(t, h, o, g) ==
    AddPiece([t EXCEPT !.piece[h] = h, !.phigh[h] = h, !.off[h] = o], h, g)

\* group_with_arcs: h starts n bytes after other.
GroupWith(t, h, n, other) ==
    LET hp == t.piece[h]   op == t.piece[other]
        \* new joins the group of the piece old, which is not warned if old is
        \* out of date itself
        Join(u, old, new, o) ==
            LET Attach(w) == AttachGroupPiece(Soil(w, {new}, {"intersect", "extend"}),
                                              new, o, u.group[old])
            IN  IF "intersect" \in u.dirty[u.phigh[old]]
                THEN Unheard(Attach(u), new, {"intersect"})
                ELSE Attach(MarkIntersectionDirty(u, old))
        before == t.off[hp] - n
        shift == t.off[op] + n - t.off[hp]
        aligned == AdjustOffsets(t, t.group[hp], shift)
    IN  CASE hp = 0 /\ op = 0 ->
               MarkIntersectionDirty(AttachGroupPiece(
                   AttachGroupPiece(t, other, 0, other), h, n, other), other)
          [] hp = 0 /\ op # 0 -> Join(t, op, h, n + t.off[op])
          [] hp # 0 /\ op = 0 ->
               IF before >= 0 THEN Join(t, hp, other, before)
               ELSE Join(AdjustOffsets(t, t.group[hp], -before), hp, other, 0)
          [] hp # 0 /\ op # 0 ->
               MarkIntersectionDirty([aligned EXCEPT !.group =
                   [p \in Vn |-> IF @[p] = t.group[hp] THEN t.group[op] ELSE @[p]]], op)

-----------------------------------------------------------------------------
(* Merging.                                                                *)

\* merge_internal, and the members' way back.
MergeInternal(t, h1, h2) ==
    LET Inherit(hs) == IF h2 \in hs THEN (hs \ {h2}) \cup {h1} ELSE hs
        merged == [t EXCEPT !.inst[h1] = @ \cup t.inst[h2], !.inst[h2] = {},
            !.deaf = Inherit(@), !.suspect = Inherit(@),
            !.high = [v \in Vn |-> IF v \in t.inst[h2] THEN h1 ELSE @[v]]]
    IN  IF "cover" \in t.dirty[h1] \cup t.dirty[h2] THEN Soil(merged, {h1}, {"cover"})
        ELSE [merged EXCEPT !.hcover[h1] = @ \cup t.hcover[h2]]

\* Mutant: the piece goes on naming the high it was taken from.
TransferPieceOnly(t, h1, h2) ==
    LET bits == t.dirty[h2] \cap {"intersect", "extend"}
    IN  [t EXCEPT !.piece[h1] = t.piece[h2], !.piece[h2] = 0,
                  !.dirty[h1] = @ \cup bits, !.dirty[h2] = @ \ bits]

TransferPiece(t, h1, h2) ==
    LET bits == t.dirty[h2] \cap {"intersect", "extend"}
    IN  [t EXCEPT !.piece[h1] = t.piece[h2], !.piece[h2] = 0,
                  !.phigh[t.piece[h2]] = h1,
                  !.dirty[h1] = @ \cup bits, !.dirty[h2] = @ \ bits]

\* The pieces of p2's group, moved so that p2 starts where p1 does, join the
\* group of p1; the high of one that coincides with a piece of it is merged.
MergeGroups(t, p1, p2) ==
    LET diff == t.off[p1] - t.off[p2]
        u == IF diff > 0 THEN AdjustOffsets(t, t.group[p2], diff)
             ELSE AdjustOffsets(t, t.group[p1], -diff)
        Same(r, q) == u.off[r] = u.off[q] /\ Size[r] = Size[q]
        Move(w, q) ==
            LET twins == {r \in Pieces(w, u.group[p1]) : Same(r, q)}
                h1 == w.phigh[CHOOSE r \in twins : TRUE]
                h2 == w.phigh[q]
                freed == [w EXCEPT !.group[q] = 0, !.piece[h2] = 0]
            IN  IF twins = {} THEN AddPiece(w, q, u.group[p1])
                ELSE MergeInternal(MoveIntersectTests(freed, h1, h2), h1, h2)
        Earlier(q, r) == u.off[q] < u.off[r] \/ (u.off[q] = u.off[r] /\ q < r)
        order == SetToSortSeq(Pieces(u, u.group[p2]), Earlier)
    IN  MarkIntersectionDirty(FoldLeft(Move, u, order), p1)

MergeHighs(t, h1, h2) ==
    LET p1 == t.piece[h1]   p2 == t.piece[h2]
        kept == MarkExtendCoverDirty(t, p1)
        moved == MarkExtendCoverDirty(TransferPiece(t, h1, h2), p2)
        merged == CASE p1 = 0 /\ p2 = 0 -> MergeInternal(t, h1, h2)
                    [] p1 # 0 /\ p2 = 0 -> MergeInternal(kept, h1, h2)
                    [] p1 = 0 /\ p2 # 0 -> MergeInternal(moved, h1, h2)
                    [] p1 # 0 /\ p2 # 0 -> MergeGroups(t, p1, p2)
    IN  IF p1 # 0 /\ p2 # 0 THEN merged ELSE UpdateHighCover(merged, h1)

Mergeable(t, h) == t.inst[h] # {} /\ t.inst[h] \cap Unmerged = {}

\* merge_test_required and merge_test_basic, as far as sizes and pieces go.
MayMerge(t, h1, h2) ==
    LET p1 == t.piece[h1]   p2 == t.piece[h2]
    IN  /\ Mergeable(t, h1) /\ Mergeable(t, h2) /\ Size[h1] = Size[h2]
        /\ p1 # 0 /\ p2 # 0 =>
            /\ t.group[p1] # t.group[p2]
            /\ Size[p1] = t.span[t.group[p1]] \/ Size[p2] = t.span[t.group[p2]]

\* A unique varnode n, the output of a COPY of v, and a high for it
\* (wire_unique_high).
MakeCopy(t, n, v, c) ==
    [t EXCEPT !.unmade = @ \ {n}, !.high[n] = n, !.inst[n] = {n}, !.cover[n] = c,
              !.value[n] = t.value[v]]

\* The members of h that are made by COPYs of what r holds.
Shadows(t, h, r) == {v \in t.inst[h] : t.value[v] = t.value[r] /\ t.value[v] # v}

\* buildDominantCopy looks at the members of h other than the shadows of r;
\* the copies vs go.  Destroying them tells h, which they still name.
LookAround(t, h, r) == UpdateCovers(t, t.inst[h] \ Shadows(t, h, r))

DropCopies(t, h, vs, r, c) ==
    LET seen == LookAround(SetCoverDirty(t, r, c), h, r)
        less == [seen EXCEPT !.inst[h] = @ \ vs,
                             !.high = [v \in Vn |-> IF v \in vs THEN 0 ELSE @[v]],
                             !.cover = [v \in Vn |-> IF v \in vs THEN {} ELSE @[v]]]
    IN  IF vs = {} THEN seen ELSE CoverDirty(less, h)

-----------------------------------------------------------------------------
(* The calls.                                                              *)

Edited(t) == [t EXCEPT !.edits = @ + 1]

\* An edit of the data flow around v.
Touch(v, c) ==
    /\ s.high[v] # 0 /\ c # s.cover[v] /\ s.edits < MaxEdits
    /\ s' = SetCoverDirty(Edited(s), v, c)

\* The highs of v and w are grouped, v starting n bytes into w.
Group(v, n, w) ==
    /\ s.high[v] # s.high[w] /\ 0 \notin {s.high[v], s.high[w]}
    /\ s' = GroupWith(s, s.high[v], n, s.high[w])
    /\ \A p \in Vn : s'.off[p] \in 0..MaxOff

\* update_high, as merge_linear and merge_multi_entry call it; of a high that is
\* not dirty it returns at once.
Refresh(h) == Mergeable(s, h) /\ IsCoverDirty(s, h) /\ s' = UpdateHigh(s, h)

\* inflate_test of a member of h.  It may find what it looks for before it
\* comes to the pieces h overlaps; what it does to the high it tests against
\* is what it does to h until then.
InflateTest(h) ==
    LET p == s.piece[h]
        first == UpdateMembers(s, {h})
        known == UpdateIntersections(first, p)
    IN  /\ h \in Highs
        /\ \/ s' = first
           \/ p # 0 /\ s' = UpdateMembers(known, Neighbours(known, p))

MergeTest(a, b) ==
    /\ a # b /\ Mergeable(s, a) /\ Mergeable(s, b) /\ Size[a] = Size[b]
    /\ s' = Intersection(s, a, b)

\* Mutant: the test is made after the members are put together.
MergeBeforeTest(h1, h2) ==
    /\ h1 # h2 /\ MayMerge(s, h1, h2)
    /\ s' = MergeHighs(MoveIntersectTests(UpdateHigh(UpdateHigh(s, h1), h2), h1, h2),
                       h1, h2)
    /\ \A p \in Vn : s'.off[p] \in 0..MaxOff

\* merge_speculative, merge_type_pair, merge_must: h1 survives.
Merge(h1, h2) ==
    LET t == Intersection(s, h1, h2)
    IN  /\ h1 # h2 /\ MayMerge(s, h1, h2)
        /\ s' = IF {h1, h2} \in t.yes THEN t
                ELSE MergeHighs(MoveIntersectTests(t, h1, h2), h1, h2)
        /\ \A p \in Vn : s'.off[p] \in 0..MaxOff

\* A COPY into a new varnode n, made before the reads of v it takes over
\* (allocate_copy_trim): v is alive at no new point.
Trim(v, n, c, d) ==
    /\ c \subseteq s.cover[v]
    /\ n \in s.unmade /\ Size[n] = Size[v] /\ s.high[v] # 0 /\ s.edits < MaxEdits
    /\ s' = SetCoverDirty(MakeCopy(Edited(s), n, v, d), v, c)

\* Those of the shadows that may be temporaries.
CopiesOf(h, r) == Shadows(s, h, r) \ s.tied

\* h holds two of them or more.
HasCopies(h, r) ==
    /\ h \in Highs /\ s.high[r] \notin {0, h} /\ s.edits < MaxEdits
    /\ Cardinality(CopiesOf(h, r)) > 1

\* They give way to a new one, n, which joins h untested; the tests of h stay
\* although its cover has been rebuilt.
NewDominant(h, r) ==
    /\ HasCopies(h, r)
    /\ \E n \in s.unmade, vs \in SUBSET CopiesOf(h, r), c, d \in Cover :
        LET t == MergeHighs(DropCopies(MakeCopy(Edited(s), n, r, d), h, vs, r, c), h, n)
        IN  /\ Cardinality(vs) > 1 /\ Size[n] = Size[r]
            /\ s' = IF With(h, t.yes \cup t.no) = {} THEN t
                    ELSE [t EXCEPT !.suspect = @ \cup {h}]

\* They give way to one of them, w, in the dominating block.
OldDominant(h, r) ==
    /\ HasCopies(h, r)
    /\ \E w \in CopiesOf(h, r), vs \in SUBSET CopiesOf(h, r), c, d \in Cover :
        /\ w \notin vs /\ vs # {}
        /\ s' = SetCoverDirty(DropCopies(Edited(s), h, vs, r, c), w, d)

\* All but one must stay; if a new COPY was made it is destroyed again.
NoDominant(h, r) ==
    /\ HasCopies(h, r)
    /\ \/ s' = DropCopies(Edited(s), h, {}, r, s.cover[r])
       \/ s' = LookAround(s, h, r)

Next ==
    \/ \E v \in Vn, c \in Cover :
        \/ Touch(v, c)
        \/ \E n \in Unique, d \in Cover : Trim(v, n, c, d)
    \/ \E h \in Vn : Refresh(h) \/ InflateTest(h)
    \/ \E a, b \in Vn : MergeTest(a, b) \/ Merge(a, b)
    \/ \E x \in s.layout : Group(x[1], x[2], x[3])
    \/ \E h, r \in Vn :
        NewDominant(h, r) \/ OldDominant(h, r) \/ NoDominant(h, r)

Spec == Init /\ [][Next]_s

-----------------------------------------------------------------------------
(* Properties.                                                             *)

\* Type invariant; a varnode is a member of the one high it names, and a high
\* of the one piece it names.
TypeOK ==
    /\ s \in [cover: [Vn -> Cover], value: [Vn -> Vn], tied: SUBSET Vn,
             layout: SUBSET (Vn \X (0..MaxOff) \X Vn), stored: [Vn -> Cover], stale: SUBSET Vn,
             unmade: SUBSET Unique, high: [Vn -> Vn \cup {0}],
             inst: [Vn -> SUBSET Vn], hcover: [Vn -> Cover],
             dirty: [Vn -> SUBSET Dirt], piece: [Vn -> Vn \cup {0}],
             phigh: [Vn -> Vn \cup {0}], group: [Vn -> Vn \cup {0}],
             off: [Vn -> 0..MaxOff], inter: [Vn -> SUBSET Vn],
             pcover: [Vn -> Cover], span: [Vn -> Nat],
             yes: SUBSET SUBSET Vn, no: SUBSET SUBSET Vn,
             edits: 0..MaxEdits, deaf: SUBSET Vn, suspect: SUBSET Vn]
    /\ \A h \in Vn : s.inst[h] = {v \in Vn : s.high[v] = h}
    /\ \A h \in Highs : s.piece[h] # 0 => s.phigh[s.piece[h]] = h

\* What h covers as things are: itself and the pieces its own overlaps.
TrulyAround(h) ==
    Around(s, h, IF s.piece[h] = 0 THEN {} ELSE Overlapped(s, s.piece[h]))

TrueCover(h) == UNION {s.cover[v] : v \in UNION {s.inst[x[1]] : x \in TrulyAround(h)}}

\* The cover of a high that is not marked dirty is what a rebuild of its
\* members, and of the members of every piece it overlaps, would give: the
\* contract under which high_cover may read it without an update.  The highs
\* left out were not told of a change, because the piece that changed was
\* waiting for its own list of intersections; they stay wrong until they are
\* rebuilt over all the pieces they overlap.
CoverFresh ==
    \A h \in Highs \ s.deaf : ~IsCoverDirty(s, h) => GetCover(s, h) = TrueCover(h)

\* A cached answer that intersection() would return is still right, as the
\* members, the pieces and the calls are now.  A high once found to cross a
\* call of the other's storage keeps that answer when it absorbs a tied one.
TestFresh(a, b) ==
    ~IsCoverDirty(s, a) /\ ~IsCoverDirty(s, b) =>
        LET clash == Clash(s, TrulyAround(a), TrulyAround(b), Point)
        IN  /\ {a, b} \in s.yes =>
                   \/ clash
                   \/ IsAddrTied(s, a) /\ TrueCover(b) \cap Calls # {}
                   \/ IsAddrTied(s, b) /\ TrueCover(a) \cap Calls # {}
            /\ {a, b} \in s.no /\ a # b =>
                   ~clash /\ ~UntiedCall(s, a, b, TrueCover(a), TrueCover(b))

\* Cached answers stay right through merges, regroupings, trims and rebuilds,
\* unless a high was not told of a change or was rebuilt by a dominant COPY
\* with its tests kept.
TestsFresh == \A a, b \in Highs \ s.suspect : TestFresh(a, b)

\* ... without the exception: what the comments on update_high and
\* build_dominant_copy claim.
AllTestsFresh == \A a, b \in Highs : TestFresh(a, b)

\* The highs of the group of h.
Kin(h) ==
    {h} \cup IF s.piece[h] = 0 THEN {}
              ELSE {s.phigh[q] : q \in Pieces(s, s.group[s.piece[h]])}

\* No merge brings together two varnodes alive at the same point unless they
\* hold the same value, as far as the answers it goes by can be trusted.
NoMergeAlive ==
    [][\A h \in {x \in Highs : s.inst[x] # s'.inst[x]} : \A v, w \in s'.inst[h] :
           LET a == s.high[v]   b == s.high[w]
               trusted == (Kin(a) \cup Kin(b)) \cap s.suspect = {}
           IN  0 \notin {a, b} /\ a # b /\ trusted =>
                   s.cover[v] \cap s.cover[w] = {} \/ s.value[v] = s.value[w]]_s
=============================================================================
