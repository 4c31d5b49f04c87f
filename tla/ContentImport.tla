---------------------------- MODULE ContentImport -----------------------------
(***************************************************************************)
(* What the importer makes of the source that BlockDoc edits               *)
(* (parse_content_md of seed/import_seed.py): the directives are taken out *)
(* first, what is left is cut at the rules into sections, and a section is *)
(* prose and blocks in the layer in force.  Left out are the fields of a   *)
(* block, and a misconception that nothing closes, a row of another table. *)
(***************************************************************************)
EXTENDS BlockDoc

\* An item is a token, or a block in the place of its tokens.
Item(t) == [k |-> t.k, layer |-> t.v, raw |-> <<t>>]
Taken(raw) == [k |-> "block", layer |-> raw[1].v, raw |-> raw]

\* The index after the directive whose head is at i, 0 when it is none.
DirectiveEnd(d, i) ==
    LET tail == First({j \in i + 1 .. Len(d) : d[j] = Close})
        fence == First({j \in i + 1 .. Len(d) - 1 : d[j] = Fence /\ d[j + 1] = Lang})
        tick == First({j \in fence + 2 .. Len(d) : d[j] = Fence})
    IN CASE d[i].k = "single" -> i + 1
         [] d[i].k = "code" /\ fence # 0 /\ tick # 0 -> tick + 1
         [] d[i].k \in {"multi", "quiz"} /\ tail # 0 -> tail + 1
         [] OTHER -> 0

\* _extract_multiline_blocks: from left to right, a head that is no
\* directive's stays a token.
Extracted(d) ==
    LET from[p \in 1 .. Len(d) + 1] ==
            IF p > Len(d) THEN <<>>
            ELSE IF DirectiveEnd(d, p) = 0 THEN <<Item(d[p])>> \o from[p + 1]
            ELSE <<Taken(SubSeq(d, p, DirectiveEnd(d, p) - 1))>>
                 \o from[DirectiveEnd(d, p)]
    IN from[1]

\* One item more: a rule begins a section, and is of none.
SectionedOneMore(out, x) ==
    IF x.k = "rule" THEN Append(out, <<>>) ELSE Append(Front(out), Append(Last(out), x))

\* The sections between the rules.
SectionsOf(items) ==
    LET cut[k \in 0 .. Len(items)] ==
            IF k = 0 THEN <<<<>>>> ELSE SectionedOneMore(cut[k - 1], items[k])
    IN cut[Len(items)]

\* strip, of blank lines.
Stripped(items) ==
    LET kept == {i \in DOMAIN items : items[i].k # "gap"}
    IN IF kept = {} THEN <<>> ELSE SubSeq(items, Min(kept), Max(kept))

\* The items but for the comments among them.
Uncommented(items) ==
    FlattenSeq([i \in DOMAIN items |->
                   IF items[i].k \in Heads \cup {"close", "mark"} THEN <<>> ELSE <<items[i]>>])

Block(type, layer, items) ==
    [type |-> type, layer |-> layer,
     raw |-> FlattenSeq([i \in DOMAIN items |-> items[i].raw])]

\* A run of prose without its comments, unless nothing is left of it.
Markdown(items, layer) ==
    LET clean == Stripped(Uncommented(items))
    IN IF clean = <<>> THEN <<>> ELSE <<Block("markdown", layer, clean)>>

\* Mutant of BlockLayer: the section's layer, whatever the head names.
BlockLayerOfSection(x, layer) == layer

\* _build_multiline_block: a head that names a layer sets its own.
BlockLayer(x, layer) == IF x.layer = "" THEN layer ELSE x.layer

\* The next item of a section: the layer in force, the prose since the last
\* block, and the blocks.
ReadItem(acc, x) ==
    CASE x.k = "mark" -> [acc EXCEPT !.layer = x.layer]
      [] x.k = "block" ->
            [acc EXCEPT !.prose = <<>>,
                        !.out = @ \o Markdown(acc.prose, acc.layer)
                                  \o <<Block("block", BlockLayer(x, acc.layer), <<x>>)>>]
      [] OTHER -> [acc EXCEPT !.prose = Append(@, x)]

\* A section with blocks: a marker holds from the prose it stands in.
WithBlocks(section, before) ==
    LET read[k \in 0 .. Len(section)] ==
            IF k = 0 THEN [layer |-> before, prose |-> <<>>, out |-> <<>>]
            ELSE ReadItem(read[k - 1], section[k])
        all == read[Len(section)]
    IN [layer |-> all.layer, out |-> all.out \o Markdown(all.prose, all.layer)]

\* A section without blocks: a marker holds at its beginning only.  A quiz
\* that nothing closes takes all of it.
WithoutBlocks(section, before) ==
    LET whole == Stripped(section)
        led == whole # <<>> /\ whole[1].k = "mark"
        layer == IF led THEN whole[1].layer ELSE before
        rest == IF led THEN Tail(whole) ELSE whole
    IN [layer |-> layer,
        out |-> IF \E x \in ToSet(rest) : x.k = "quiz" THEN <<Block("quiz", layer, rest)>>
                ELSE Markdown(rest, layer)]

\* The next section, in the layer that the one before it left.
ReadSection(acc, section) ==
    LET read == IF \E x \in ToSet(section) : x.k = "block"
                THEN WithBlocks(section, acc.layer)
                ELSE WithoutBlocks(section, acc.layer)
    IN [layer |-> read.layer, out |-> acc.out \o read.out]

parse_content_md(d) ==
    LET sections == SectionsOf(Extracted(d))
        read[k \in 0 .. Len(sections)] ==
            IF k = 0 THEN [layer |-> "both", out |-> <<>>]
            ELSE ReadSection(read[k - 1], sections[k])
    IN read[Len(sections)].out

-----------------------------------------------------------------------------
(***************************************************************************)
(* The editor and the importer on one source (contentDoc.ts:14-20).        *)
(***************************************************************************)

\* The directives that each of them sees, in the order of the source.
Cards(d) ==
    LET shown == parseDoc(d)
    IN FlattenSeq([i \in DOMAIN shown |->
                      IF shown[i].type \in {"", "mark"} THEN <<>> ELSE <<shown[i]>>])
Imported(d) ==
    LET out == parse_content_md(d)
    IN FlattenSeq([i \in DOMAIN out |-> IF out[i].type = "block" THEN <<out[i]>> ELSE <<>>])
Raws(s) == [i \in DOMAIN s |-> s[i].raw]

\* The two agree on what is a directive, but for a type that only one knows.
CardsAreBlocks ==
    (\A t \in ToSet(value) : t.k # "quiz") => Raws(Cards(value)) = Raws(Imported(value))

\* No word of the source is lost or told twice on its way to the reader.
Words(d) == FlattenSeq([i \in DOMAIN d |-> IF d[i].k = "text" THEN <<d[i]>> ELSE <<>>])
EveryWordIsRead == Words(FlattenSeq(Raws(parse_content_md(value)))) = Words(value)

\* The layer of each card: its own, or that of the last marker before it.
LayersFollowed(d) ==
    LET shown == parseDoc(d)
        layer[i \in 0 .. Len(shown)] ==
            IF i = 0 THEN "both"
            ELSE IF shown[i].type = "mark" THEN shown[i].layer ELSE layer[i - 1]
    IN FlattenSeq([i \in DOMAIN shown |->
                      IF shown[i].type \in {"", "mark"} THEN <<>>
                      ELSE <<IF shown[i].layer = "" THEN layer[i] ELSE shown[i].layer>>])
Layering(s) == [i \in DOMAIN s |-> s[i].layer]

\* Where the source has no rule, a marker's chip says what the reader is
\* shown: "which explanation layer follows" (directiveMeta.ts:71).
LayersAsMarked ==
    (\A t \in ToSet(value) : t.k \notin {"quiz", "rule"})
    => Layering(Imported(value)) = LayersFollowed(value)

\* With rules it need not hold: a marker amid a section of prose alone is
\* stripped and never in force (import_seed.py:925-930, 1063).
MarkersAreObeyed ==
    (\A t \in ToSet(value) : t.k # "quiz")
    => Layering(Imported(value)) = LayersFollowed(value)

\* Nor is a card in the layer that it shows: "both" is written as no layer,
\* and the importer then takes the section's (contentDoc.ts:262-263).
CardShowsItsLayer ==
    CardsAreBlocks /\ (\A t \in ToSet(value) : t.k # "quiz")
    => \A i \in DOMAIN Cards(value) :
          Imported(value)[i].layer = LayerShown(Cards(value)[i].layer)

(***************************************************************************)
(* What is edited: the source comes back, and the cards are those that     *)
(* whoever opens the source again will see, and the blocks that the        *)
(* importer makes of it, each in its layer.                                *)
(***************************************************************************)
EditingHolds ==
    /\ RoundTrip /\ ProseIsProse /\ ReparseAgrees /\ LayerIsOfRaw
    /\ CardsAreBlocks /\ EveryWordIsRead /\ LayersAsMarked
=============================================================================
