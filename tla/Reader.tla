-------------------------------- MODULE Reader --------------------------------
(***************************************************************************)
(* How a topic's blocks are read: the layer and branch filters, the        *)
(* pairing of code blocks, the collapsible runs of formal blocks, the      *)
(* pinned visual and the state resets of the scrolled page                 *)
(* (ScrollReader.tsx), and the slides made of the same blocks              *)
(* (SlideView.tsx).                                                        *)
(*                                                                         *)
(* A block is a record.  The effects of a render are part of the action    *)
(* that caused it: Shown adds them to a new state.                         *)
(***************************************************************************)
EXTENDS Naturals, FiniteSets, SequencesExt

CONSTANTS
    Docs,      \* topics: blocks, misconceptions, layered (has_formal_layer)
    Choice,    \* options of the decisions
    NoPick

ASSUME ReaderAssumption ==
    /\ \A d \in Docs : d.blocks \in Seq(Range(d.blocks))
    /\ NoPick \notin Choice

VARIABLES
    rd,        \* what the reader sees: see ReaderTypeOK
    resets     \* history: how often each state_reset fired, this mount

readerVars == <<rd, resets>>

Ids(doc) == {doc.blocks[i].id : i \in DOMAIN doc.blocks}
Anchors(doc) == {doc.blocks[i].anchor : i \in DOMAIN doc.blocks} \cup {""}
Decisions(doc) == {b.anchor : b \in {c \in Range(doc.blocks) : c.kind = "decision"}}

ReaderTypeOK ==
    /\ rd.doc \in Docs
    /\ rd.surface \in {"scroll", "slides"}
    /\ rd.layer \in {"intuition", "formal", "both"}
    /\ rd.wide \in BOOLEAN
    /\ \A a \in DOMAIN rd.picks : rd.picks[a] \in Choice \cup {NoPick}
    /\ rd.active \in Anchors(rd.doc) /\ rd.pinned \in Anchors(rd.doc)
    /\ rd.fired \subseteq Ids(rd.doc) /\ rd.toggled \subseteq Ids(rd.doc)
    /\ rd.slide \in Nat
    /\ rd.lang \in {"python", "r"} /\ rd.hasR \in BOOLEAN
    /\ DOMAIN resets = Ids(rd.doc)

-----------------------------------------------------------------------------
(***************************************************************************)
(* Which blocks there are.                                                 *)
(***************************************************************************)

\* What a sequence has at the places in S, in its order.
Among(s, S) ==
    LET upto[n \in 0 .. Len(s)] ==
          IF n = 0 THEN <<>>
          ELSE IF n \in S THEN Append(upto[n - 1], s[n]) ELSE upto[n - 1]
    IN  upto[Len(s)]

\* A block with no anchor, no dependency or no pair has "" there.
BranchTaken(b, picks) == b.dep = "" \/ (b.dep \in DOMAIN picks /\ picks[b.dep] \in b.branch)

InLayer(b, layer, surface) ==
    IF surface = "scroll" THEN layer = "formal" => b.layer # "intuition"
    ELSE layer = "both" \/ b.layer \in {"both", layer}

\* On a narrow page, by mobile_order: each block after those that do not come
\* after it.
Placed(q, b) == InsertAt(q, Cardinality({i \in DOMAIN q : q[i].order <= b.order}) + 1, b)

Arranged(s) ==
    LET upto[n \in 0 .. Len(s)] ==
          IF n = 0 THEN <<>> ELSE Placed(upto[n - 1], s[n])
    IN  upto[Len(s)]

Visible(r) ==
    LET s == r.doc.blocks
        kept == Among(s, {i \in DOMAIN s :
                    InLayer(s[i], r.layer, r.surface) /\ BranchTaken(s[i], r.picks)})
    IN  IF r.surface = "slides" \/ r.wide THEN kept ELSE Arranged(kept)

-----------------------------------------------------------------------------
(***************************************************************************)
(* codePairs.ts                                                            *)
(***************************************************************************)

IsCode(b) == b.kind \in {"code_python", "code_r", "simulation"}
LangOf(b) == IF b.kind = "code_r" THEN "r" ELSE "python"
PairId(b) == IF IsCode(b) THEN b.pair ELSE ""

\* Mutant of Twins: any two neighbours of one pair_id.
TwinsOfAnyLang(a, b) == PairId(a) # "" /\ PairId(a) = PairId(b)

Twins(a, b) ==
    PairId(a) # "" /\ PairId(a) = PairId(b) /\ LangOf(a) # LangOf(b)

\* Items are sequences of one block, or of the two of a pair; next is the
\* index of the loop, which passes over the second of a pair.
Paired(g, s, n) ==
    IF n < g.next THEN g
    ELSE IF n < Len(s) /\ Twins(s[n], s[n + 1])
    THEN [out |-> Append(g.out, SubSeq(s, n, n + 1)), next |-> n + 2]
    ELSE [out |-> Append(g.out, <<s[n]>>), next |-> n + 1]

Grouped(s) ==
    LET walk[n \in 0 .. Len(s)] ==
          IF n = 0 THEN [out |-> <<>>, next |-> 1] ELSE Paired(walk[n - 1], s, n)
    IN  walk[Len(s)].out

IsPair(item) == Len(item) = 2

\* CodePairRenderer: the variants whose tab is there, and the one that runs.
Variants(pair, r) == Among(pair, {i \in DOMAIN pair : LangOf(pair[i]) # "r" \/ r.hasR})
ActiveVariants(pair, r) ==
    LET shown == Variants(pair, r)
        preferred == Among(shown, {i \in DOMAIN shown : LangOf(shown[i]) = r.lang})
    IN  IF preferred # <<>> THEN preferred ELSE shown

-----------------------------------------------------------------------------
(***************************************************************************)
(* The page: sections, alone or a run of formal blocks behind a button.    *)
(***************************************************************************)

IsFormal(item) == ~IsPair(item) /\ item[1].layer = "formal"

Flushed(acc) == IF acc.run = <<>> THEN acc.out
                ELSE Append(acc.out, [formal |-> TRUE, items |-> acc.run])

\* Mutant of Closed: what is left of a run when the blocks end.
RunForgotten(acc) == acc.out

Closed(acc) == Flushed(acc)

Sectioned(acc, item) ==
    IF IsFormal(item) THEN [acc EXCEPT !.run = Append(@, item)]
    ELSE [out |-> Append(Flushed(acc), [formal |-> FALSE, items |-> <<item>>]),
          run |-> <<>>]

Sections(items) ==
    LET upto[n \in 0 .. Len(items)] ==
          IF n = 0 THEN [out |-> <<>>, run |-> <<>>] ELSE Sectioned(upto[n - 1], items[n])
    IN  Closed(upto[Len(items)])

Page(r) == Sections(Grouped(Visible(r)))

RunKey(section) == section.items[1][1].id
RunKeys(r) == {RunKey(s) : s \in {t \in Range(Page(r)) : t.formal}}
Folded(section, r) ==
    section.formal /\ ((r.layer = "intuition") # (RunKey(section) \in r.toggled))

Pinnable(b) == b.kind \in {"plot", "graph_view"}
PlotAnchors(s) == {s[i].anchor : i \in {j \in DOMAIN s : Pinnable(s[j])}} \ {""}
FirstPlot(s) == s[Min({i \in DOMAIN s : Pinnable(s[i]) /\ s[i].anchor # ""})].anchor

\* The sentinels that can become active: none in a pair or a folded run.
Sentinels(r) ==
    {item[1].anchor : item \in
        {i \in UNION {Range(s.items) : s \in {t \in Range(Page(r)) : ~Folded(t, r)}} :
            ~IsPair(i)}} \ {""}

-----------------------------------------------------------------------------
(***************************************************************************)
(* SlideView.tsx                                                           *)
(***************************************************************************)

Slides(r) ==
    LET s == Visible(r)
        shown == {i \in DOMAIN s : ~Pinnable(s[i]) /\ s[i].kind \notin
                     {"state", "state_reset", "dataset", "parse_error"}}
        flow == Cardinality(shown) + (IF r.doc.misconceptions THEN 1 ELSE 0)
    IN  IF flow = 0 THEN Cardinality({i \in DOMAIN s : Pinnable(s[i])}) ELSE flow

\* Mutant of Clamped: the slide is kept whatever becomes of the blocks.
Unclamped(r) == r.slide

Clamped(r) ==
    LET n == Slides(r)
    IN  IF r.surface = "slides" /\ n > 0 /\ r.slide >= n THEN n - 1 ELSE r.slide

-----------------------------------------------------------------------------
(***************************************************************************)
(* The effects of a render.                                                *)
(***************************************************************************)

\* The effect that seeds a pane that is still empty is the later of the two.
Pinned(r) ==
    LET seen == Visible(r)
        plots == PlotAnchors(seen)
    IN  IF r.surface # "scroll" THEN ""
        ELSE IF r.pinned = "" /\ plots # {} THEN FirstPlot(seen)
        ELSE IF r.active \in plots THEN r.active ELSE r.pinned

\* Mutant of Unfired: the resets that are active.
ActiveResets(r) ==
    {b \in Range(Visible(r)) :
        r.surface = "scroll" /\ r.active # "" /\ b.kind = "state_reset" /\ b.anchor = r.active}

Unfired(r) ==
    {b \in Range(Visible(r)) :
        /\ r.surface = "scroll" /\ r.active # "" /\ b.kind = "state_reset"
        /\ b.anchor = r.active /\ b.id \notin r.fired}

Shown(r) ==
    LET firing == {b.id : b \in Unfired(r)}
        flipped == (r.layer = "intuition") # (rd.layer = "intuition")
    IN  /\ rd' = [r EXCEPT !.pinned = Pinned(r), !.fired = @ \cup firing,
                           !.slide = Clamped(r),
                           !.toggled = IF flipped \/ r.surface # "scroll"
                                       THEN {} ELSE @ \cap RunKeys(r)]
        /\ resets' = [i \in DOMAIN resets |->
             IF r.surface # rd.surface THEN 0
             ELSE IF i \in firing THEN resets[i] + 1 ELSE resets[i]]

Unscrolled(r) == [r EXCEPT !.active = "", !.pinned = "", !.fired = {}, !.toggled = {}]

\* The page opens scrolled to its top.
ReaderInit ==
    \E d \in Docs, w \in BOOLEAN, l \in {"intuition", "both"} :
    LET top == [doc |-> d, surface |-> "scroll", layer |-> l, wide |-> w,
                picks |-> [a \in Decisions(d) |-> NoPick],
                active |-> "", pinned |-> "", fired |-> {}, toggled |-> {},
                slide |-> 0, lang |-> "python", hasR |-> FALSE]
    IN  /\ rd = [top EXCEPT !.pinned = Pinned(top)]
        /\ resets = [i \in Ids(d) |-> 0]

-----------------------------------------------------------------------------
\* The chrome offers the layers only where there is a formal one; the layer
\* that was chosen on another topic stays all the same.
SetLayer(l) ==
    /\ rd.doc.layered /\ l # rd.layer
    /\ Shown([rd EXCEPT !.layer = l])

Resize == Shown([rd EXCEPT !.wide = ~@])

\* The anchors' observer.
ScrollTo(a) ==
    /\ rd.surface = "scroll" /\ a \in Sentinels(rd) \ {rd.active}
    /\ Shown([rd EXCEPT !.active = a])

\* A decision here, "choose again", or a pull from another device.
Pick(a, o) == o # rd.picks[a] /\ Shown([rd EXCEPT !.picks[a] = o])

ToggleRun(key) ==
    /\ rd.surface = "scroll" /\ key \in RunKeys(rd)
    /\ rd' = [rd EXCEPT !.toggled = SymDiff(@, {key})]
    /\ UNCHANGED resets

ChangeSurface(s) ==
    s # rd.surface /\ Shown(Unscrolled([rd EXCEPT !.surface = s]))

\* The arrow keys and the space bar, and the arrows of the chrome.
CanPrev == rd.slide > 0
CanNext == rd.slide + 1 < Slides(rd)
Turn(step) ==
    /\ rd.surface = "slides"
    /\ IF step < 0 THEN CanPrev ELSE CanNext
    /\ Shown([rd EXCEPT !.slide = @ + step])

\* The dots of the chrome, one for each slide.
Goto(i) ==
    /\ rd.surface = "slides" /\ i + 1 \in 1 .. Slides(rd) /\ i # rd.slide
    /\ Shown([rd EXCEPT !.slide = i])

SetLang(l) == l # rd.lang /\ Shown([rd EXCEPT !.lang = l])

\* The probe of the session answers; a failure says no.
Capable == ~rd.hasR /\ Shown([rd EXCEPT !.hasR = TRUE])

ReaderNext ==
    \/ \E l \in {"intuition", "formal", "both"} : SetLayer(l)
    \/ Resize
    \/ \E a \in Sentinels(rd) : ScrollTo(a)
    \/ \E a \in DOMAIN rd.picks, o \in Choice \cup {NoPick} : Pick(a, o)
    \/ \E key \in RunKeys(rd) : ToggleRun(key)
    \/ \E s \in {"scroll", "slides"} : ChangeSurface(s)
    \/ \E step \in {-1, 1} : Turn(step)
    \/ \E i \in 0 .. Slides(rd) : Goto(i)
    \/ \E l \in {"python", "r"} : SetLang(l)
    \/ Capable

ReaderSpec == ReaderInit /\ [][ReaderNext]_readerVars

-----------------------------------------------------------------------------
(***************************************************************************)
(* What the reader promises.                                               *)
(***************************************************************************)

\* Pairing and folding neither lose, double nor move a block: what the page
\* renders, run by run and pair by pair, is the visible blocks in order.
AllRendered ==
    LET page == Page(rd)
        items == FlattenSeq([i \in DOMAIN page |-> page[i].items])
    IN  FlattenSeq(items) = Visible(rd)

\* A pair always has a variant to run, also while the R tab is hidden
\* (CodePairRenderer.tsx:36 "Falls back to the first shown variant").
PairCanRun ==
    \A item \in Range(Grouped(Visible(rd))) : IsPair(item) => ActiveVariants(item, rd) # <<>>

\* Scrolling back, picking, resizing and changing layer never fire a
\* state_reset again (ScrollReader.tsx:478 "so a back-scroll doesn't keep
\* firing").
ResetOnce == \A i \in DOMAIN resets : resets[i] <= 1

\* The slide of the page's chrome is one that exists, whatever a layer or a
\* decision took away (SlideView.tsx:160).
SlideExists == rd.surface = "slides" /\ Slides(rd) > 0 => rd.slide < Slides(rd)

\* What a reader sees: every block once, a variant to run, no state that is
\* reset twice, and a slide that exists.
ReaderHolds == AllRendered /\ PairCanRun /\ ResetOnce /\ SlideExists
=============================================================================
