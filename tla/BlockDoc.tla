------------------------------- MODULE BlockDoc -------------------------------
(***************************************************************************)
(* The block editor of a fork (BlockListEditor.tsx, BlockCard.tsx, the     *)
(* forms) over the segments that contentDoc.ts cuts a source into.  A      *)
(* source is a sequence of tokens: the heads and tails of directives, the  *)
(* ticks of a fence and its language, layer markers, blank lines, text.    *)
(***************************************************************************)
EXTENDS Naturals, SequencesExt

CONSTANTS
    Texts,   \* the sources an editing begins with
    Typed,     \* what is typed or pasted into prose
    Snippets,  \* what the toolbar and the plot picker insert
    Bodies,    \* what is typed into the body field of a form
    MaxEdits   \* bound on edits

VARIABLES
    segs,    \* segments
    value,   \* the source as the parent has it
    cursor,  \* activeIndex, 0 for null
    typing,  \* the segment whose field has the focus, 0 for none
    form,    \* the card that is expanded, 0 for none, and its form's state
    edits    \* the bound's counter

docVars == <<segs, value, cursor, typing, form, edits>>

Tok(k, v) == [k |-> k, v |-> v]
\* The heads that the editor knows, one that only the importer knows, and one
\* that neither does; and the layer that a head names, "" for none.
Heads == {"single", "code", "multi", "quiz", "unknown"}
Layers == {"", "both", "formal"}
Close == Tok("close", "")
Fence == Tok("tick", "")
Lang == Tok("lang", "")
Gap == Tok("gap", "")
Rule == Tok("rule", "")
Mark == Tok("mark", "formal")
Token == {Close, Fence, Lang, Gap, Rule, Mark}
         \cup {Tok(h, l) : h \in Heads, l \in Layers} \cup {Tok("text", v) : v \in {"a", "b"}}

ASSUME DocAssumption ==
    /\ Texts \cup Typed \cup Snippets \cup Bodies \subseteq Seq(Token)
    /\ MaxEdits \in Nat

-----------------------------------------------------------------------------
(***************************************************************************)
(* parseDoc                                                                *)
(***************************************************************************)

\* The least of the indices found, 0 when there is none.
First(found) == IF found = {} THEN 0 ELSE Min(found)

\* Mutant of CodeEnd: the closing tick is left out.
CodeEndShort(d, i) ==
    LET fence == First({j \in i + 1 .. Len(d) : d[j] = Fence /\ j < Len(d) /\ d[j + 1] = Lang})
    IN IF fence = 0 THEN 0 ELSE First({j \in fence + 2 .. Len(d) : d[j] = Fence})

\* The first index after the fence that closes the code of the head at i.
CodeEnd(d, i) ==
    LET fence == First({j \in i + 1 .. Len(d) : d[j] = Fence /\ j < Len(d) /\ d[j + 1] = Lang})
        tick == IF fence = 0 THEN 0 ELSE First({j \in fence + 2 .. Len(d) : d[j] = Fence})
    IN IF tick = 0 THEN 0 ELSE tick + 1

\* The index after the directive whose head is at i, 0 when it is none.
EndOf(d, i) ==
    CASE d[i].k = "single" -> i + 1
      [] d[i].k = "code" -> CodeEnd(d, i)
      [] d[i].k = "multi" -> LET c == First({j \in i + 1 .. Len(d) : d[j] = Close})
                             IN IF c = 0 THEN 0 ELSE c + 1
      [] OTHER -> 0

Prose(raw) == [kind |-> "prose", type |-> "", layer |-> "", raw |-> raw]
Directive(raw) == [kind |-> "directive", type |-> raw[1].k, layer |-> raw[1].v, raw |-> raw]

\* Mutant of SplitProse: what follows the last marker is dropped.
SplitProseShort(s) ==
    LET marks == {i \in 1 .. Len(s) : s[i] = Mark}
    IN IF marks = {} THEN IF s = <<>> THEN <<>> ELSE <<Prose(s)>>
       ELSE (IF Min(marks) > 1 THEN <<Prose(SubSeq(s, 1, Min(marks) - 1))>> ELSE <<>>)
            \o <<Directive(<<Mark>>)>>

\* The segments with one token more of their source: a marker is one of its
\* own, and what stands between two markers is one.
SplitOneMore(out, t) ==
    IF t = Mark THEN Append(out, Directive(<<t>>))
    ELSE IF out # <<>> /\ Last(out).kind = "prose"
         THEN Append(Front(out), Prose(Append(Last(out).raw, t)))
    ELSE Append(out, Prose(<<t>>))

SplitProse(s) ==
    LET split[k \in 0 .. Len(s)] ==
            IF k = 0 THEN <<>> ELSE SplitOneMore(split[k - 1], s[k])
    IN split[Len(s)]

parseDoc(d) ==
    LET from[p \in 1 .. Len(d) + 1] ==
            LET i == First({j \in p .. Len(d) : EndOf(d, j) # 0})
            IN IF i = 0 THEN SplitProse(SubSeq(d, p, Len(d)))
               ELSE SplitProse(SubSeq(d, p, i - 1))
                    \o <<Directive(SubSeq(d, i, EndOf(d, i) - 1))>>
                    \o from[EndOf(d, i)]
    IN from[1]

serializeDoc(s) == FlattenSeq([i \in DOMAIN s |-> s[i].raw])

\* Mutant of replaceSegmentRaw: the span is not cut again.
replaceSegmentWhole(s, i, raw) == [s EXCEPT ![i].raw = raw]

\* The edited span is cut again, into any number of segments.
replaceSegmentRaw(s, i, raw) ==
    SubSeq(s, 1, i - 1) \o parseDoc(raw) \o SubSeq(s, i + 1, Len(s))

insertSegmentAt(s, i, raw) ==
    SubSeq(s, 1, i - 1) \o parseDoc(raw) \o SubSeq(s, i, Len(s))

\* moveSegment and moveTo.
moveSegment(s, i, j) == InsertAt(RemoveAt(s, i), j, s[i])

\* setLayerAttr on the first head, be it the segment's own or not: the layer
\* "both" is written as none.
setLayerAttr(raw, l) ==
    LET h == First({j \in 1 .. Len(raw) : raw[j].k \in Heads})
    IN IF h = 0 THEN raw ELSE [raw EXCEPT ![h].v = IF l = "both" THEN "" ELSE l]

\* The layer that a card shows for the one that its head names.
LayerShown(l) == IF l = "" THEN "both" ELSE l

-----------------------------------------------------------------------------
NoForm == [at |-> 0, type |-> "", body |-> <<>>]

\* What lies between the head and the tail of a directive with a body.
BodyOf(raw) == LET c == First({j \in 2 .. Len(raw) : raw[j] = Close})
               IN IF c = 0 THEN <<>> ELSE SubSeq(raw, 2, c - 1)

DocTypeOK ==
    /\ segs \in Seq([kind : {"prose", "directive"}, type : Heads \cup {"", "mark"},
                     layer : Layers, raw : Seq(Token)])
    /\ value \in Seq(Token)
    /\ cursor \in Nat /\ typing \in Nat
    /\ form \in [at : Nat, type : Heads \cup {""}, body : Seq(Token)]
    /\ edits \in 0 .. MaxEdits

DocInit ==
    /\ value \in Texts
    /\ segs = parseDoc(value)
    /\ cursor = 0 /\ typing = 0
    /\ form = NoForm
    /\ edits = 0

\* Mutant of FormAfter: the card of a layer marker has a form.
FormAfterMark(f, s) ==
    IF f.at = 0 \/ f.at > Len(s) \/ s[f.at].kind = "prose" THEN NoForm
    ELSE IF s[f.at].type = f.type THEN f
    ELSE [at |-> f.at, type |-> s[f.at].type, body |-> BodyOf(s[f.at].raw)]

\* A card keeps its place in the list and not its segment: the form stays
\* as it is while a directive of its type is at its place.
FormAfter(f, s) ==
    IF f.at = 0 \/ f.at > Len(s) \/ s[f.at].kind = "prose" THEN NoForm
    ELSE IF s[f.at].type = f.type THEN f
    ELSE IF s[f.at].type = "mark" THEN NoForm
    ELSE [at |-> f.at, type |-> s[f.at].type, body |-> BodyOf(s[f.at].raw)]

Emit(next) ==
    /\ edits < MaxEdits /\ edits' = edits + 1
    /\ segs' = next
    /\ value' = serializeDoc(next)

IsSpacer(seg) == seg.kind = "prose" /\ \A t \in ToSet(seg.raw) : t = Gap

\* The focus in a prose field, typing, and the blur that cuts it again.
FocusProse ==
    /\ typing = 0
    /\ \E i \in DOMAIN segs : /\ segs[i].kind = "prose" /\ ~ IsSpacer(segs[i])
                              /\ typing' = i /\ cursor' = i
    /\ UNCHANGED <<segs, value, form, edits>>

TypeProse ==
    /\ typing # 0 /\ segs[typing].kind = "prose"
    /\ \E raw \in Typed : Emit([segs EXCEPT ![typing] = Prose(raw)])
    /\ UNCHANGED <<cursor, typing, form>>

\* The blur of a prose field or of a form: commitSegment.
Blur ==
    /\ typing # 0
    /\ segs' = replaceSegmentRaw(segs, typing, segs[typing].raw)
    /\ value' = serializeDoc(segs')
    /\ typing' = 0
    /\ form' = FormAfter(form, segs')
    /\ UNCHANGED <<cursor, edits>>

ExpandCard ==
    /\ typing = 0 /\ form = NoForm
    /\ \E i \in DOMAIN segs :
          /\ segs[i].kind = "directive" /\ segs[i].type \in {"multi", "single"}
          /\ form' = [at |-> i, type |-> segs[i].type, body |-> BodyOf(segs[i].raw)]
    /\ UNCHANGED <<segs, value, cursor, typing, edits>>

CollapseCard ==
    /\ typing = 0 /\ form # NoForm
    /\ form' = NoForm
    /\ UNCHANGED <<segs, value, cursor, typing, edits>>

\* Mutant of Emitted: what the form emits has no layer.
EmittedBare(body, l) == <<Tok("multi", "")>> \o body \o <<Close>>

\* What a form emits, and the card's layer put into it.
Emitted(body, l) == setLayerAttr(<<Tok("multi", "")>> \o body \o <<Close>>, LayerShown(l))

\* A field of the form: it emits all of the form's own state, in place.
EditForm ==
    /\ form.type = "multi" /\ typing \in {0, form.at}
    /\ \E body \in Bodies :
          LET raw == Emitted(body, segs[form.at].layer)
          IN /\ Emit([segs EXCEPT ![form.at].raw = raw])
             /\ form' = [form EXCEPT !.body = body]
    /\ typing' = form.at
    /\ UNCHANGED cursor

\* The layer selector of the expanded card.
SetBlockLayer ==
    /\ typing = 0 /\ form # NoForm
    /\ \E l \in {"both", "formal"} \ {LayerShown(segs[form.at].layer)} :
          LET raw == setLayerAttr(segs[form.at].raw, l)
          IN /\ Emit(replaceSegmentRaw(segs, form.at, raw))
             /\ form' = FormAfter(form, segs')
    /\ UNCHANGED <<cursor, typing>>

\* The arrows of a card.
MoveCard ==
    /\ typing = 0
    /\ \E i, j \in DOMAIN segs : /\ segs[i].kind = "directive" /\ j \in {i - 1, i + 1}
                                /\ Emit(moveSegment(segs, i, j))
    /\ form' = FormAfter(form, segs')
    /\ UNCHANGED <<cursor, typing>>

\* Dragging a row onto another: it comes to stand before that one.
DragRow ==
    /\ typing = 0
    /\ \E i, j \in DOMAIN segs :
          /\ i # j /\ ~ IsSpacer(segs[i]) /\ ~ IsSpacer(segs[j])
          /\ Emit(moveSegment(segs, i, IF i < j THEN j - 1 ELSE j))
    /\ form' = FormAfter(form, segs')
    /\ UNCHANGED <<cursor, typing>>

RemoveCard ==
    /\ typing = 0
    /\ \E i \in DOMAIN segs : /\ segs[i].kind = "directive"
                              /\ Emit(RemoveAt(segs, i))
    /\ form' = FormAfter(form, segs')
    /\ UNCHANGED <<cursor, typing>>

\* insertSnippet: after the cursor segment or at the end, a blank line apart.
InsertSnippet ==
    /\ typing = 0
    /\ \E raw \in Snippets :
          LET n == Len(segs)
              at == IF cursor = 0 \/ cursor >= n THEN n + 1 ELSE cursor + 1
              apart == IF at = 1 \/ Last(segs[at - 1].raw) = Gap THEN segs
                       ELSE [segs EXCEPT ![at - 1].raw = Append(@, Gap)]
          IN /\ Emit(insertSegmentAt(apart, at, Append(raw, Gap)))
             /\ cursor' = at
    /\ form' = FormAfter(form, segs')
    /\ UNCHANGED typing

\* The parent loads the fork again; the cards stay.
Reload ==
    /\ typing = 0
    /\ edits < MaxEdits /\ edits' = edits + 1
    /\ \E d \in Texts \ {value} : value' = d /\ segs' = parseDoc(d)
    /\ form' = FormAfter(form, segs')
    /\ UNCHANGED <<cursor, typing>>

\* To Source mode and back: the list is mounted anew, over what was typed.
SourceMode ==
    /\ typing = 0
    /\ edits < MaxEdits /\ edits' = edits + 1
    /\ value' \in Texts \cup {value} /\ segs' = parseDoc(value')
    /\ cursor' = 0 /\ form' = NoForm
    /\ UNCHANGED typing

DocNext ==
    \/ FocusProse \/ TypeProse \/ Blur \/ ExpandCard \/ CollapseCard \/ EditForm
    \/ SetBlockLayer \/ MoveCard \/ DragRow \/ RemoveCard \/ InsertSnippet
    \/ Reload \/ SourceMode

DocSpec == DocInit /\ [][DocNext]_docVars

-----------------------------------------------------------------------------
(***************************************************************************)
(* What the editor promises (contentDoc.ts:4-15).                          *)
(***************************************************************************)

\* Cutting a source and joining the segments gives the source back, whatever
\* the edits have made of it: "serializeDoc(parseDoc(x)) === x".
RoundTrip == serializeDoc(parseDoc(value)) = value

\* Outside the field that has the focus nothing that is shown as prose is a
\* directive: a pasted one becomes a card when the field is left.
ProseIsProse ==
    \A i \in DOMAIN segs \ {typing} :
        segs[i].kind = "prose" => parseDoc(segs[i].raw) = <<segs[i]>>

\* The directives of a list of segments, blank lines after them aside.
WithoutGaps(raw) ==
    SubSeq(raw, 1, Max({0} \cup {i \in DOMAIN raw : raw[i] # Gap}))
Directives(s) ==
    FlattenSeq([i \in DOMAIN s |->
                   IF s[i].kind = "directive" THEN <<WithoutGaps(s[i].raw)>> ELSE << >>])

\* Unless prose holds a head that nothing closes in its own segment, whoever
\* opens the source again is shown the cards that the editor shows.
ReparseAgrees ==
    (typing = 0 /\ \A i \in DOMAIN segs :
        segs[i].kind = "prose" => \A t \in ToSet(segs[i].raw) : t.k \notin Heads)
    => Directives(parseDoc(value)) = Directives(segs)

\* The layer that a card shows is the one its source has, after any edit of
\* its form.
LayerIsOfRaw ==
    \A i \in DOMAIN segs :
        segs[i].kind = "directive"
        => LayerShown(segs[i].layer) = LayerShown(segs[i].raw[1].v)

\* A form shows the block that its next edit rewrites: "editing one block
\* rewrites only that segment" (contentDoc.ts:11).
FormShowsItsBlock == form # NoForm => BodyOf(segs[form.at].raw) = form.body

=============================================================================
