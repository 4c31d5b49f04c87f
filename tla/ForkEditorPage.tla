---------------------------- MODULE ForkEditorPage ----------------------------
(***************************************************************************)
(* The fork editor (ForkEditor.tsx): the draft and the text it believes is *)
(* saved, the loads, the preview that follows the typing, saving and       *)
(* suggesting, with every reply on its own way back.                       *)
(*                                                                         *)
(* The preview effect runs after each render whose dependencies changed,   *)
(* so that an action says what it makes of the state and Render adds what  *)
(* the effect does to the timer.                                           *)
(***************************************************************************)
EXTENDS Naturals, FiniteSets

CONSTANTS
    Text,         \* sources the author may write
    Blank,        \* the empty source of a page that has loaded nothing
    Warns,        \* the sources that the parser warns of
    Blocks,       \* Blocks[t]: how many blocks a source has
    NoText,
    MaxLoads, MaxPreviews, MaxSaves   \* bounds on requests

ASSUME EditorAssumption ==
    /\ Blank \notin Text /\ NoText \notin Text \cup {Blank}
    /\ Warns \subseteq Text
    /\ Blocks \in [Text \cup {Blank} -> Nat] /\ Blocks[Blank] = 0
    /\ MaxLoads \in Nat \ {0}    \* the page may open with one
    /\ MaxPreviews \in Nat /\ MaxSaves \in Nat

VARIABLES
    ed,        \* component state
    timer,     \* previewTimer is set, for the source of the last render
    loads,     \* loads in flight, with what the server read for them
    previews,  \* previews in flight
    save,      \* the save in flight: its text, and whether it was stored
    suggest,   \* a suggestion is in flight
    stored,    \* the fork's markdown_source
    requests,      \* requests sent of each kind
    late,      \* history: a load answered that a save had overtaken
    proposed   \* history: the last source that was suggested

editorVars ==
    <<ed, timer, loads, previews, save, suggest, stored, requests, late, proposed>>

Source == Text \cup {Blank}
NoSave == [text |-> NoText, stored |-> FALSE]

EditorTypeOK ==
    /\ ed \in [source : Source, saved : Source, drawn : Source, warned : BOOLEAN,
               loading : BOOLEAN, failed : BOOLEAN, token : BOOLEAN]
    /\ timer \in BOOLEAN
    /\ loads \subseteq [n : 1 .. MaxLoads, read : Source \cup {NoText}]
    /\ previews \subseteq [n : 1 .. MaxPreviews, text : Source]
    /\ save \in [text : Source \cup {NoText}, stored : BOOLEAN]
    /\ suggest \in BOOLEAN
    /\ stored \in Source
    /\ requests \in [load : 0 .. MaxLoads, preview : 0 .. MaxPreviews, save : 0 .. MaxSaves]
    /\ late \in BOOLEAN
    /\ proposed \in Source \cup {NoText}

\* The page opens signed out, behind its gate, or signed in, with a load.
EditorInit ==
    \E signedIn \in BOOLEAN :
    /\ ed = [source |-> Blank, saved |-> Blank, drawn |-> Blank, warned |-> FALSE,
             loading |-> signedIn, failed |-> FALSE, token |-> signedIn]
    /\ timer = ~signedIn
    /\ loads = IF signedIn THEN {[n |-> 1, read |-> NoText]} ELSE {}
    /\ requests = [load |-> IF signedIn THEN 1 ELSE 0, preview |-> 0, save |-> 0]
    /\ previews = {} /\ save = NoSave /\ suggest = FALSE
    /\ stored \in Text
    /\ late = FALSE /\ proposed = NoText

-----------------------------------------------------------------------------
(***************************************************************************)
(* The preview effect.                                                     *)
(***************************************************************************)

Deps(e) == <<e.source, e.saved, e.loading, e.failed, Blocks[e.drawn]>>

WantsPreview(e) ==
    ~e.loading /\ ~e.failed /\ ~(e.source = e.saved /\ Blocks[e.drawn] > 0)

Render(e) ==
    /\ ed' = e
    /\ timer' = IF Deps(e) = Deps(ed) THEN timer ELSE WantsPreview(e)

TimerFires ==
    /\ timer /\ requests.preview < MaxPreviews
    /\ timer' = FALSE
    /\ requests' = [requests EXCEPT !.preview = @ + 1]
    /\ previews' = previews \cup {[n |-> requests.preview + 1, text |-> ed.source]}
    /\ UNCHANGED <<ed, loads, save, suggest, stored, late, proposed>>

\* Any preview's answer is drawn, whatever was typed or asked since.
PreviewAnswers(p) ==
    /\ p \in previews
    /\ previews' = previews \ {p}
    /\ Render([ed EXCEPT !.drawn = p.text, !.warned = p.text \in Warns])
    /\ UNCHANGED <<loads, save, suggest, stored, requests, late, proposed>>

PreviewFails(p) ==
    /\ p \in previews
    /\ previews' = previews \ {p}
    /\ UNCHANGED <<ed, timer, loads, save, suggest, stored, requests, late, proposed>>

-----------------------------------------------------------------------------
(***************************************************************************)
(* Loading: when the token lands, and when the user's record is replaced.  *)
(***************************************************************************)

StartLoad(e) ==
    /\ requests.load < MaxLoads
    /\ requests' = [requests EXCEPT !.load = @ + 1]
    /\ loads' = loads \cup {[n |-> requests.load + 1, read |-> NoText]}
    /\ Render([e EXCEPT !.loading = TRUE, !.failed = FALSE])
    /\ UNCHANGED <<previews, save, suggest, stored, late, proposed>>

TokenLands == ~ed.token /\ StartLoad([ed EXCEPT !.token = TRUE])
UserReplaced == ed.token /\ StartLoad(ed)

SourceRead(l) ==
    /\ l \in loads /\ l.read = NoText
    /\ loads' = (loads \ {l}) \cup {[l EXCEPT !.read = stored]}
    /\ UNCHANGED <<ed, timer, previews, save, suggest, stored, requests, late, proposed>>

SourceAnswers(l) ==
    /\ l \in loads /\ l.read # NoText
    /\ loads' = loads \ {l}
    /\ late' = (late \/ l.read # stored \/ save # NoSave)
    /\ Render([ed EXCEPT !.source = l.read, !.saved = l.read, !.drawn = l.read,
                         !.loading = FALSE])
    /\ UNCHANGED <<previews, save, suggest, stored, requests, proposed>>

\* Not found, not the owner's, or a network error.
SourceFails(l) ==
    /\ l \in loads
    /\ loads' = loads \ {l}
    /\ Render([ed EXCEPT !.failed = TRUE, !.loading = FALSE])
    /\ UNCHANGED <<previews, save, suggest, stored, requests, late, proposed>>

-----------------------------------------------------------------------------
(***************************************************************************)
(* Writing, saving, suggesting.                                            *)
(***************************************************************************)

Editable == ed.token /\ ~ed.loading /\ ~ed.failed
Dirty == ed.source # ed.saved

Type(t) ==
    /\ Editable /\ t # ed.source
    /\ Render([ed EXCEPT !.source = t])
    /\ UNCHANGED <<loads, previews, save, suggest, stored, requests, late, proposed>>

\* handleSave: the button needs a change, Ctrl-S needs only a page whose user
\* is known, and works behind the skeleton and the error too.
Save ==
    /\ ed.token /\ save = NoSave /\ requests.save < MaxSaves
    /\ requests' = [requests EXCEPT !.save = @ + 1]
    /\ save' = [text |-> ed.source, stored |-> FALSE]
    /\ UNCHANGED <<ed, timer, loads, previews, suggest, stored, late, proposed>>

SaveStored ==
    /\ save # NoSave /\ ~save.stored
    /\ stored' = save.text
    /\ save' = [save EXCEPT !.stored = TRUE]
    /\ UNCHANGED <<ed, timer, loads, previews, suggest, requests, late, proposed>>

\* Mutant of SavedText: what is on the screen when the reply comes.
SavedTextNow == ed.source

\* The source in handleSave's closure.
SavedText == save.text

SaveAnswers ==
    /\ save.stored
    /\ save' = NoSave
    /\ Render([ed EXCEPT !.saved = SavedText, !.drawn = save.text])
    /\ UNCHANGED <<loads, previews, suggest, stored, requests, late, proposed>>

\* Refused, or the answer is lost: the page becomes its error.
SaveFails ==
    /\ save # NoSave
    /\ save' = NoSave
    /\ Render([ed EXCEPT !.failed = TRUE])
    /\ UNCHANGED <<loads, previews, suggest, stored, requests, late, proposed>>

\* handleSuggest; the server takes what it has stored.
Suggest ==
    /\ Editable /\ ~suggest /\ ~Dirty /\ ~ed.warned
    /\ suggest' = TRUE
    /\ proposed' = stored
    /\ UNCHANGED <<ed, timer, loads, previews, save, stored, requests, late>>

SuggestAnswers ==
    /\ suggest
    /\ suggest' = FALSE
    /\ UNCHANGED <<ed, timer, loads, previews, save, stored, requests, late, proposed>>

SuggestFails ==
    /\ suggest
    /\ suggest' = FALSE
    /\ Render([ed EXCEPT !.failed = TRUE])
    /\ UNCHANGED <<loads, previews, save, stored, requests, late, proposed>>

EditorAnswers ==
    \/ \E l \in loads : SourceRead(l) \/ SourceAnswers(l) \/ SourceFails(l)
    \/ SaveStored \/ SaveAnswers \/ SaveFails

EditorNext ==
    \/ TimerFires
    \/ \E p \in previews : PreviewAnswers(p) \/ PreviewFails(p)
    \/ TokenLands \/ UserReplaced
    \/ \E t \in Text : Type(t)
    \/ Save \/ Suggest \/ SuggestAnswers \/ SuggestFails
    \/ EditorAnswers

EditorSpec == EditorInit /\ [][EditorNext]_editorVars /\ WF_editorVars(EditorAnswers)

-----------------------------------------------------------------------------
(***************************************************************************)
(* What the editor promises.                                               *)
(***************************************************************************)

\* A page that says nothing is unsaved is right: what it shows is what the
\* server has and would take as a suggestion (ForkEditor.tsx:185), once no
\* save is under way and unless a load that a save had overtaken answered.
CleanIsStored ==
    Editable /\ ~Dirty /\ save = NoSave /\ ~late => ed.source = stored

\* "Parse warnings gate the Suggest action" (ForkEditor.tsx:404): what is
\* suggested has no warnings.
SuggestedIsClean == proposed \notin Warns

\* What is stored was written by the author or was there before: no save
\* puts the empty source of an unloaded page over a fork.
NeverBlanked == stored # Blank
=============================================================================
