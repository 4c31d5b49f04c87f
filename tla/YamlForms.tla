------------------------------ MODULE YamlForms ------------------------------
(***************************************************************************)
(* The forms of decisions and playgrounds (blockForms/forms.tsx over       *)
(* blockForms/yaml.ts): the body of the block is lines of YAML, a form     *)
(* parses them once, when it is opened, and each of its edits writes all   *)
(* of them again.                                                          *)
(*                                                                         *)
(* A line is its indentation, a key and a value.  The key "text" is of a   *)
(* line of prose, and "" of one without a character.                       *)
(***************************************************************************)
EXTENDS Integers, Sequences

CONSTANTS
    Written,     \* bodies an author wrote by hand: decisions and playgrounds
    Passages,       \* what is typed into a text field: sequences of lines
    Entry,        \* what is typed into a one-line field, "" among them
    MaxTyped     \* bound: edits

ASSUME YamlAssumption == "" \in Entry /\ << >> \in Passages /\ MaxTyped \in Nat

VARIABLES
    kind,      \* "decision" or "playground"
    body,      \* the body of the segment
    model,     \* what the form has parsed, Unread in raw mode
    typed      \* edits made

yamlVars == <<kind, body, model, typed>>

Unread == [read |-> FALSE]
YamlLine(pad, key, val) == [pad |-> pad, key |-> key, val |-> val]
BlankLine(line) == line.key = ""

-----------------------------------------------------------------------------
(***************************************************************************)
(* Lines.                                                                  *)
(***************************************************************************)

\* indent; a text without a line is one of blanks.
Indented(text, n) == IF text = << >> THEN <<YamlLine(n, "", "")>>
                     ELSE [k \in DOMAIN text |-> [text[k] EXCEPT !.pad = @ + n]]

\* What ends a literal block: a line that is indented less.
BlockEnd(lines, start, pad) ==
    LET out == {i \in start .. Len(lines) : ~BlankLine(lines[i]) /\ lines[i].pad < pad}
    IN  IF out = {} THEN Len(lines) + 1 ELSE CHOOSE i \in out : \A j \in out : i <= j

\* Mutant of LastLine: blanks at the end are kept, the empty text among them.
LastLineBlank(lines, start, end) == end - 1

\* Blanks at the end of a block are dropped.
LastLine(lines, start, end) ==
    LET solid == {i \in start .. end - 1 : ~BlankLine(lines[i])}
    IN  IF solid = {} THEN start - 1 ELSE CHOOSE i \in solid : \A j \in solid : j <= i

\* takeBlock: the text and the place after it.
TakeBlock(lines, start, pad) ==
    LET end == BlockEnd(lines, start, pad)
        text == SubSeq(lines, start, LastLine(lines, start, end))
    IN  [text |-> [k \in DOMAIN text |-> IF BlankLine(text[k]) THEN YamlLine(0, "", "")
                                         ELSE [text[k] EXCEPT !.pad = @ - pad]],
         next |-> end]

\* dq writes JSON, and stripQuotes takes the quotes off without reading it:
\* a quote inside comes back with a backslash, which doubles the next time.
Reread(w) == IF w = "quote" THEN "escape" ELSE IF w = "escape" THEN "escapes" ELSE w

\* A number bare, anything else quoted; either way it is read as it was.
Rows(rows) == SelectSeq(rows, LAMBDA row : row[1] # "")

-----------------------------------------------------------------------------
(***************************************************************************)
(* A decision: question, options, correct.                                 *)
(***************************************************************************)

Id(o) == IF o.id = "" THEN "opt" ELSE o.id
EmitOption(o) ==
    <<YamlLine(2, "id", Id(o)), YamlLine(4, "label", Reread(o.label))>>
    \o (IF Rows(o.writes) = << >> THEN << >> ELSE <<YamlLine(4, "writes", Rows(o.writes))>>)
    \o <<YamlLine(4, "response", "|")>> \o Indented(o.response, 6)

Joined(f, n) == LET j[k \in 0 .. n] == IF k = 0 THEN << >> ELSE j[k - 1] \o f[k] IN j[n]

Correct(m) == IF m.correct # "" THEN m.correct
              ELSE IF m.options = << >> THEN "" ELSE m.options[1].id
EmitDecisionBody(m) ==
    <<YamlLine(0, "question", "|")>> \o Indented(m.question, 2) \o <<YamlLine(0, "options", "")>>
    \o Joined([k \in DOMAIN m.options |-> EmitOption(m.options[k])], Len(m.options))
    \o <<YamlLine(0, "correct", Correct(m))>>

NewOption(id) == [id |-> id, label |-> "", writes |-> << >>, response |-> << >>]

RECURSIVE ReadOption(_, _, _), ReadDecision(_, _, _, _)

\* The lines of one option, up to the next, `correct`, or one it does not know.
ReadOption(lines, i, o) ==
    IF i > Len(lines) THEN [o |-> o, next |-> i]
    ELSE LET l == lines[i]
         IN  CASE l.key = "label" -> ReadOption(lines, i + 1, [o EXCEPT !.label = l.val])
               [] l.key = "writes" -> ReadOption(lines, i + 1, [o EXCEPT !.writes = l.val])
               [] l.key = "response" ->
                    LET b == TakeBlock(lines, i + 1, 6)
                    IN  ReadOption(lines, b.next, [o EXCEPT !.response = b.text])
               [] BlankLine(l) -> ReadOption(lines, i + 1, o)
               [] OTHER -> [o |-> o, next |-> i]

\* A line nothing knows is passed over.
ReadDecision(lines, i, saw, m) ==
    IF i > Len(lines) THEN IF saw /\ m.options # << >> THEN m ELSE Unread
    ELSE LET l == lines[i]
         IN  CASE l.key = "question" ->
                    LET b == TakeBlock(lines, i + 1, 2)
                    IN  ReadDecision(lines, b.next, saw, [m EXCEPT !.question = b.text])
               [] l.key = "options" -> ReadDecision(lines, i + 1, TRUE, m)
               [] l.key = "id" /\ saw ->
                    LET r == ReadOption(lines, i + 1, NewOption(l.val))
                    IN  ReadDecision(lines, r.next, saw, [m EXCEPT !.options = Append(@, r.o)])
               [] l.key = "correct" /\ l.val # "" ->
                    ReadDecision(lines, i + 1, saw, [m EXCEPT !.correct = l.val])
               [] OTHER -> ReadDecision(lines, i + 1, saw, m)

ParseDecisionBody(lines) ==
    ReadDecision(lines, 1, FALSE,
                 [read |-> TRUE, question |-> << >>, options |-> << >>, correct |-> ""])

-----------------------------------------------------------------------------
(***************************************************************************)
(* A playground: bound keys, controls and a goal.                          *)
(***************************************************************************)

Ranges == <<"min", "max", "step">>
EmitControl(c) ==
    <<YamlLine(2, "param", IF c.param = "" THEN "param" ELSE c.param),
      YamlLine(4, "label", Reread(c.label))>>
    \o SelectSeq([k \in 1 .. 3 |-> YamlLine(4, Ranges[k], c.range[k])], LAMBDA l : l.val # "")

HasGoal(g) == g.prompt # "" \/ g.success # "" \/ g.message # << >> \/ Rows(g.aim) # << >>
EmitGoal(g) ==
    IF ~HasGoal(g) THEN << >>
    ELSE <<YamlLine(0, "goal", "")>>
         \o (IF g.prompt = "" THEN << >> ELSE <<YamlLine(2, "prompt", Reread(g.prompt))>>)
         \o (IF Rows(g.aim) = << >> THEN << >> ELSE <<YamlLine(2, "target", Rows(g.aim))>>)
         \o (IF g.success = "" THEN << >> ELSE <<YamlLine(2, "success_when", Reread(g.success))>>)
         \o (IF g.message = << >> THEN << >>
             ELSE <<YamlLine(2, "on_success", "|")>> \o Indented(g.message, 4))

EmitPlaygroundBody(m) ==
    (IF m.binds = << >> THEN << >> ELSE <<YamlLine(0, "binds", m.binds)>>)
    \o <<YamlLine(0, "controls", "")>>
    \o Joined([k \in DOMAIN m.controls |-> EmitControl(m.controls[k])], Len(m.controls))
    \o EmitGoal(m.goal)

NewControl(param) == [param |-> param, label |-> "", range |-> <<"", "", "">>]
NoGoal == [prompt |-> "", aim |-> << >>, success |-> "", message |-> << >>]

RECURSIVE ReadControl(_, _, _), ReadGoal(_, _, _), ReadPlayground(_, _, _, _)

\* The lines of a control, up to the next, the goal, or a line at the margin.
ReadControl(lines, i, c) ==
    IF i > Len(lines) THEN [c |-> c, next |-> i]
    ELSE LET l == lines[i]
         IN  CASE l.key \in {"param", "goal"} -> [c |-> c, next |-> i]
               [] l.key = "label" -> ReadControl(lines, i + 1, [c EXCEPT !.label = l.val])
               [] l.key \in {"min", "max", "step"} ->
                    ReadControl(lines, i + 1, [c EXCEPT !.range =
                        [k \in 1 .. 3 |-> IF Ranges[k] = l.key THEN l.val ELSE @[k]]])
               [] OTHER -> IF ~BlankLine(l) /\ l.pad = 0 THEN [c |-> c, next |-> i]
                           ELSE ReadControl(lines, i + 1, c)

\* The lines of the goal, up to one it does not know.
ReadGoal(lines, i, g) ==
    IF i > Len(lines) THEN [g |-> g, next |-> i]
    ELSE LET l == lines[i]
         IN  CASE l.key = "prompt" -> ReadGoal(lines, i + 1, [g EXCEPT !.prompt = l.val])
               [] l.key = "target" -> ReadGoal(lines, i + 1, [g EXCEPT !.aim = l.val])
               [] l.key = "success_when" -> ReadGoal(lines, i + 1, [g EXCEPT !.success = l.val])
               [] l.key = "on_success" ->
                    LET b == TakeBlock(lines, i + 1, 4)
                    IN  ReadGoal(lines, b.next, [g EXCEPT !.message = b.text])
               [] BlankLine(l) -> ReadGoal(lines, i + 1, g)
               [] OTHER -> [g |-> g, next |-> i]

ReadPlayground(lines, i, saw, m) ==
    IF i > Len(lines) THEN IF saw /\ m.controls # << >> THEN m ELSE Unread
    ELSE LET l == lines[i]
         IN  CASE l.key = "binds" -> ReadPlayground(lines, i + 1, saw, [m EXCEPT !.binds = l.val])
               [] l.key = "controls" -> ReadPlayground(lines, i + 1, TRUE, m)
               [] l.key = "param" /\ saw ->
                    LET r == ReadControl(lines, i + 1, NewControl(l.val))
                    IN  ReadPlayground(lines, r.next, saw, [m EXCEPT !.controls = Append(@, r.c)])
               [] l.key = "goal" ->
                    LET r == ReadGoal(lines, i + 1, m.goal)
                    IN  ReadPlayground(lines, r.next, saw, [m EXCEPT !.goal = r.g])
               [] OTHER -> ReadPlayground(lines, i + 1, saw, m)

ParsePlaygroundBody(lines) ==
    ReadPlayground(lines, 1, FALSE,
                   [read |-> TRUE, binds |-> << >>, controls |-> << >>, goal |-> NoGoal])

-----------------------------------------------------------------------------
(***************************************************************************)
(* The forms.                                                              *)
(***************************************************************************)

BodyOfModel(m) == IF kind = "decision" THEN EmitDecisionBody(m) ELSE EmitPlaygroundBody(m)
Parsed(lines) == IF kind = "decision" THEN ParseDecisionBody(lines) ELSE ParsePlaygroundBody(lines)

YamlInit ==
    /\ \E w \in Written : kind = w.kind /\ body = w.body
    /\ model = Parsed(body)
    /\ typed = 0

\* emitM: the form's state and the whole body.
Emits(m) ==
    /\ model.read /\ typed < MaxTyped
    /\ typed' = typed + 1
    /\ model' = m
    /\ body' = BodyOfModel(m)
    /\ UNCHANGED kind

\* A row of writes or of the target: added blank, filled in, removed.
RowEdits(rows) ==
    {Append(rows, <<"", "">>)}
    \cup {[rows EXCEPT ![i] = <<"k", "v">>] : i \in DOMAIN rows}
    \cup {SelectSeq(rows, LAMBDA r : r # rows[i]) : i \in DOMAIN rows}
Without(s, i) == SubSeq(s, 1, i - 1) \o SubSeq(s, i + 1, Len(s))

EditOption(i) ==
    \/ \E w \in Entry : Emits([model EXCEPT !.options[i].id = w])
    \/ \E w \in Entry : Emits([model EXCEPT !.options[i].label = w])
    \/ \E t \in Passages : Emits([model EXCEPT !.options[i].response = t])
    \/ \E rows \in RowEdits(model.options[i].writes) :
         Emits([model EXCEPT !.options[i].writes = rows])
    \/ Emits([model EXCEPT !.options = Without(@, i)])
    \/ Emits([model EXCEPT !.correct = model.options[i].id])

\* A new option is named by the letter after as many as there are.
Letters == <<"a", "b", "c", "d", "e">>
EditDecision ==
    /\ kind = "decision" /\ model.read
    /\ \/ \E t \in Passages : Emits([model EXCEPT !.question = t])
       \/ \E i \in DOMAIN model.options : EditOption(i)
       \/ Emits([model EXCEPT !.options = Append(@, NewOption(Letters[Len(@) + 1]))])

EditControl(i) ==
    \/ \E w \in Entry : Emits([model EXCEPT !.controls[i].param = w])
    \/ \E w \in Entry : Emits([model EXCEPT !.controls[i].label = w])
    \/ \E w \in {"", "5"}, k \in 1 .. 3 : Emits([model EXCEPT !.controls[i].range[k] = w])
    \/ Emits([model EXCEPT !.controls = Without(@, i)])

EditPlayground ==
    /\ kind = "playground" /\ model.read
    /\ \/ \E i \in DOMAIN model.controls : EditControl(i)
       \/ Emits([model EXCEPT !.controls =
                   Append(@, [NewControl("") EXCEPT !.range = <<"0", "10", "1">>])])
       \/ \E b \in {<< >>, <<"k">>} : Emits([model EXCEPT !.binds = b])
       \/ \E w \in Entry : Emits([model EXCEPT !.goal.prompt = w])
       \/ \E w \in Entry : Emits([model EXCEPT !.goal.success = w])
       \/ \E t \in Passages : Emits([model EXCEPT !.goal.message = t])
       \/ \E rows \in RowEdits(model.goal.aim) : Emits([model EXCEPT !.goal.aim = rows])

\* The card is closed and opened, or the raw body is read again: both parse.
ReopenForm ==
    /\ model' = Parsed(body) /\ model' # model
    /\ UNCHANGED <<kind, body, typed>>

\* What is typed into the raw body; it is a body of this kind or it is not.
TypeRaw ==
    /\ ~model.read /\ typed < MaxTyped
    /\ typed' = typed + 1
    /\ \E w \in Written : body' = w.body
    /\ UNCHANGED <<kind, model>>

YamlNext == EditDecision \/ EditPlayground \/ ReopenForm \/ TypeRaw

YamlSpec == YamlInit /\ [][YamlNext]_yamlVars

-----------------------------------------------------------------------------
YamlTypeOK ==
    /\ kind \in {"decision", "playground"}
    /\ \A k \in DOMAIN body : body[k].pad \in Nat
    /\ model.read \in BOOLEAN /\ typed \in 0 .. MaxTyped

\* A text without the blanks at its end.
Trimmed(text) ==
    LET solid == {i \in DOMAIN text : ~BlankLine(text[i])}
    IN  SubSeq(text, 1, IF solid = {} THEN 0 ELSE CHOOSE i \in solid : \A j \in solid : j <= i)

\* What the author has in the form, up to what YAML does not keep.
OptionKept(o) == [id |-> Id(o), label |-> Reread(o.label), writes |-> Rows(o.writes),
                  response |-> Trimmed(o.response)]
Kept(m) ==
    IF kind = "decision"
    THEN [m EXCEPT !.question = Trimmed(@), !.correct = Correct(m),
                   !.options = [k \in DOMAIN @ |-> OptionKept(@[k])]]
    ELSE [m EXCEPT !.controls = [k \in DOMAIN @ |-> [@[k] EXCEPT
                       !.param = IF @ = "" THEN "param" ELSE @, !.label = Reread(@)]],
                   !.goal = [prompt |-> Reread(@.prompt), aim |-> Rows(@.aim),
                             success |-> Reread(@.success), message |-> Trimmed(@.message)]]
Count(m) == IF kind = "decision" THEN Len(m.options) ELSE Len(m.controls)

\* A form opened again shows what was entered in it, field by field and in
\* order, also when a question, a response or a message has lines that look
\* like keys of the body; and it is the raw body only when no option or no
\* control is left.
FormReopensSame ==
    typed > 0 /\ model.read =>
        Parsed(BodyOfModel(model)) = IF Count(model) = 0 THEN Unread ELSE Kept(model)
=============================================================================
