------------------------------ MODULE LineDiff ------------------------------
(***************************************************************************)
(* The diff of the review pane (frontend/src/lib/lineDiff.ts, drawn by     *)
(* components/MergeDiff.tsx): a table of longest common subsequences and a *)
(* walk back through it.  A text is the sequence of lines `split` makes of *)
(* it, so the empty string is the sequence of one blank line.              *)
(***************************************************************************)
EXTENDS Integers, Sequences, FiniteSets

CONSTANTS Line,      \* the lines a text is made of
          Blank,     \* the line without a character, one of them
          MaxLines   \* bound: lines of a text

ASSUME DiffAssumption == Blank \in Line /\ MaxLines \in Nat

VARIABLES master, suggested,   \* the texts the pane was given
          drawn                \* the rows it draws, [kind, text]

diffVars == <<master, suggested, drawn>>

Text == UNION {[1 .. k -> Line] : k \in 1 .. MaxLines}
RowKind == {"same", "add", "del"}

(* `'' ? [] : split`: an empty document has no line at all. *)
Lines(text) == IF text = <<Blank>> THEN << >> ELSE text

(* Mutant: the neighbour's entry is taken whole, as if it were a match. *)
LcsTableGreedy(a, b) ==
  LET lcs[p \in (0 .. Len(a)) \X (0 .. Len(b))] ==
        LET i == p[1]  j == p[2] IN
        IF i = 0 \/ j = 0 THEN 0
        ELSE IF a[i] = b[j] THEN lcs[<<i - 1, j - 1>>] + 1
        ELSE lcs[<<i - 1, j>>]
  IN  lcs

(* The table, row 0 and column 0 filled with 0. *)
LcsTable(a, b) ==
  LET lcs[p \in (0 .. Len(a)) \X (0 .. Len(b))] ==
        LET i == p[1]  j == p[2] IN
        IF i = 0 \/ j = 0 THEN 0
        ELSE IF a[i] = b[j] THEN lcs[<<i - 1, j - 1>>] + 1
        ELSE IF lcs[<<i - 1, j>>] >= lcs[<<i, j - 1>>] THEN lcs[<<i - 1, j>>]
        ELSE lcs[<<i, j - 1>>]
  IN  lcs

(* The two loops that drain the side that is left. *)
Drained(kind, lines) == [k \in 1 .. Len(lines) |-> [kind |-> kind, text |-> lines[k]]]
Rest(a, b, i, j) ==
  IF i > 0 THEN Drained("del", SubSeq(a, 1, i)) ELSE Drained("add", SubSeq(b, 1, j))

(* On a tie the walk leaves the master's line, so deletions come last in   *)
(* the reversed list and first on the screen.                              *)
lineDiff(a, b) ==
  LET lcs == LcsTable(a, b)
      walk[p \in (0 .. Len(a)) \X (0 .. Len(b))] ==
        LET i == p[1]  j == p[2] IN
        IF i = 0 \/ j = 0 THEN Rest(a, b, i, j)
        ELSE IF a[i] = b[j]
             THEN Append(walk[<<i - 1, j - 1>>], [kind |-> "same", text |-> a[i]])
        ELSE IF lcs[<<i - 1, j>>] >= lcs[<<i, j - 1>>]
             THEN Append(walk[<<i - 1, j>>], [kind |-> "del", text |-> a[i]])
        ELSE Append(walk[<<i, j - 1>>], [kind |-> "add", text |-> b[j]])
  IN  walk[<<Len(a), Len(b)>>]

Draw(left, right) == lineDiff(Lines(left), Lines(right))

DiffInit ==
  /\ master \in Text
  /\ suggested = <<Blank>>
  /\ drawn = Draw(master, suggested)

(* useMemo draws again when either text has changed: the next row of the   *)
(* queue, or the same row after a revision or another's merge.             *)
GivenMaster ==
  \E text \in Text :
    /\ master' = text
    /\ drawn' = Draw(text, suggested)
    /\ UNCHANGED suggested
GivenSuggested ==
  \E text \in Text :
    /\ suggested' = text
    /\ drawn' = Draw(master, text)
    /\ UNCHANGED master

DiffNext == GivenMaster \/ GivenSuggested
DiffSpec == DiffInit /\ [][DiffNext]_diffVars

(* Counters in the header of the pane. *)
CountOf(rows, kind) == Cardinality({k \in DOMAIN rows : rows[k].kind = kind})
Added == CountOf(drawn, "add")
Removed == CountOf(drawn, "del")
-----------------------------------------------------------------------------
DiffTypeOK ==
  /\ master \in Text /\ suggested \in Text
  /\ \A k \in DOMAIN drawn : drawn[k].kind \in RowKind /\ drawn[k].text \in Line

(* A common subsequence by its definition: two increasing choices of       *)
(* positions, of one size, that read the same.                             *)
Increasing(f) == \A m, n \in DOMAIN f : m < n => f[m] < f[n]
Selections(s) == {f \in UNION {[1 .. k -> DOMAIN s] : k \in 0 .. Len(s)} : Increasing(f)}
Readings(s) == {[m \in DOMAIN f |-> s[f[m]]] : f \in Selections(s)}

(* The text of the rows of some kinds. *)
TextOf(rows, kinds) ==
  LET text[k \in 0 .. Len(rows)] ==
        IF k = 0 THEN << >>
        ELSE IF rows[k].kind \in kinds THEN Append(text[k - 1], rows[k].text)
        ELSE text[k - 1]
  IN  text[Len(rows)]

(* The rows without the additions are the master and those without the     *)
(* deletions the suggestion, line for line, so a reviewer sees all of both *)
(* texts; and no common reading of the two is longer than the rows shown   *)
(* as unchanged, so the counters in the header are the least edit.         *)
DiffIsLeast ==
  /\ TextOf(drawn, {"same", "del"}) = Lines(master)
  /\ TextOf(drawn, {"same", "add"}) = Lines(suggested)
  /\ \A reading \in Readings(Lines(master)) \cap Readings(Lines(suggested)) :
       /\ Len(Lines(master)) - Removed >= Len(reading)
       /\ Len(Lines(suggested)) - Added >= Len(reading)
=============================================================================
